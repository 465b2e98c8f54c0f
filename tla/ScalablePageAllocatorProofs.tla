--------------------- MODULE ScalablePageAllocatorProofs ---------------------
(***************************************************************************)
(* ScalablePageAllocator keeps its pages apart and each in one place, and    *)
(* implements the abstract allocator, for any number of threads, classes    *)
(* and lanes, any heap and any sizes of requests.                           *)
(***************************************************************************)
EXTENDS ScalablePageAllocator, FiniteSetTheorems, SequenceTheorems, WellFoundedInduction,
        TLAPS

(* The pages of a lane.                                                     *)
Lane(k, l) == ToSet(lists[k][l])

(* A size that a request is rounded up to.                                  *)
Rounded(n) ==
  /\ n \in Nat /\ n >= Header
  /\ ClassOf(n) <= NumCaches => n = ClassSizes[ClassOf(n)]

(* What each step of a call knows about its locals.                         *)
LocalsInStep == \A t \in Threads :
  /\ pc[t] = "idle" => p[t] = NoPage /\ q[t] = NoPage
  /\ pc[t] \in {"pick", "search", "heap"} => p[t] = NoPage
  /\ pc[t] \in {"count", "mark", "copy"} => p[t] # NoPage
  /\ pc[t] \in {"copy", "unset", "uncount", "pickFree", "enqueue"} => q[t] # NoPage
  /\ pc[t] \in {"pick", "search", "heap", "count"} => Rounded(size[t])

(* Pages lie in the heap, below heap_off_.                                  *)
PagesInside ==
  /\ RegionOff <= heap_off
  /\ \A r \in DOMAIN page :
       /\ RegionOff <= r /\ page[r].page_size >= Header
       /\ r + page[r].page_size <= heap_off /\ r + page[r].page_size <= HeapSize

PagesApart ==
  \A r, s \in DOMAIN page : r < s => r + page[r].page_size <= s

(* Page sizes: outside of the lanes they are those of requests, in the      *)
(* lanes of a class they are the size of the class.                         *)
SizesFit ==
  /\ \A r \in held : Rounded(page[r].page_size)
  /\ \A t \in Threads :
       /\ q[t] # NoPage => Rounded(page[q[t]].page_size)
       /\ p[t] # NoPage /\ pc[t] # "count" => Rounded(page[p[t]].page_size)
       /\ pc[t] = "count" => page[p[t]].page_size >= size[t]
  /\ \A k \in 1..NumCaches, l \in Lanes :
       \A r \in Lane(k, l) : page[r].page_size = ClassSizes[k]

(* A page is owned by the callers, by one step of one thread or by a lane.  *)
OneUser == \A t \in Threads :
  /\ p[t] # NoPage => p[t] \notin held /\ \A u \in Threads : p[t] # q[u]
  /\ q[t] # NoPage => q[t] \notin held
  /\ \A u \in Threads \ {t} :
       /\ p[t] # NoPage => p[t] # p[u]
       /\ q[t] # NoPage => q[t] # q[u]

LanesApart == \A k \in Classes, l \in Lanes :
  /\ Lane(k, l) \cap held = {}
  /\ \A t \in Threads : p[t] \notin Lane(k, l) /\ q[t] \notin Lane(k, l)
  /\ \A m \in Classes, n \in Lanes :
       Lane(k, l) \cap Lane(m, n) # {} => k = m /\ l = n

Distinct(s) == \A i, j \in DOMAIN s : s[i] = s[j] => i = j

ListedOnce == \A k \in Classes, l \in Lanes : Distinct(lists[k][l])

Somewhere == \A r \in DOMAIN page :
  \/ r \in held
  \/ \E t \in Threads : p[t] = r \/ q[t] = r
  \/ \E k \in Classes, l \in Lanes : r \in Lane(k, l)

IInv ==
  /\ TypeOK /\ LocalsInStep /\ PagesInside /\ PagesApart /\ SizesFit
  /\ OneUser /\ LanesApart /\ ListedOnce /\ Somewhere
-----------------------------------------------------------------------------
(* A set of natural numbers that is not empty has a least element.          *)
LEMMA LeastElement ==
  ASSUME NEW T, T \subseteq Nat, T # {}
  PROVE  \E i \in T : \A j \in T : i <= j
<1>1. PICK i \in T : \A j \in T : ~ (<<j, i>> \in OpToRel(<, Nat))
  BY NatLessThanWellFounded, WFMin
<1>2. \A j \in T : ~ (j < i)
  BY <1>1 DEF OpToRel
<1> QED
  BY <1>2

(* ClassOf finds the first class that is large enough.                      *)
LEMMA ClassFound ==
  ASSUME NEW n \in Nat
  PROVE  /\ ClassOf(n) \in Classes /\ ClassOf(n) \in Nat /\ NumCaches \in Nat
         /\ ClassOf(n) <= NumCaches =>
              /\ ClassOf(n) \in 1..NumCaches /\ n <= ClassSizes[ClassOf(n)]
              /\ \A j \in 1..(ClassOf(n) - 1) : ClassSizes[j] < n
         /\ ClassOf(n) > NumCaches =>
              ClassOf(n) = NumCaches + 1 /\ \A k \in 1..NumCaches : ClassSizes[k] < n
<1> DEFINE Large == {k \in 1..NumCaches : n <= ClassSizes[k]}
<1>1. NumCaches \in Nat /\ \A k \in 1..NumCaches : ClassSizes[k] \in Nat
  BY ScalableAssumption DEF NumCaches
<1>2. CASE Large = {}
  <2>1. \A k \in 1..NumCaches : ~ (n <= ClassSizes[k])
    BY <1>2
  <2>2. ClassOf(n) = NumCaches + 1
    BY <2>1 DEF ClassOf
  <2> QED
    BY <1>1, <2>1, <2>2 DEF Classes
<1>3. CASE Large # {}
  <2>0. Large \subseteq Nat
    BY <1>1
  <2> HIDE DEF Large
  <2>1. PICK k \in Large : \A j \in Large : k <= j
    BY <2>0, <1>3, LeastElement
  <2>2. /\ k \in 1..NumCaches /\ n <= ClassSizes[k]
        /\ \A j \in 1..(k - 1) : ClassSizes[j] < n
    BY <1>1, <2>1 DEF Large
  <2>3. /\ ClassOf(n) \in 1..NumCaches /\ n <= ClassSizes[ClassOf(n)]
        /\ \A j \in 1..(ClassOf(n) - 1) : ClassSizes[j] < n
    BY <2>2 DEF ClassOf
  <2> QED
    BY <1>1, <2>3 DEF Classes
<1> QED
  BY <1>2, <1>3

(* The class of a class's own size is that class, when it is the class of   *)
(* any size: what RoundUp returns is Rounded.                               *)
LEMMA RoundUpFits ==
  ASSUME NEW n \in Nat, n >= Header
  PROVE  Rounded(RoundUp(n)) /\ RoundUp(n) >= n
<1>1. NumCaches \in Nat /\ Header \in Nat
      /\ \A k \in 1..NumCaches : ClassSizes[k] \in Nat /\ ClassSizes[k] >= Header
  BY ScalableAssumption DEF NumCaches
<1>2. CASE ClassOf(n) <= NumCaches
  <2> DEFINE k == ClassOf(n)
             m == ClassSizes[k]
  <2>1. RoundUp(n) = m /\ k \in 1..NumCaches /\ n <= m /\ \A j \in 1..(k - 1) : ClassSizes[j] < n
    BY <1>2, ClassFound DEF RoundUp
  <2>2. m \in Nat /\ m >= Header
    BY <1>1, <2>1
  <2>3. /\ ClassOf(m) <= NumCaches =>
              /\ ClassOf(m) \in 1..NumCaches /\ m <= ClassSizes[ClassOf(m)]
              /\ \A j \in 1..(ClassOf(m) - 1) : ClassSizes[j] < m
    BY <2>2, ClassFound
  <2> HIDE DEF k
  <2>4. ClassOf(m) <= NumCaches => ClassOf(m) = k
    BY <1>1, <2>1, <2>2, <2>3
  <2> QED
    BY <2>1, <2>2, <2>4 DEF Rounded
<1>3. CASE ~(ClassOf(n) <= NumCaches)
  BY <1>3 DEF RoundUp, Rounded
<1> QED
  BY <1>2, <1>3

(* Classes and their sizes are constant.                                    *)
LEMMA RoundedStays == \A m : Rounded(m)' = Rounded(m)
BY DEF Rounded, ClassOf

(* Lanes after a step that changes one of them.                             *)
LEMMA LaneChanged ==
  ASSUME TypeOK, NEW k \in Classes, NEW l \in Lanes, NEW D, NEW s \in Seq(D),
         DOMAIN page \subseteq D, lists' = [lists EXCEPT ![k][l] = s]
  PROVE  /\ lists' \in [Classes -> [Lanes -> Seq(D)]]
         /\ lists'[k][l] = s /\ Lane(k, l)' = ToSet(s)
         /\ \A m \in Classes, n \in Lanes : m # k \/ n # l =>
              lists'[m][n] = lists[m][n] /\ Lane(m, n)' = Lane(m, n)
<1>1. \A m \in Classes, n \in Lanes : lists[m][n] \in Seq(D)
  BY DEF TypeOK
<1>2. \A m \in Classes, n \in Lanes :
        lists'[m][n] = IF m = k /\ n = l THEN s ELSE lists[m][n]
  BY DEF TypeOK
<1>3. lists' \in [Classes -> [Lanes -> Seq(D)]]
  BY <1>1 DEF TypeOK
<1> QED
  BY <1>2, <1>3 DEF Lane

-----------------------------------------------------------------------------
(* The initial states.                                                      *)
LEMMA InitInv == Init => IInv
<1> SUFFICES ASSUME Init PROVE IInv
  OBVIOUS
<1>1. TypeOK
  BY ScalableAssumption DEF Init, TypeOK, Lanes
<1>2. \A k \in Classes, l \in Lanes : Lane(k, l) = {}
  BY DEF Init, Lane, ToSet
<1>3. LocalsInStep /\ PagesInside /\ PagesApart
  BY ScalableAssumption DEF Init, LocalsInStep, PagesInside, PagesApart
<1>4. SizesFit
  <2>1. \A k \in 1..NumCaches : k \in Classes
    BY ScalableAssumption DEF NumCaches, Classes
  <2> QED
    BY <1>2, <2>1 DEF Init, SizesFit
<1>5. OneUser /\ Somewhere
  BY DEF Init, OneUser, Somewhere
<1>6. LanesApart
  BY <1>2 DEF Init, LanesApart
<1>7. ListedOnce
  BY DEF Init, ListedOnce, Distinct
<1> QED
  BY <1>1, <1>3, <1>4, <1>5, <1>6, <1>7 DEF IInv

(* Steps that move no page and write no size.                               *)
LEMMA Quiet ==
  ASSUME IInv, TypeOK', LocalsInStep', UNCHANGED <<heap_off, lists, held, p, q>>,
         DOMAIN page' = DOMAIN page,
         \A r \in DOMAIN page : page'[r].page_size = page[r].page_size,
         \A t \in Threads : (pc'[t] = "count") = (pc[t] = "count")
                            /\ (pc[t] = "count" => size'[t] = size[t])
  PROVE  IInv'
<1>1. \A k, l : Lane(k, l)' = Lane(k, l)
  BY DEF Lane
<1>2. \A k \in Classes, l \in Lanes : Lane(k, l) \subseteq DOMAIN page
  BY DEF Lane, ToSet, IInv, TypeOK
<1>3. PagesInside' /\ PagesApart'
  BY DEF IInv, PagesInside, PagesApart
<1>4. SizesFit'
  <2>1. \A k \in 1..NumCaches : k \in Classes
    BY ScalableAssumption DEF NumCaches, Classes
  <2>2. \A r \in held' : Rounded(page'[r].page_size)
    BY DEF IInv, SizesFit, TypeOK
  <2>3. ASSUME NEW t \in Threads
        PROVE  /\ q'[t] # NoPage => Rounded(page'[q'[t]].page_size)
               /\ p'[t] # NoPage /\ pc'[t] # "count" => Rounded(page'[p'[t]].page_size)
               /\ pc'[t] = "count" => page'[p'[t]].page_size >= size'[t]
    <3>1. /\ q[t] # NoPage => q[t] \in DOMAIN page
          /\ p[t] # NoPage => p[t] \in DOMAIN page
          /\ pc[t] = "count" => p[t] # NoPage
      BY DEF IInv, TypeOK, LocalsInStep
    <3> QED
      BY <3>1 DEF IInv, SizesFit
  <2>4. ASSUME NEW k \in 1..NumCaches, NEW l \in Lanes, NEW r \in Lane(k, l)'
        PROVE  page'[r].page_size = ClassSizes[k]
    BY <1>1, <1>2, <2>1, <2>4 DEF IInv, SizesFit
  <2>5. \A n : Rounded(n)' = Rounded(n)
    BY RoundedStays
  <2> QED
    BY <2>2, <2>3, <2>4 DEF SizesFit
<1>5. OneUser'
  BY DEF IInv, OneUser
<1>6. LanesApart' /\ Somewhere'
  BY <1>1 DEF IInv, LanesApart, Somewhere
<1>7. ListedOnce'
  BY DEF IInv, ListedOnce
<1> QED
  BY <1>3, <1>4, <1>5, <1>6, <1>7 DEF IInv

(* Counters of a class stay in their width and lead to a lane.              *)
LEMMA CounterSteps ==
  ASSUME NEW n \in 0..(CounterMod - 1)
  PROVE  (n + 1) % CounterMod \in 0..(CounterMod - 1) /\ n % NumLanes \in Lanes
BY ScalableAssumption DEF Lanes

(* Allocate starts with a size that is rounded up.                          *)
LEMMA AllocateBeginInv ==
  ASSUME IInv, NEW t \in Threads, AllocateBegin(t)
  PROVE  IInv'
<1>1. PICK n \in Sizes : size' = [size EXCEPT ![t] = RoundUp(n + Header)]
  BY DEF AllocateBegin
<1>2. Rounded(RoundUp(n + Header)) /\ RoundUp(n + Header) \in Nat
  <2>1. n + Header \in Nat /\ n + Header >= Header
    BY ScalableAssumption
  <2> QED
    BY <2>1, RoundUpFits DEF Rounded
<1>3. TypeOK'
  BY <1>1, <1>2 DEF IInv, TypeOK, AllocateBegin, Goto, shared
<1>4. LocalsInStep'
  <2>1. ASSUME NEW u \in Threads, u # t
        PROVE  pc'[u] = pc[u] /\ size'[u] = size[u] /\ p'[u] = p[u] /\ q'[u] = q[u]
    BY <1>1, <2>1 DEF IInv, TypeOK, AllocateBegin, Goto
  <2>2. pc'[t] = "pick" /\ size'[t] = RoundUp(n + Header) /\ p'[t] = NoPage
    BY <1>1 DEF IInv, TypeOK, AllocateBegin, Goto, LocalsInStep
  <2>3. \A m : Rounded(m)' = Rounded(m)
    BY RoundedStays
  <2> QED
    BY <1>2, <2>1, <2>2, <2>3 DEF IInv, LocalsInStep
<1> QED
  <2>1. \A u \in Threads : (pc'[u] = "count") = (pc[u] = "count")
                           /\ (pc[u] = "count" => size'[u] = size[u])
    BY <1>1 DEF IInv, TypeOK, AllocateBegin, Goto
  <2> QED
    BY <1>3, <1>4, <2>1, Quiet DEF AllocateBegin, shared

(* The lane is chosen.                                                      *)
LEMMA PickAllocLaneInv ==
  ASSUME IInv, NEW t \in Threads, PickAllocLane(t)
  PROVE  IInv'
<1>1. PICK k \in Classes : /\ lane' = [lane EXCEPT ![t] = rr_alloc[k] % NumLanes]
                           /\ rr_alloc' = [rr_alloc EXCEPT ![k] = (@ + 1) % CounterMod]
  BY ClassFound DEF IInv, TypeOK, PickAllocLane
<1>2. TypeOK'
  <2>0. rr_alloc[k] \in 0..(CounterMod - 1)
    BY DEF IInv, TypeOK
  <2>1. rr_alloc[k] % NumLanes \in Lanes
        /\ (rr_alloc[k] + 1) % CounterMod \in 0..(CounterMod - 1)
    BY <2>0, CounterSteps
  <2>2. rr_alloc' \in [Classes -> 0..(CounterMod - 1)] /\ lane' \in [Threads -> Lanes]
    BY <1>1, <2>1 DEF IInv, TypeOK
  <2> QED
    BY <2>2 DEF IInv, TypeOK, PickAllocLane, Goto
<1>3. LocalsInStep'
  <2>1. pc[t] = "pick" /\ pc' = [pc EXCEPT ![t] = "search"] /\ UNCHANGED <<size, p, q>>
    BY DEF PickAllocLane, Goto
  <2> QED
    BY <2>1, RoundedStays DEF IInv, TypeOK, LocalsInStep
<1> QED
  <2>1. \A u \in Threads : (pc'[u] = "count") = (pc[u] = "count")
                           /\ (pc[u] = "count" => size'[u] = size[u])
    BY DEF IInv, TypeOK, PickAllocLane, Goto
  <2> QED
    BY <1>2, <1>3, <2>1, Quiet DEF PickAllocLane

(* The lane has no page that fits.                                          *)
LEMMA TakeNoneInv ==
  ASSUME IInv, NEW t \in Threads, TakeNone(t)
  PROVE  IInv'
<1>1. /\ pc[t] = "search" /\ pc' = [pc EXCEPT ![t] = "heap"]
      /\ UNCHANGED <<shared, size, lane, p, q>>
  BY DEF TakeNone, Goto
<1>2. TypeOK'
  BY <1>1 DEF IInv, TypeOK, shared
<1>3. LocalsInStep'
  BY <1>1, RoundedStays DEF IInv, TypeOK, LocalsInStep
<1> QED
  <2>1. \A u \in Threads : (pc'[u] = "count") = (pc[u] = "count")
    BY <1>1 DEF IInv, TypeOK
  <2> QED
    BY <1>1, <1>2, <1>3, <2>1, Quiet DEF shared

(* The old page is copied.                                                  *)
LEMMA CopyInv ==
  ASSUME IInv, NEW t \in Threads, Copy(t)
  PROVE  IInv'
<1>1. /\ pc[t] = "copy" /\ pc' = [pc EXCEPT ![t] = "unset"]
      /\ UNCHANGED <<shared, size, lane, p, q>>
  BY DEF Copy, Goto
<1>2. TypeOK'
  BY <1>1 DEF IInv, TypeOK, shared
<1>3. LocalsInStep'
  BY <1>1, RoundedStays DEF IInv, TypeOK, LocalsInStep
<1> QED
  <2>1. \A u \in Threads : (pc'[u] = "count") = (pc[u] = "count")
    BY <1>1 DEF IInv, TypeOK
  <2> QED
    BY <1>1, <1>2, <1>3, <2>1, Quiet DEF shared

(* A flag of one page is written.                                           *)
LEMMA FlagWritten ==
  ASSUME TypeOK, NEW r \in DOMAIN page, NEW b \in BOOLEAN,
         page' = [page EXCEPT ![r].allocated = b]
  PROVE  /\ DOMAIN page' = DOMAIN page
         /\ page' \in [DOMAIN page -> [allocated : BOOLEAN, page_size : Nat]]
         /\ \A s \in DOMAIN page : page'[s].page_size = page[s].page_size
<1>1. page \in [DOMAIN page -> [allocated : BOOLEAN, page_size : Nat]]
  BY DEF TypeOK
<1>2. /\ [page[r] EXCEPT !.allocated = b] \in [allocated : BOOLEAN, page_size : Nat]
      /\ [page[r] EXCEPT !.allocated = b].page_size = page[r].page_size
  BY <1>1
<1>3. page' = [page EXCEPT ![r] = [page[r] EXCEPT !.allocated = b]]
  BY <1>1
<1> QED
  BY <1>1, <1>2, <1>3

(* The flag of the page that is freed is cleared.                           *)
LEMMA UnsetAllocatedInv ==
  ASSUME IInv, NEW t \in Threads, UnsetAllocated(t)
  PROVE  IInv'
<1>1. /\ pc[t] = "unset" /\ pc' = [pc EXCEPT ![t] = "uncount"]
      /\ page' = [page EXCEPT ![q[t]].allocated = FALSE]
      /\ UNCHANGED <<heap_off, total_alloc, lists, rr_alloc, rr_free, held, size, lane, p, q>>
  BY DEF UnsetAllocated, Goto
<1>2. q[t] \in DOMAIN page
  BY <1>1 DEF IInv, TypeOK, LocalsInStep
<1>3. /\ DOMAIN page' = DOMAIN page
      /\ page' \in [DOMAIN page -> [allocated : BOOLEAN, page_size : Nat]]
      /\ \A s \in DOMAIN page : page'[s].page_size = page[s].page_size
  BY <1>1, <1>2, FlagWritten DEF IInv
<1>4. TypeOK'
  BY <1>1, <1>3 DEF IInv, TypeOK
<1>5. LocalsInStep'
  BY <1>1, RoundedStays DEF IInv, TypeOK, LocalsInStep
<1> QED
  <2>1. \A u \in Threads : (pc'[u] = "count") = (pc[u] = "count")
    BY <1>1 DEF IInv, TypeOK
  <2> QED
    BY <1>1, <1>3, <1>4, <1>5, <2>1, Quiet

(* The page that is freed is taken off total_alloc_.                        *)
LEMMA UncountAllocInv ==
  ASSUME IInv, NEW t \in Threads, UncountAlloc(t)
  PROVE  IInv'
<1>1. /\ pc[t] = "uncount" /\ pc' = [pc EXCEPT ![t] = "pickFree"]
      /\ total_alloc' = total_alloc - page[q[t]].page_size
      /\ UNCHANGED <<heap_off, page, lists, rr_alloc, rr_free, held, size, lane, p, q>>
  BY DEF UncountAlloc, Goto
<1>2. q[t] \in DOMAIN page
  BY <1>1 DEF IInv, TypeOK, LocalsInStep
<1>3. TypeOK'
  <2>1. page[q[t]].page_size \in Nat /\ total_alloc \in Int
    BY <1>2 DEF IInv, TypeOK
  <2>2. total_alloc' \in Int
    BY <1>1, <2>1
  <2> QED
    BY <1>1, <2>2 DEF IInv, TypeOK
<1>4. LocalsInStep'
  BY <1>1, RoundedStays DEF IInv, TypeOK, LocalsInStep
<1> QED
  <2>1. \A u \in Threads : (pc'[u] = "count") = (pc[u] = "count")
    BY <1>1 DEF IInv, TypeOK
  <2> QED
    BY <1>1, <1>3, <1>4, <2>1, Quiet

(* The lane for the free page is chosen.                                    *)
LEMMA PickFreeLaneInv ==
  ASSUME IInv, NEW t \in Threads, PickFreeLane(t)
  PROVE  IInv'
<1>1. q[t] \in DOMAIN page /\ page[q[t]].page_size \in Nat
  BY DEF IInv, TypeOK, LocalsInStep, PickFreeLane
<1>2. PICK k \in Classes : /\ lane' = [lane EXCEPT ![t] = rr_free[k] % NumLanes]
                           /\ rr_free' = [rr_free EXCEPT ![k] = (@ + 1) % CounterMod]
  BY <1>1, ClassFound DEF PickFreeLane
<1>3. TypeOK'
  <2>0. rr_free[k] \in 0..(CounterMod - 1)
    BY DEF IInv, TypeOK
  <2>1. rr_free[k] % NumLanes \in Lanes
        /\ (rr_free[k] + 1) % CounterMod \in 0..(CounterMod - 1)
    BY <2>0, CounterSteps
  <2>2. rr_free' \in [Classes -> 0..(CounterMod - 1)] /\ lane' \in [Threads -> Lanes]
    BY <1>2, <2>1 DEF IInv, TypeOK
  <2> QED
    BY <2>2 DEF IInv, TypeOK, PickFreeLane, Goto
<1>4. LocalsInStep'
  <2>1. pc[t] = "pickFree" /\ pc' = [pc EXCEPT ![t] = "enqueue"] /\ UNCHANGED <<size, p, q>>
    BY DEF PickFreeLane, Goto
  <2> QED
    BY <2>1, RoundedStays DEF IInv, TypeOK, LocalsInStep
<1> QED
  <2>1. \A u \in Threads : (pc'[u] = "count") = (pc[u] = "count")
    BY DEF IInv, TypeOK, PickFreeLane, Goto
  <2> QED
    BY <1>3, <1>4, <2>1, Quiet DEF PickFreeLane

-----------------------------------------------------------------------------
(* Steps between callers and threads.                                       *)

(* A caller gives a page to a thread that works on none.                    *)
LEMMA TakenFromCaller ==
  ASSUME IInv, TypeOK', LocalsInStep', NEW t \in Threads, NEW r \in held,
         p[t] = NoPage, q[t] = NoPage, pc[t] = "idle",
         q' = [q EXCEPT ![t] = r], held' = held \ {r},
         UNCHANGED <<heap_off, lists, page, p>>, pc'[t] # "count",
         \A u \in Threads \ {t} : pc'[u] = pc[u] /\ size'[u] = size[u]
  PROVE  IInv'
<1>1. r \in DOMAIN page /\ r # NoPage
  BY ScalableAssumption DEF IInv, TypeOK
<1>2. q'[t] = r /\ \A u \in Threads \ {t} : q'[u] = q[u]
  BY DEF IInv, TypeOK
<1>3. \A u \in Threads : p[u] # r /\ q[u] # r
  BY <1>1 DEF IInv, OneUser
<1>4. \A k \in Classes, l \in Lanes : r \notin Lane(k, l) /\ Lane(k, l)' = Lane(k, l)
  BY DEF IInv, LanesApart, Lane
<1>5. PagesInside' /\ PagesApart'
  BY DEF IInv, PagesInside, PagesApart
<1>6. SizesFit'
  <2>1. \A s : Rounded(s)' = Rounded(s)
    BY RoundedStays
  <2>2. \A k \in 1..NumCaches : k \in Classes
    BY ScalableAssumption DEF NumCaches, Classes
  <2>3. ASSUME NEW u \in Threads
        PROVE  /\ q'[u] # NoPage => Rounded(page[q'[u]].page_size)
               /\ p[u] # NoPage /\ pc'[u] # "count" => Rounded(page[p[u]].page_size)
               /\ pc'[u] = "count" => page[p[u]].page_size >= size'[u]
    BY <1>2 DEF IInv, SizesFit
  <2>4. \A k \in 1..NumCaches, l \in Lanes :
          \A s \in Lane(k, l)' : page[s].page_size = ClassSizes[k]
    BY <1>4, <2>2 DEF IInv, SizesFit
  <2> QED
    BY <2>3, <2>4 DEF IInv, SizesFit
<1>7. OneUser'
  BY <1>1, <1>2, <1>3 DEF IInv, OneUser
<1>8. LanesApart'
  BY <1>2, <1>4 DEF IInv, LanesApart
<1>9. ListedOnce'
  BY DEF IInv, ListedOnce
<1>10. Somewhere'
  <2>1. ASSUME NEW s \in DOMAIN page, s # r
        PROVE  \/ s \in held'
               \/ \E u \in Threads : p[u] = s \/ q'[u] = s
               \/ \E k \in Classes, l \in Lanes : s \in Lane(k, l)'
    <3>1. CASE \E u \in Threads : p[u] = s \/ q[u] = s
      <4>1. PICK u \in Threads : p[u] = s \/ q[u] = s
        BY <3>1
      <4>2. s # NoPage
        BY <2>1, ScalableAssumption DEF IInv, TypeOK
      <4> QED
        BY <1>2, <4>1, <4>2
    <3> QED
      BY <1>4, <2>1, <3>1 DEF IInv, Somewhere
  <2> QED
    BY <1>2, <2>1 DEF Somewhere
<1> QED
  BY <1>5, <1>6, <1>7, <1>8, <1>9, <1>10 DEF IInv

(* Reallocate starts with a page of the caller.                             *)
LEMMA ReallocateBeginInv ==
  ASSUME IInv, NEW t \in Threads, ReallocateBegin(t)
  PROVE  IInv'
<1>1. PICK r \in held, n \in Sizes : /\ q' = [q EXCEPT ![t] = r]
                                     /\ size' = [size EXCEPT ![t] = RoundUp(n + Header)]
                                     /\ held' = held \ {r}
  BY DEF ReallocateBegin
<1>2. Rounded(RoundUp(n + Header)) /\ RoundUp(n + Header) \in Nat
  <2>1. n + Header \in Nat /\ n + Header >= Header
    BY ScalableAssumption
  <2> QED
    BY <2>1, RoundUpFits DEF Rounded
<1>3. /\ pc[t] = "idle" /\ pc' = [pc EXCEPT ![t] = "pick"]
      /\ UNCHANGED <<heap_off, total_alloc, page, lists, rr_alloc, rr_free, lane, p>>
  BY DEF ReallocateBegin, Goto
<1>4. TypeOK'
  BY <1>1, <1>2, <1>3 DEF IInv, TypeOK
<1>5. /\ p[t] = NoPage /\ q[t] = NoPage
      /\ pc'[t] = "pick" /\ size'[t] = RoundUp(n + Header)
      /\ \A u \in Threads \ {t} : pc'[u] = pc[u] /\ size'[u] = size[u] /\ q'[u] = q[u]
  BY <1>1, <1>3 DEF IInv, TypeOK, LocalsInStep
<1>6. LocalsInStep'
  <2>1. \A m : Rounded(m)' = Rounded(m)
    BY RoundedStays
  <2> QED
    BY <1>2, <1>3, <1>5, <2>1 DEF IInv, LocalsInStep
<1> QED
  BY <1>1, <1>3, <1>4, <1>5, <1>6, TakenFromCaller

(* Free starts with a page of the caller.                                   *)
LEMMA FreeBeginInv ==
  ASSUME IInv, NEW t \in Threads, FreeBegin(t)
  PROVE  IInv'
<1>1. PICK r \in held : q' = [q EXCEPT ![t] = r] /\ held' = held \ {r}
  BY DEF FreeBegin
<1>2. /\ pc[t] = "idle" /\ pc' = [pc EXCEPT ![t] = "unset"]
      /\ UNCHANGED <<heap_off, total_alloc, page, lists, rr_alloc, rr_free, size, lane, p>>
  BY DEF FreeBegin, Goto
<1>3. TypeOK'
  BY <1>1, <1>2 DEF IInv, TypeOK
<1>4. r # NoPage
  BY ScalableAssumption DEF IInv, TypeOK
<1>5. /\ p[t] = NoPage /\ q[t] = NoPage /\ pc'[t] = "unset" /\ q'[t] = r
      /\ \A u \in Threads \ {t} : pc'[u] = pc[u] /\ q'[u] = q[u]
  BY <1>1, <1>2 DEF IInv, TypeOK, LocalsInStep
<1>6. LocalsInStep'
  <2>1. \A m : Rounded(m)' = Rounded(m)
    BY RoundedStays
  <2> QED
    BY <1>2, <1>4, <1>5, <2>1 DEF IInv, LocalsInStep
<1> QED
  BY <1>1, <1>2, <1>3, <1>5, <1>6, TakenFromCaller

(* A call that is over gives what the thread has to the callers.            *)
LEMMA GivenToCaller ==
  ASSUME IInv, NEW t \in Threads, NEW h \in Nat, Return(t),
         heap_off' = h, h >= heap_off,
         held' = held \cup ({p[t], q[t]} \ {NoPage}), pc[t] # "count",
         UNCHANGED <<lists, rr_alloc, rr_free, total_alloc>>,
         DOMAIN page' = DOMAIN page,
         page' \in [DOMAIN page -> [allocated : BOOLEAN, page_size : Nat]],
         \A r \in DOMAIN page : page'[r].page_size = page[r].page_size
  PROVE  IInv'
<1>1. /\ pc' = [pc EXCEPT ![t] = "idle"] /\ size' = [size EXCEPT ![t] = 0]
      /\ lane' = [lane EXCEPT ![t] = 0] /\ p' = [p EXCEPT ![t] = NoPage]
      /\ q' = [q EXCEPT ![t] = NoPage]
  BY DEF Return, Goto
<1>2. /\ pc'[t] = "idle" /\ p'[t] = NoPage /\ q'[t] = NoPage
      /\ \A u \in Threads \ {t} : /\ pc'[u] = pc[u] /\ size'[u] = size[u]
                                  /\ p'[u] = p[u] /\ q'[u] = q[u]
  BY <1>1 DEF IInv, TypeOK
<1>3. TypeOK'
  <2>1. 0 \in Lanes /\ 0 \in Nat
    BY ScalableAssumption DEF Lanes
  <2> QED
    BY <1>1, <2>1 DEF IInv, TypeOK
<1>4. LocalsInStep'
  <2>1. \A m : Rounded(m)' = Rounded(m)
    BY RoundedStays
  <2> QED
    BY <1>2, <2>1 DEF IInv, LocalsInStep
<1>5. PagesInside' /\ PagesApart'
  <2>1. heap_off \in Nat /\ \A r \in DOMAIN page : r \in Nat /\ page[r].page_size \in Nat
    BY DEF IInv, TypeOK
  <2>2. RegionOff <= h
    BY <2>1, ScalableAssumption DEF IInv, PagesInside
  <2>3. ASSUME NEW r \in DOMAIN page
        PROVE  /\ RegionOff <= r /\ page[r].page_size >= Header
               /\ r + page[r].page_size <= h /\ r + page[r].page_size <= HeapSize
    <3>1. /\ RegionOff <= r /\ page[r].page_size >= Header
          /\ r + page[r].page_size <= heap_off /\ r + page[r].page_size <= HeapSize
      BY DEF IInv, PagesInside
    <3> QED
      BY <2>1, <3>1
  <2>4. PagesInside'
    BY <2>2, <2>3 DEF PagesInside
  <2>5. PagesApart'
    BY DEF IInv, PagesApart
  <2> QED
    BY <2>4, <2>5
<1>6. \A k \in Classes, l \in Lanes : /\ Lane(k, l)' = Lane(k, l)
                                      /\ Lane(k, l) \subseteq DOMAIN page
  BY DEF IInv, TypeOK, Lane, ToSet
<1>7. SizesFit'
  <2>1. ASSUME NEW r \in held' PROVE Rounded(page'[r].page_size)
    <3>1. r \in DOMAIN page /\ page'[r].page_size = page[r].page_size
      BY <1>3 DEF TypeOK
    <3>2. Rounded(page[r].page_size)
      BY DEF IInv, SizesFit
    <3> QED
      BY <3>1, <3>2
  <2>2. \A k \in 1..NumCaches : k \in Classes
    BY ScalableAssumption DEF NumCaches, Classes
  <2>3. ASSUME NEW u \in Threads
        PROVE  /\ q'[u] # NoPage => Rounded(page'[q'[u]].page_size)
               /\ p'[u] # NoPage /\ pc'[u] # "count" => Rounded(page'[p'[u]].page_size)
               /\ pc'[u] = "count" => page'[p'[u]].page_size >= size'[u]
    <3>1. CASE u = t
      BY <1>2, <3>1
    <3>2. CASE u # t
      <4>1. /\ q[u] # NoPage => q[u] \in DOMAIN page
            /\ p[u] # NoPage => p[u] \in DOMAIN page
            /\ pc[u] = "count" => p[u] # NoPage
        BY DEF IInv, TypeOK, LocalsInStep
      <4> QED
        BY <1>2, <3>2, <4>1 DEF IInv, SizesFit
    <3> QED
      BY <3>1, <3>2
  <2>4. \A k \in 1..NumCaches, l \in Lanes :
          \A s \in Lane(k, l)' : page'[s].page_size = ClassSizes[k]
    BY <1>6, <2>2 DEF IInv, SizesFit
  <2>5. \A s : Rounded(s)' = Rounded(s)
    BY RoundedStays
  <2> QED
    BY <2>1, <2>3, <2>4, <2>5 DEF SizesFit
<1>8. OneUser'
  BY <1>2 DEF IInv, OneUser
<1>9. LanesApart'
  <2>1. \A k \in Classes, l \in Lanes : NoPage \notin Lane(k, l)
    BY <1>6, ScalableAssumption DEF IInv, TypeOK
  <2> QED
    BY <1>2, <1>6, <2>1 DEF IInv, LanesApart
<1>10. ListedOnce'
  BY DEF IInv, ListedOnce
<1>11. Somewhere'
  <2>1. \A r \in DOMAIN page : r # NoPage
    BY ScalableAssumption DEF IInv, TypeOK
  <2> QED
    BY <1>2, <1>6, <2>1 DEF IInv, Somewhere
<1> QED
  BY <1>3, <1>4, <1>5, <1>7, <1>8, <1>9, <1>10, <1>11 DEF IInv

(* OUT_OF_MEMORY: the old page of a reallocation goes back to its caller.   *)
LEMMA HeapRefusedInv ==
  ASSUME IInv, NEW t \in Threads, HeapRefused(t)
  PROVE  IInv'
<1>1. p[t] = NoPage /\ pc[t] # "count"
  BY DEF IInv, LocalsInStep, HeapRefused
<1>2. held' = held \cup ({p[t], q[t]} \ {NoPage})
  BY <1>1 DEF HeapRefused
<1>3. heap_off + size[t] + Header \in Nat /\ heap_off + size[t] + Header >= heap_off
  BY ScalableAssumption DEF IInv, TypeOK
<1>4. /\ heap_off' = heap_off + size[t] + Header /\ Return(t)
      /\ UNCHANGED <<total_alloc, page, lists, rr_alloc, rr_free>>
  BY DEF HeapRefused
<1>5. page' \in [DOMAIN page -> [allocated : BOOLEAN, page_size : Nat]]
  BY <1>4 DEF IInv, TypeOK
<1> QED
  BY <1>1, <1>2, <1>3, <1>4, <1>5, GivenToCaller

(* The new page is marked; an allocation returns it.                        *)
LEMMA MarkAllocatedInv ==
  ASSUME IInv, NEW t \in Threads, MarkAllocated(t)
  PROVE  IInv'
<1>1. p[t] \in DOMAIN page /\ p[t] # NoPage /\ pc[t] = "mark"
  BY DEF IInv, TypeOK, LocalsInStep, MarkAllocated
<1>2. page' = [page EXCEPT ![p[t]].allocated = TRUE]
      /\ UNCHANGED <<heap_off, total_alloc, lists, rr_alloc, rr_free>>
  BY DEF MarkAllocated
<1>3. /\ DOMAIN page' = DOMAIN page
      /\ page' \in [DOMAIN page -> [allocated : BOOLEAN, page_size : Nat]]
      /\ \A s \in DOMAIN page : page'[s].page_size = page[s].page_size
  BY <1>1, <1>2, FlagWritten DEF IInv
<1>4. CASE q[t] = NoPage /\ held' = held \cup {p[t]} /\ Return(t)
  <2>1. held' = held \cup ({p[t], q[t]} \ {NoPage})
    BY <1>1, <1>4
  <2>2. heap_off \in Nat /\ heap_off' = heap_off /\ heap_off >= heap_off
    BY <1>2 DEF IInv, TypeOK
  <2>3. pc[t] # "count" /\ UNCHANGED <<lists, rr_alloc, rr_free, total_alloc>> /\ Return(t)
    BY <1>1, <1>2, <1>4
  <2> QED
    BY <1>3, <2>1, <2>2, <2>3, GivenToCaller
<1>5. CASE q[t] # NoPage /\ Goto(t, "copy") /\ UNCHANGED <<held, size, lane, p, q>>
  <2>1. pc' = [pc EXCEPT ![t] = "copy"]
    BY <1>5 DEF Goto
  <2>2. TypeOK'
    BY <1>2, <1>3, <1>5, <2>1 DEF IInv, TypeOK
  <2>3. LocalsInStep'
    BY <1>1, <1>5, <2>1, RoundedStays DEF IInv, TypeOK, LocalsInStep
  <2>4. \A u \in Threads : (pc'[u] = "count") = (pc[u] = "count")
    BY <1>1, <2>1 DEF IInv, TypeOK
  <2> QED
    BY <1>2, <1>3, <1>5, <2>2, <2>3, <2>4, Quiet
<1> QED
  BY <1>4, <1>5 DEF MarkAllocated

-----------------------------------------------------------------------------
(* Lists without repetition.                                                *)

(* The list without its first page.                                         *)
LEMMA TailOf ==
  ASSUME NEW D, NEW s \in Seq(D), s # <<>>, Distinct(s)
  PROVE  /\ Tail(s) \in Seq(D) /\ Head(s) \in ToSet(s)
         /\ ToSet(Tail(s)) = ToSet(s) \ {Head(s)} /\ Distinct(Tail(s))
<1>1. /\ Tail(s) \in Seq(D) /\ Len(Tail(s)) = Len(s) - 1 /\ Len(s) \in Nat \ {0}
      /\ \A i \in 1..(Len(s) - 1) : Tail(s)[i] = s[i + 1]
      /\ Head(s) = s[1] /\ DOMAIN s = 1..Len(s)
      /\ DOMAIN Tail(s) = 1..(Len(s) - 1)
  OBVIOUS
<1>2. Head(s) \in ToSet(s)
  BY <1>1 DEF ToSet
<1>3. Distinct(Tail(s))
  BY <1>1 DEF Distinct
<1>4. ASSUME NEW x PROVE x \in ToSet(Tail(s)) <=> x \in ToSet(s) \ {Head(s)}
  <2>1. ASSUME x \in ToSet(Tail(s)) PROVE x \in ToSet(s) \ {Head(s)}
    <3>1. PICK i \in 1..(Len(s) - 1) : x = s[i + 1]
      BY <1>1, <2>1 DEF ToSet
    <3>2. i + 1 \in DOMAIN s /\ i + 1 # 1 /\ 1 \in DOMAIN s
      BY <1>1
    <3> QED
      BY <1>1, <3>1, <3>2 DEF ToSet, Distinct
  <2>2. ASSUME x \in ToSet(s) \ {Head(s)} PROVE x \in ToSet(Tail(s))
    <3>1. PICK i \in 1..Len(s) : x = s[i]
      BY <1>1, <2>2 DEF ToSet
    <3>2. i - 1 \in 1..(Len(s) - 1) /\ (i - 1) + 1 = i
      BY <1>1, <2>2, <3>1
    <3>3. x = Tail(s)[i - 1]
      BY <1>1, <3>1, <3>2
    <3> QED
      BY <1>1, <3>2, <3>3 DEF ToSet
  <2> QED
    BY <2>1, <2>2
<1> QED
  BY <1>1, <1>2, <1>3, <1>4

(* The list without the page at i.                                          *)
LEMMA RemovedAt ==
  ASSUME NEW D, NEW s \in Seq(D), NEW i \in DOMAIN s, Distinct(s)
  PROVE  /\ RemoveAt(s, i) \in Seq(D)
         /\ ToSet(RemoveAt(s, i)) = ToSet(s) \ {s[i]} /\ Distinct(RemoveAt(s, i))
<1> DEFINE w == RemoveAt(s, i)
           n == Len(s)
<1>1. /\ w \in Seq(D) /\ Len(w) = n - 1 /\ n \in Nat /\ i \in 1..n /\ DOMAIN s = 1..n
      /\ DOMAIN w = 1..(n - 1)
      /\ \A j \in 1..(n - 1) : w[j] = IF j < i THEN s[j] ELSE s[j + 1]
  <2>0. n \in Nat /\ i \in 1..n /\ DOMAIN s = 1..n
    OBVIOUS
  <2> DEFINE u == SubSeq(s, 1, i - 1)
             v == SubSeq(s, i + 1, n)
  <2>1. u \in Seq(D) /\ Len(u) = i - 1 /\ \A j \in 1..(i - 1) : u[j] = s[j]
    BY <2>0
  <2>2. v \in Seq(D) /\ Len(v) = n - i /\ \A j \in 1..(n - i) : v[j] = s[i + j]
    BY <2>0
  <2>3. w = u \o v
    BY DEF RemoveAt
  <2> HIDE DEF w, u, v
  <2>4. w \in Seq(D) /\ Len(w) = n - 1 /\ DOMAIN w = 1..(n - 1)
    <3>1. w \in Seq(D) /\ Len(w) = Len(u) + Len(v)
      BY <2>1, <2>2, <2>3, ConcatProperties
    <3>2. Len(w) = n - 1
      BY <2>0, <2>1, <2>2, <3>1
    <3> QED
      BY <3>1, <3>2
  <2>5. ASSUME NEW j \in 1..(n - 1) PROVE w[j] = IF j < i THEN s[j] ELSE s[j + 1]
    <3>1. CASE j < i
      BY <2>0, <2>1, <2>2, <2>3, <3>1
    <3>2. CASE ~(j < i)
      <4>1. j - (i - 1) \in 1..(n - i) /\ i + (j - (i - 1)) = j + 1
        BY <2>0, <3>2
      <4>2. w[j] = v[j - (i - 1)]
        <5>1. j \in 1..(Len(u) + Len(v)) /\ ~(j <= Len(u)) /\ Len(u) = i - 1
          BY <2>0, <2>1, <2>2, <3>2
        <5>2. (u \o v)[j] = v[j - Len(u)]
          BY <2>1, <2>2, <5>1, ConcatProperties
        <5> QED
          BY <2>3, <5>1, <5>2
      <4> QED
        BY <2>2, <3>2, <4>1, <4>2
    <3> QED
      BY <3>1, <3>2
  <2> QED
    BY <2>0, <2>4, <2>5
<1> HIDE DEF w
<1>2. Distinct(w)
  <2> SUFFICES ASSUME NEW j \in 1..(n - 1), NEW k \in 1..(n - 1), w[j] = w[k]
               PROVE  j = k
    BY <1>1 DEF Distinct
  <2>1. \A a, b \in 1..n : s[a] = s[b] => a = b
    BY <1>1 DEF Distinct
  <2> DEFINE a == IF j < i THEN j ELSE j + 1
             b == IF k < i THEN k ELSE k + 1
  <2>2. a \in 1..n /\ b \in 1..n /\ s[a] = s[b]
    BY <1>1
  <2>3. a = b
    BY <2>1, <2>2
  <2> QED
    BY <1>1, <2>3
<1>3. ASSUME NEW x \in ToSet(w) PROVE x \in ToSet(s) \ {s[i]}
  <2>1. PICK j \in 1..(n - 1) : x = w[j]
    BY <1>1 DEF ToSet
  <2> DEFINE a == IF j < i THEN j ELSE j + 1
  <2>2. a \in 1..n /\ a # i /\ x = s[a]
    BY <1>1, <2>1
  <2> QED
    BY <1>1, <2>2 DEF ToSet, Distinct
<1>4. ASSUME NEW x \in ToSet(s) \ {s[i]} PROVE x \in ToSet(w)
  <2>1. PICK a \in 1..n : x = s[a]
    BY <1>1 DEF ToSet
  <2> DEFINE j == IF a < i THEN a ELSE a - 1
  <2>2. j \in 1..(n - 1) /\ (IF j < i THEN j ELSE j + 1) = a
    BY <1>1, <2>1
  <2>3. w[j] = x
    BY <1>1, <2>1, <2>2
  <2> QED
    BY <1>1, <2>2, <2>3 DEF ToSet
<1> QED
  BY <1>1, <1>2, <1>3, <1>4 DEF w

(* A page in front of a list.                                               *)
LEMMA InFront ==
  ASSUME NEW D, NEW s \in Seq(D), NEW x \in D, x \notin ToSet(s), Distinct(s)
  PROVE  /\ <<x>> \o s \in Seq(D) /\ ToSet(<<x>> \o s) = ToSet(s) \cup {x}
         /\ Distinct(<<x>> \o s)
<1> DEFINE w == <<x>> \o s
           n == Len(s)
<1>1. /\ w \in Seq(D) /\ Len(w) = n + 1 /\ n \in Nat /\ DOMAIN s = 1..n
      /\ DOMAIN w = 1..(n + 1) /\ w[1] = x /\ \A i \in 1..n : w[i + 1] = s[i]
  OBVIOUS
<1> HIDE DEF w
<1>2. \A i \in 1..(n + 1) : i = 1 \/ (i - 1 \in 1..n /\ w[i] = s[i - 1])
  <2>1. ASSUME NEW i \in 1..(n + 1), i # 1 PROVE i - 1 \in 1..n /\ w[i] = s[i - 1]
    <3>1. i - 1 \in 1..n /\ (i - 1) + 1 = i
      BY <1>1, <2>1
    <3> QED
      BY <1>1, <3>1
  <2> QED
    BY <2>1
<1>3. Distinct(w)
  <2> SUFFICES ASSUME NEW j \in 1..(n + 1), NEW k \in 1..(n + 1), w[j] = w[k]
               PROVE  j = k
    BY <1>1 DEF Distinct
  <2>1. \A i \in 1..n : s[i] # x
    BY <1>1 DEF ToSet
  <2>2. CASE j = 1 \/ k = 1
    BY <1>1, <1>2, <2>1, <2>2
  <2>3. CASE j # 1 /\ k # 1
    <3>1. j - 1 \in 1..n /\ k - 1 \in 1..n /\ s[j - 1] = s[k - 1]
      BY <1>2, <2>3
    <3>2. j - 1 = k - 1
      BY <1>1, <3>1 DEF Distinct
    <3> QED
      BY <1>1, <3>2
  <2> QED
    BY <2>2, <2>3
<1>4. ToSet(w) = ToSet(s) \cup {x}
  <2>1. ASSUME NEW y \in ToSet(w) PROVE y \in ToSet(s) \cup {x}
    <3>1. PICK i \in 1..(n + 1) : y = w[i]
      BY <1>1, <2>1 DEF ToSet
    <3>2. i # 1 => i - 1 \in DOMAIN s /\ y = s[i - 1]
      BY <1>1, <1>2, <3>1
    <3> QED
      BY <1>1, <3>1, <3>2 DEF ToSet
  <2>2. ASSUME NEW y \in ToSet(s) PROVE y \in ToSet(w)
    <3>1. PICK i \in 1..n : y = s[i]
      BY <1>1 DEF ToSet
    <3>2. i + 1 \in 1..(n + 1) /\ w[i + 1] = y
      BY <1>1, <3>1
    <3> QED
      BY <1>1, <3>2 DEF ToSet
  <2>3. x \in ToSet(w)
    <3>1. 1 \in 1..(n + 1)
      BY <1>1
    <3> QED
      BY <1>1, <3>1 DEF ToSet
  <2> QED
    BY <2>1, <2>2, <2>3
<1> QED
  BY <1>1, <1>3, <1>4 DEF w

(* Linking pages changes no size.                                           *)
LEMMA LinkedPages ==
  ASSUME NEW D, NEW headers \in [D -> [allocated : BOOLEAN, page_size : Nat]], NEW s
  PROVE  /\ Linked(headers, s) \in [D -> [allocated : BOOLEAN, page_size : Nat]]
         /\ \A r \in D : Linked(headers, s)[r].page_size = headers[r].page_size
<1>1. \A i : LinkBit(s, i) \in BOOLEAN
  BY DEF LinkBit
<1>2. ASSUME NEW r \in D, NEW b \in BOOLEAN
      PROVE  /\ [headers[r] EXCEPT !.allocated = b] \in [allocated : BOOLEAN, page_size : Nat]
             /\ [headers[r] EXCEPT !.allocated = b].page_size = headers[r].page_size
  OBVIOUS
<1> QED
  BY <1>1, <1>2 DEF Linked

-----------------------------------------------------------------------------
(* Steps that take a page.                                                  *)

(* The pages of a lane are pages.                                           *)
LEMMA LaneInDomain ==
  ASSUME IInv, NEW k \in Classes, NEW l \in Lanes
  PROVE  Lane(k, l) \subseteq DOMAIN page
<1>1. lists[k][l] \in Seq(DOMAIN page)
  BY DEF IInv, TypeOK
<1> QED
  BY <1>1 DEF Lane, ToSet

(* A thread takes the page x out of a lane, where new pages N may come in.  *)
LEMMA TakenFromLane ==
  ASSUME IInv, TypeOK', PagesInside', PagesApart', NEW t \in Threads,
         pc[t] = "search", pc' = [pc EXCEPT ![t] = "count"],
         NEW k \in Classes, NEW l \in Lanes, NEW x \in Lane(k, l),
         NEW N, N \cap DOMAIN page = {}, DOMAIN page' = DOMAIN page \cup N,
         N # {} => k = NumCaches + 1,
         NEW s \in Seq(DOMAIN page \cup N), lists' = [lists EXCEPT ![k][l] = s],
         ToSet(s) = (Lane(k, l) \ {x}) \cup N, Distinct(s),
         p' = [p EXCEPT ![t] = x], UNCHANGED <<held, size, q>>,
         page'[x].page_size >= size[t],
         \A r \in DOMAIN page \ {x} : page'[r].page_size = page[r].page_size
  PROVE  IInv'
<1>5. \A m \in Classes, n \in Lanes : Lane(m, n) \subseteq DOMAIN page
  BY LaneInDomain
<1>1. /\ pc'[t] = "count" /\ p'[t] = x /\ x # NoPage /\ x \in DOMAIN page
      /\ p[t] = NoPage
      /\ \A u \in Threads \ {t} : pc'[u] = pc[u] /\ p'[u] = p[u]
  <2>1. x \in DOMAIN page
    BY <1>5
  <2>2. x # NoPage /\ p[t] = NoPage
    BY <2>1, ScalableAssumption DEF IInv, TypeOK, LocalsInStep
  <2>3. pc'[t] = "count" /\ \A u \in Threads \ {t} : pc'[u] = pc[u]
    BY DEF IInv, TypeOK
  <2>4. p'[t] = x /\ \A u \in Threads \ {t} : p'[u] = p[u]
    BY DEF IInv, TypeOK
  <2> QED
    BY <2>1, <2>2, <2>3, <2>4
<1>2. /\ lists'[k][l] = s /\ Lane(k, l)' = (Lane(k, l) \ {x}) \cup N
      /\ \A m \in Classes, n \in Lanes : m # k \/ n # l =>
           lists'[m][n] = lists[m][n] /\ Lane(m, n)' = Lane(m, n)
  <2> DEFINE D == DOMAIN page \cup N
  <2>1. DOMAIN page \subseteq D /\ s \in Seq(D) /\ TypeOK
    BY DEF IInv
  <2>2. lists' = [lists EXCEPT ![k][l] = s]
    OBVIOUS
  <2> HIDE DEF D
  <2>3. /\ lists' \in [Classes -> [Lanes -> Seq(D)]]
        /\ lists'[k][l] = s /\ Lane(k, l)' = ToSet(s)
        /\ \A m \in Classes, n \in Lanes : m # k \/ n # l =>
             lists'[m][n] = lists[m][n] /\ Lane(m, n)' = Lane(m, n)
    BY <2>1, <2>2, LaneChanged
  <2> QED
    BY <2>3
<1>3. x \notin held /\ \A u \in Threads : p[u] # x /\ q[u] # x
  BY DEF IInv, LanesApart
<1>4. \A m \in Classes, n \in Lanes : m # k \/ n # l => x \notin Lane(m, n)
  BY DEF IInv, LanesApart
<1>6. /\ held \subseteq DOMAIN page
      /\ \A u \in Threads : p[u] \in DOMAIN page \cup {NoPage}
                            /\ q[u] \in DOMAIN page \cup {NoPage}
      /\ NoPage \notin DOMAIN page'
  BY ScalableAssumption DEF IInv, TypeOK
<1>7. LocalsInStep'
  <2>1. \A m : Rounded(m)' = Rounded(m)
    BY RoundedStays
  <2> QED
    BY <1>1, <2>1 DEF IInv, LocalsInStep
<1>8. SizesFit'
  <2>1. \A m \in 1..NumCaches : m \in Classes /\ m # NumCaches + 1
    BY ScalableAssumption DEF NumCaches, Classes
  <2>2. \A r \in held : Rounded(page'[r].page_size)
    BY <1>3, <1>6 DEF IInv, SizesFit
  <2>3. ASSUME NEW u \in Threads
        PROVE  /\ q[u] # NoPage => Rounded(page'[q[u]].page_size)
               /\ p'[u] # NoPage /\ pc'[u] # "count" => Rounded(page'[p'[u]].page_size)
               /\ pc'[u] = "count" => page'[p'[u]].page_size >= size[u]
    <3>1. q[u] # NoPage => Rounded(page'[q[u]].page_size)
      BY <1>3, <1>6 DEF IInv, SizesFit
    <3>2. CASE u = t
      BY <1>1, <3>1, <3>2
    <3>3. CASE u # t
      <4>1. pc[u] = "count" => p[u] # NoPage
        BY DEF IInv, LocalsInStep
      <4> QED
        BY <1>1, <1>3, <1>6, <3>1, <3>3, <4>1 DEF IInv, SizesFit
    <3> QED
      BY <3>2, <3>3
  <2>4. ASSUME NEW m \in 1..NumCaches, NEW n \in Lanes, NEW r \in Lane(m, n)'
        PROVE  page'[r].page_size = ClassSizes[m]
    <3>1. r \in Lane(m, n) /\ r # x
      BY <1>2, <1>4, <2>1, <2>4
    <3> QED
      BY <1>5, <2>1, <3>1 DEF IInv, SizesFit
  <2>5. \A m : Rounded(m)' = Rounded(m)
    BY RoundedStays
  <2> QED
    BY <2>2, <2>3, <2>4, <2>5 DEF SizesFit
<1>9. OneUser'
  BY <1>1, <1>3 DEF IInv, OneUser
<1>10. LanesApart'
  <2>1. ASSUME NEW m \in Classes, NEW n \in Lanes
        PROVE  /\ Lane(m, n)' \cap held = {}
               /\ \A u \in Threads : p'[u] \notin Lane(m, n)' /\ q[u] \notin Lane(m, n)'
    <3>1. Lane(m, n) \cap held = {}
          /\ \A u \in Threads : p[u] \notin Lane(m, n) /\ q[u] \notin Lane(m, n)
      BY DEF IInv, LanesApart
    <3>2. N \cap held = {} /\ \A u \in Threads : p[u] \notin N /\ q[u] \notin N
      BY <1>6
    <3>3. x \notin N /\ x \notin Lane(m, n)'
      BY <1>1, <1>2, <1>4
    <3> QED
      BY <1>1, <1>2, <3>1, <3>2, <3>3
  <2>2. ASSUME NEW m \in Classes, NEW n \in Lanes, NEW i \in Classes, NEW j \in Lanes,
               NEW r \in Lane(m, n)' \cap Lane(i, j)'
        PROVE  m = i /\ n = j
    <3>1. CASE r \in N
      BY <1>2, <1>5, <2>2, <3>1
    <3>2. CASE r \notin N
      <4>1. r \in Lane(m, n) \cap Lane(i, j)
        BY <1>2, <2>2, <3>2
      <4> QED
        BY <4>1 DEF IInv, LanesApart
    <3> QED
      BY <3>1, <3>2
  <2> QED
    BY <2>1, <2>2 DEF LanesApart
<1>11. ListedOnce'
  BY <1>2 DEF IInv, ListedOnce
<1>12. Somewhere'
  <2>1. ASSUME NEW r \in DOMAIN page'
        PROVE  \/ r \in held
               \/ \E u \in Threads : p'[u] = r \/ q[u] = r
               \/ \E m \in Classes, n \in Lanes : r \in Lane(m, n)'
    <3>1. CASE r \in N \/ r = x
      BY <1>1, <1>2, <3>1
    <3>2. CASE r \in DOMAIN page /\ r # x
      <4>1. ASSUME NEW m \in Classes, NEW n \in Lanes, r \in Lane(m, n)
            PROVE  r \in Lane(m, n)'
        BY <1>2, <3>2, <4>1
      <4>2. ASSUME NEW u \in Threads, p[u] = r PROVE p'[u] = r
        BY <1>1, <1>6, <3>2, <4>2
      <4> QED
        BY <3>2, <4>1, <4>2 DEF IInv, Somewhere
    <3> QED
      BY <2>1, <3>1, <3>2
  <2> QED
    BY <2>1 DEF Somewhere
<1> QED
  BY <1>7, <1>8, <1>9, <1>10, <1>11, <1>12 DEF IInv

(* A page of the right class.                                               *)
LEMMA TakeCachedInv ==
  ASSUME IInv, NEW t \in Threads, TakeCached(t)
  PROVE  IInv'
<1> DEFINE k == ClassOf(size[t])
           l == lane[t]
           list == lists[k][l]
           x == Head(list)
<1>1. /\ pc[t] = "search" /\ pc' = [pc EXCEPT ![t] = "count"]
      /\ k <= NumCaches /\ list # <<>>
      /\ p' = [p EXCEPT ![t] = x] /\ lists' = [lists EXCEPT ![k][l] = Tail(list)]
      /\ UNCHANGED <<heap_off, total_alloc, page, rr_alloc, rr_free, held, size, lane, q>>
  BY DEF TakeCached, Goto
<1>2. size[t] \in Nat /\ l \in Lanes
  BY DEF IInv, TypeOK
<1>3. k \in Classes /\ k \in 1..NumCaches /\ size[t] = ClassSizes[k]
  BY <1>1, <1>2, ClassFound DEF IInv, LocalsInStep, Rounded
<1> HIDE DEF k, l
<1>4. list \in Seq(DOMAIN page) /\ Distinct(list) /\ Lane(k, l) = ToSet(list)
  BY <1>2, <1>3 DEF IInv, TypeOK, ListedOnce, Lane
<1>5. /\ Tail(list) \in Seq(DOMAIN page) /\ x \in Lane(k, l)
      /\ ToSet(Tail(list)) = Lane(k, l) \ {x} /\ Distinct(Tail(list))
  BY <1>1, <1>4, TailOf
<1>6. x \in DOMAIN page /\ page[x].page_size = ClassSizes[k] /\ ClassSizes[k] \in Nat
  <2>1. x \in DOMAIN page
    BY <1>2, <1>3, <1>5, LaneInDomain
  <2>2. page[x].page_size = ClassSizes[k]
    BY <1>2, <1>3, <1>5 DEF IInv, SizesFit
  <2>3. page[x].page_size \in Nat
    BY <2>1 DEF IInv, TypeOK
  <2> QED
    BY <2>1, <2>2, <2>3
<1> HIDE DEF list, x
<1>7. lists' \in [Classes -> [Lanes -> Seq(DOMAIN page)]]
  BY <1>1, <1>2, <1>3, <1>5, LaneChanged DEF IInv
<1>8. TypeOK'
  BY <1>1, <1>6, <1>7 DEF IInv, TypeOK
<1>9. PagesInside' /\ PagesApart'
  BY <1>1 DEF IInv, PagesInside, PagesApart
<1>10. page'[x].page_size >= size[t]
  BY <1>1, <1>3, <1>6
<1> QED
  <2> DEFINE N == {}
  <2>1. /\ N \cap DOMAIN page = {} /\ DOMAIN page' = DOMAIN page \cup N
        /\ Tail(list) \in Seq(DOMAIN page \cup N)
        /\ ToSet(Tail(list)) = (Lane(k, l) \ {x}) \cup N
        /\ \A r \in DOMAIN page \ {x} : page'[r].page_size = page[r].page_size
    <3>1. DOMAIN page \cup N = DOMAIN page
      OBVIOUS
    <3> QED
      BY <1>1, <1>5, <3>1
  <2>2. N = {}
    OBVIOUS
  <2> HIDE DEF N
  <2> QED
    BY <1>1, <1>2, <1>3, <1>5, <1>8, <1>9, <1>10, <2>1, <2>2, TakenFromLane

(* The first page that fits leaves the list of a lane of large pages.       *)
LEMMA FirstFitFound ==
  ASSUME IInv, NEW t \in Threads, TakeFirstFit(t)
  PROVE  LET k == ClassOf(size[t])
             l == lane[t]
             list == lists[k][l]
             i == CHOOSE j \in Fits(t, list) : \A m \in Fits(t, list) : j <= m
         IN  /\ k = NumCaches + 1 /\ k \in Classes /\ l \in Lanes
             /\ list \in Seq(DOMAIN page) /\ Distinct(list) /\ Lane(k, l) = ToSet(list)
             /\ i \in DOMAIN list /\ list[i] \in Lane(k, l) /\ list[i] \in DOMAIN page
             /\ page[list[i]].page_size >= size[t]
<1> DEFINE k == ClassOf(size[t])
           l == lane[t]
           list == lists[k][l]
           F == Fits(t, list)
           i == CHOOSE j \in F : \A m \in F : j <= m
<1>1. /\ pc[t] = "search" /\ k > NumCaches /\ F # {}
  BY DEF TakeFirstFit
<1>2. size[t] \in Nat /\ l \in Lanes
  BY DEF IInv, TypeOK
<1>3. k \in Classes /\ k = NumCaches + 1
  BY <1>1, <1>2, ClassFound
<1> HIDE DEF k, l
<1>4. list \in Seq(DOMAIN page) /\ Distinct(list) /\ Lane(k, l) = ToSet(list)
  BY <1>2, <1>3 DEF IInv, TypeOK, ListedOnce, Lane
<1> HIDE DEF list
<1>5. F \subseteq DOMAIN list /\ DOMAIN list \subseteq Nat
      /\ \A j \in F : page[list[j]].page_size >= size[t]
  BY <1>4 DEF Fits
<1>6. i \in F
  <2> HIDE DEF F
  <2>1. \E j \in F : \A m \in F : j <= m
    BY <1>1, <1>5, LeastElement
  <2> QED
    BY <2>1
<1>7. i \in DOMAIN list /\ page[list[i]].page_size >= size[t]
  BY <1>5, <1>6
<1> HIDE DEF i, F
<1>8. list[i] \in Lane(k, l) /\ list[i] \in DOMAIN page
  BY <1>4, <1>7 DEF ToSet
<1> QED
  BY <1>2, <1>3, <1>4, <1>7, <1>8 DEF k, l, list, F, i

(* Inside of a page there is no other page.                                 *)
LEMMA NoPageInside ==
  ASSUME IInv, NEW fit \in DOMAIN page, NEW n \in Nat, n >= Header,
         page[fit].page_size >= n, Divisible(page[fit].page_size - n)
  PROVE  /\ fit + n \in Nat /\ fit + n > fit /\ fit + n \notin DOMAIN page
         /\ page[fit].page_size - n \in Nat /\ page[fit].page_size - n >= Header
<1>1. /\ Header \in Nat \ {0} /\ ClassSizes[1] \in Nat /\ ClassSizes[1] >= Header
  <2>1. 1 \in 1..NumCaches
    BY ScalableAssumption DEF NumCaches
  <2> QED
    BY <2>1, ScalableAssumption DEF NumCaches
<1>2. \A r \in DOMAIN page : r \in Nat /\ page[r].page_size \in Nat
  BY DEF IInv, TypeOK
<1>3. /\ page[fit].page_size - n \in Nat /\ page[fit].page_size - n >= Header
  BY <1>1, <1>2 DEF Divisible
<1>4. \A r, s \in DOMAIN page : r < s => r + page[r].page_size <= s
  BY DEF IInv, PagesApart
<1> QED
  BY <1>1, <1>2, <1>3, <1>4

(* A page is split off from the page fit behind its first n bytes.          *)
LEMMA PageDivided ==
  ASSUME IInv, NEW fit \in DOMAIN page, NEW n \in Nat, n >= Header,
         page[fit].page_size >= n, Divisible(page[fit].page_size - n),
         DOMAIN page' = DOMAIN page \cup {fit + n},
         page'[fit + n].page_size = page[fit].page_size - n,
         page'[fit].page_size = n,
         \A r \in DOMAIN page \ {fit} : page'[r].page_size = page[r].page_size,
         heap_off' = heap_off
  PROVE  PagesInside' /\ PagesApart'
<1> DEFINE g == fit + n
           rem == page[fit].page_size - n
<1>1. Header \in Nat \ {0} /\ RegionOff \in Nat /\ HeapSize \in Nat
  BY ScalableAssumption
<1>2. /\ fit \in Nat /\ heap_off \in Nat
      /\ \A r \in DOMAIN page : r \in Nat /\ page[r].page_size \in Nat
  BY DEF IInv, TypeOK
<1>3. rem >= Header /\ rem \in Nat
  BY NoPageInside
<1>4. g \in Nat /\ g > fit /\ g \notin DOMAIN page
  BY NoPageInside
<1>5. \A r, s \in DOMAIN page : r < s => r + page[r].page_size <= s
  BY DEF IInv, PagesApart
<1>6. \A r \in DOMAIN page :
        /\ RegionOff <= r /\ page[r].page_size >= Header
        /\ r + page[r].page_size <= heap_off /\ r + page[r].page_size <= HeapSize
  BY DEF IInv, PagesInside
<1>8. PagesInside'
  <2>1. ASSUME NEW r \in DOMAIN page'
        PROVE  /\ RegionOff <= r /\ page'[r].page_size >= Header
               /\ r + page'[r].page_size <= heap_off /\ r + page'[r].page_size <= HeapSize
    <3>1. CASE r = g
      BY <1>1, <1>2, <1>3, <1>4, <1>6, <3>1
    <3>2. CASE r = fit
      BY <1>1, <1>2, <1>3, <1>4, <1>6, <3>2
    <3>3. CASE r \in DOMAIN page \ {fit}
      BY <1>6, <3>3
    <3> QED
      BY <2>1, <3>1, <3>2, <3>3
  <2>2. RegionOff <= heap_off
    BY DEF IInv, PagesInside
  <2> QED
    BY <2>1, <2>2 DEF PagesInside
<1>9. PagesApart'
  <2>1. ASSUME NEW r \in DOMAIN page', NEW s \in DOMAIN page', r < s
        PROVE  r + page'[r].page_size <= s
    <3>1. CASE r = g
      <4>1. s \in DOMAIN page /\ s \in Nat
        BY <1>2, <1>4, <2>1, <3>1
      <4>2. fit < s
        BY <1>2, <1>4, <2>1, <3>1, <4>1
      <4> QED
        BY <1>2, <1>5, <3>1, <4>1, <4>2
    <3>2. CASE r = fit /\ s = g
      BY <1>4, <3>2
    <3>3. CASE r = fit /\ s # g
      <4>1. fit + page[fit].page_size <= s
        BY <1>5, <2>1, <3>3
      <4> QED
        BY <1>2, <2>1, <3>3, <4>1
    <3>4. CASE r \in DOMAIN page \ {fit} /\ s = g
      <4>1. r \in Nat /\ page'[r].page_size = page[r].page_size
        BY <1>2, <3>4
      <4>2. ~(fit < r)
        BY <1>1, <1>2, <1>3, <1>4, <1>5, <2>1, <3>4, <4>1
      <4>3. r < fit
        BY <1>2, <3>4, <4>1, <4>2
      <4>4. r + page[r].page_size <= fit
        BY <1>5, <3>4, <4>3
      <4> QED
        BY <1>2, <1>4, <3>4, <4>1, <4>4
    <3>5. CASE r \in DOMAIN page \ {fit} /\ s # g
      BY <1>5, <2>1, <3>5
    <3> QED
      BY <2>1, <3>1, <3>2, <3>3, <3>4, <3>5
  <2> QED
    BY <2>1 DEF PagesApart
<1> QED
  BY <1>8, <1>9

(* A large page, divided when the rest is large enough.                     *)
LEMMA TakeFirstFitInv ==
  ASSUME IInv, NEW t \in Threads, TakeFirstFit(t)
  PROVE  IInv'
<1> DEFINE k == ClassOf(size[t])
           l == lane[t]
           list == lists[k][l]
           i == CHOOSE j \in Fits(t, list) : \A m \in Fits(t, list) : j <= m
           fit == list[i]
           rem == page[fit].page_size - size[t]
           g == RemPage(fit, size[t])
           rest == RemoveAt(list, i)
           divided == [r \in DOMAIN page \cup {g} |->
                         IF r = g THEN [allocated |-> FALSE, page_size |-> rem]
                         ELSE IF r = fit THEN [page[fit] EXCEPT !.page_size = size[t]]
                         ELSE page[r]]
           H == [allocated : BOOLEAN, page_size : Nat]
<1>1. /\ pc[t] = "search" /\ pc' = [pc EXCEPT ![t] = "count"]
      /\ p' = [p EXCEPT ![t] = fit]
      /\ UNCHANGED <<heap_off, total_alloc, rr_alloc, rr_free, held, size, lane, q>>
  BY DEF TakeFirstFit, Goto
<1>2. \/ /\ ~Divisible(rem)
         /\ lists' = [lists EXCEPT ![k][l] = rest]
         /\ page' = Linked(page, rest)
      \/ /\ Divisible(rem)
         /\ lists' = [lists EXCEPT ![k][l] = <<g>> \o rest]
         /\ page' = Linked(divided, <<g>> \o rest)
  BY DEF TakeFirstFit
<1>3. /\ k = NumCaches + 1 /\ k \in Classes /\ l \in Lanes
      /\ list \in Seq(DOMAIN page) /\ Distinct(list) /\ Lane(k, l) = ToSet(list)
      /\ i \in DOMAIN list /\ fit \in Lane(k, l) /\ fit \in DOMAIN page
      /\ page[fit].page_size >= size[t]
  BY FirstFitFound
<1> HIDE DEF k, l, i, list
<1>4. /\ rest \in Seq(DOMAIN page) /\ Distinct(rest)
      /\ ToSet(rest) = Lane(k, l) \ {fit}
  BY <1>3, RemovedAt
<1>5. size[t] \in Nat /\ size[t] >= Header
  BY <1>1 DEF IInv, TypeOK, LocalsInStep, Rounded
<1>6. page \in [DOMAIN page -> H] /\ fit \in Nat /\ page[fit].page_size \in Nat
  BY <1>3 DEF IInv, TypeOK
<1> HIDE DEF fit, rest
<1>7. CASE /\ ~Divisible(rem)
           /\ lists' = [lists EXCEPT ![k][l] = rest]
           /\ page' = Linked(page, rest)
  <2>1. /\ page' \in [DOMAIN page -> H]
        /\ \A r \in DOMAIN page : page'[r].page_size = page[r].page_size
    BY <1>6, <1>7, LinkedPages
  <2>2. DOMAIN page' = DOMAIN page
    BY <2>1
  <2>3. lists' \in [Classes -> [Lanes -> Seq(DOMAIN page)]]
    BY <1>3, <1>4, <1>7, LaneChanged DEF IInv
  <2>4. TypeOK'
    BY <1>1, <1>3, <2>1, <2>2, <2>3 DEF IInv, TypeOK
  <2>5. PagesInside' /\ PagesApart'
    BY <1>1, <2>1, <2>2 DEF IInv, PagesInside, PagesApart
  <2> DEFINE N == {}
  <2>6. /\ N \cap DOMAIN page = {} /\ DOMAIN page' = DOMAIN page \cup N
        /\ rest \in Seq(DOMAIN page \cup N)
        /\ ToSet(rest) = (Lane(k, l) \ {fit}) \cup N
        /\ \A r \in DOMAIN page \ {fit} : page'[r].page_size = page[r].page_size
    <3>1. DOMAIN page \cup N = DOMAIN page
      OBVIOUS
    <3> QED
      BY <1>4, <2>1, <2>2, <3>1
  <2>7. N = {} /\ lists' = [lists EXCEPT ![k][l] = rest] /\ page'[fit].page_size >= size[t]
    BY <1>3, <1>7, <2>1
  <2> HIDE DEF N
  <2> QED
    BY <1>1, <1>3, <1>4, <2>4, <2>5, <2>6, <2>7, TakenFromLane
<1>8. CASE /\ Divisible(rem)
           /\ lists' = [lists EXCEPT ![k][l] = <<g>> \o rest]
           /\ page' = Linked(divided, <<g>> \o rest)
  <2> DEFINE D == DOMAIN page \cup {g}
             s == <<g>> \o rest
  <2>1. rem \in Nat /\ g = fit + size[t] /\ g \in Nat /\ g > fit /\ g \notin DOMAIN page
    BY <1>3, <1>5, <1>8, NoPageInside DEF RemPage
  <2>2. divided \in [D -> H]
    <3>1. [allocated |-> FALSE, page_size |-> rem] \in H
      BY <2>1
    <3>2. [page[fit] EXCEPT !.page_size = size[t]] \in H
      BY <1>3, <1>5, <1>6
    <3> QED
      BY <1>6, <3>1, <3>2
  <2>3. /\ page' \in [D -> H]
        /\ \A r \in D : page'[r].page_size = divided[r].page_size
    <3> HIDE DEF divided, D, s
    <3> QED
      BY <1>8, <2>2, LinkedPages DEF s
  <2>4. divided[g].page_size = rem
    OBVIOUS
  <2>5. divided[fit].page_size = size[t]
    <3>1. page[fit] \in H
      BY <1>3, <1>6
    <3> QED
      BY <1>3, <2>1, <3>1
  <2>6. \A r \in DOMAIN page \ {fit} : divided[r].page_size = page[r].page_size
    BY <2>1
  <2> HIDE DEF divided
  <2>7. /\ DOMAIN page' = D /\ page'[g].page_size = rem /\ page'[fit].page_size = size[t]
        /\ \A r \in DOMAIN page \ {fit} : page'[r].page_size = page[r].page_size
    BY <1>3, <2>3, <2>4, <2>5, <2>6
  <2>8. PagesInside' /\ PagesApart'
    <3>1. rem = page[fit].page_size - size[t] /\ heap_off' = heap_off
      BY <1>1
    <3> HIDE DEF g
    <3> QED
      BY <1>3, <1>5, <1>8, <2>1, <2>7, <3>1, PageDivided
  <2>9. s \in Seq(D) /\ ToSet(s) = (Lane(k, l) \ {fit}) \cup {g} /\ Distinct(s)
    <3>1. rest \in Seq(D)
      BY <1>4
    <3>2. g \notin ToSet(rest)
      BY <1>3, <1>4, <2>1, LaneInDomain
    <3>3. g \in D
      OBVIOUS
    <3> HIDE DEF g, D
    <3>4. <<g>> \o rest \in Seq(D) /\ ToSet(<<g>> \o rest) = ToSet(rest) \cup {g}
          /\ Distinct(<<g>> \o rest)
      BY <1>4, <3>1, <3>2, <3>3, InFront
    <3> QED
      BY <1>4, <3>4
  <2> HIDE DEF g, s
  <2>10. lists' = [lists EXCEPT ![k][l] = s] /\ DOMAIN page \subseteq D
    BY <1>8 DEF s
  <2>11. lists' \in [Classes -> [Lanes -> Seq(D)]]
    BY <1>3, <2>9, <2>10, LaneChanged DEF IInv
  <2>12. TypeOK'
    BY <1>1, <1>3, <2>1, <2>3, <2>7, <2>11 DEF IInv, TypeOK
  <2> DEFINE N == {g}
  <2>13. /\ N \cap DOMAIN page = {} /\ DOMAIN page' = DOMAIN page \cup N
         /\ s \in Seq(DOMAIN page \cup N) /\ ToSet(s) = (Lane(k, l) \ {fit}) \cup N
    BY <2>1, <2>7, <2>9
  <2>14. page'[fit].page_size >= size[t]
    BY <1>5, <2>7
  <2>15. /\ Distinct(s) /\ lists' = [lists EXCEPT ![k][l] = s]
         /\ \A r \in DOMAIN page \ {fit} : page'[r].page_size = page[r].page_size
    BY <2>7, <2>9, <2>10
  <2> HIDE DEF D, N
  <2> QED
    BY <1>1, <1>3, <2>8, <2>12, <2>13, <2>14, <2>15, TakenFromLane
<1> QED
  BY <1>2, <1>7, <1>8

(* A new page from the heap.                                                *)
LEMMA FromHeapInv ==
  ASSUME IInv, NEW t \in Threads, FromHeap(t)
  PROVE  IInv'
<1> DEFINE x == heap_off
           n == size[t] + Header
           D == DOMAIN page \cup {x}
<1>1. /\ pc[t] = "heap" /\ pc' = [pc EXCEPT ![t] = "count"]
      /\ x + n <= HeapSize /\ heap_off' = x + n
      /\ p' = [p EXCEPT ![t] = x]
      /\ page' = [r \in D |-> IF r = x THEN [allocated |-> TRUE, page_size |-> n]
                              ELSE page[r]]
      /\ UNCHANGED <<total_alloc, lists, rr_alloc, rr_free, held, size, lane, q>>
  <2>1. size[t] \in Nat /\ heap_off \in Nat /\ Header \in Nat
    BY ScalableAssumption DEF IInv, TypeOK
  <2>2. heap_off + size[t] + Header = x + n
    BY <2>1
  <2> QED
    BY <2>2 DEF FromHeap, Goto
<1>2. /\ x \in Nat /\ n \in Nat /\ n >= Header /\ n >= size[t] /\ Header \in Nat \ {0}
      /\ RegionOff \in Nat /\ HeapSize \in Nat /\ size[t] \in Nat
  BY ScalableAssumption DEF IInv, TypeOK
<1>3. \A r \in DOMAIN page :
        /\ r \in Nat /\ page[r].page_size \in Nat
        /\ RegionOff <= r /\ page[r].page_size >= Header
        /\ r + page[r].page_size <= x /\ r + page[r].page_size <= HeapSize
  BY DEF IInv, TypeOK, PagesInside
<1>4. x \notin DOMAIN page /\ RegionOff <= x
  BY <1>2, <1>3 DEF IInv, PagesInside
<1>5. /\ DOMAIN page' = D /\ page'[x].page_size = n
      /\ \A r \in DOMAIN page : page'[r] = page[r]
  BY <1>1, <1>4
<1> HIDE DEF n
<1>6. TypeOK'
  <2>1. page' \in [D -> [allocated : BOOLEAN, page_size : Nat]]
    <3>1. [allocated |-> TRUE, page_size |-> n] \in [allocated : BOOLEAN, page_size : Nat]
      BY <1>2
    <3> QED
      BY <1>1, <3>1 DEF IInv, TypeOK
  <2>2. lists' \in [Classes -> [Lanes -> Seq(D)]]
    <3>1. \A k \in Classes, l \in Lanes : lists[k][l] \in Seq(D)
      BY DEF IInv, TypeOK
    <3> QED
      BY <1>1, <3>1 DEF IInv, TypeOK
  <2>3. heap_off' \in Nat
    BY <1>1, <1>2
  <2> QED
    BY <1>1, <1>2, <1>5, <2>1, <2>2, <2>3 DEF IInv, TypeOK
<1>7. /\ pc'[t] = "count" /\ p'[t] = x /\ p[t] = NoPage
      /\ \A u \in Threads \ {t} : pc'[u] = pc[u] /\ p'[u] = p[u]
  BY <1>1 DEF IInv, TypeOK, LocalsInStep
<1>8. /\ x # NoPage /\ x \notin held
      /\ \A u \in Threads : p[u] # x /\ q[u] # x
      /\ \A k \in Classes, l \in Lanes : x \notin Lane(k, l)
  BY <1>2, <1>4, LaneInDomain, ScalableAssumption DEF IInv, TypeOK
<1>9. \A k \in Classes, l \in Lanes : Lane(k, l)' = Lane(k, l)
  BY <1>1 DEF Lane
<1>10. \A m : Rounded(m)' = Rounded(m)
  BY RoundedStays
<1>11. LocalsInStep'
  BY <1>1, <1>7, <1>8, <1>10 DEF IInv, LocalsInStep
<1>12. PagesInside'
  <2>1. RegionOff <= heap_off'
    BY <1>1, <1>2, <1>4
  <2>2. ASSUME NEW r \in D
        PROVE  /\ RegionOff <= r /\ page'[r].page_size >= Header
               /\ r + page'[r].page_size <= heap_off' /\ r + page'[r].page_size <= HeapSize
    <3>1. CASE r = x
      BY <1>1, <1>2, <1>4, <1>5, <3>1
    <3>2. CASE r \in DOMAIN page
      BY <1>1, <1>2, <1>3, <1>5, <3>2
    <3> QED
      BY <3>1, <3>2
  <2> QED
    BY <1>5, <2>1, <2>2 DEF PagesInside
<1>13. PagesApart'
  <2>1. ASSUME NEW r \in D, NEW s \in D, r < s
        PROVE  r + page'[r].page_size <= s
    <3>1. r # x
      BY <1>2, <1>3, <2>1
    <3>2. CASE s = x
      BY <1>3, <1>5, <3>1, <3>2
    <3>3. CASE s # x
      BY <1>5, <2>1, <3>1, <3>3 DEF IInv, PagesApart
    <3> QED
      BY <3>2, <3>3
  <2> QED
    BY <1>5, <2>1 DEF PagesApart
<1>14. SizesFit'
  <2>1. \A m \in 1..NumCaches : m \in Classes
    BY ScalableAssumption DEF NumCaches, Classes
  <2>2. \A r \in held' : Rounded(page'[r].page_size)
    BY <1>1, <1>5 DEF IInv, SizesFit, TypeOK
  <2>3. ASSUME NEW u \in Threads
        PROVE  /\ q'[u] # NoPage => Rounded(page'[q'[u]].page_size)
               /\ p'[u] # NoPage /\ pc'[u] # "count" => Rounded(page'[p'[u]].page_size)
               /\ pc'[u] = "count" => page'[p'[u]].page_size >= size'[u]
    <3>1. /\ q[u] # NoPage => q[u] \in DOMAIN page
          /\ p[u] # NoPage => p[u] \in DOMAIN page
          /\ pc[u] = "count" => p[u] # NoPage
      BY DEF IInv, TypeOK, LocalsInStep
    <3>2. q'[u] # NoPage => Rounded(page'[q'[u]].page_size)
      BY <1>1, <1>5, <3>1 DEF IInv, SizesFit
    <3>3. CASE u = t
      BY <1>1, <1>2, <1>5, <1>7, <3>2, <3>3
    <3>4. CASE u # t
      BY <1>1, <1>5, <1>7, <3>1, <3>2, <3>4 DEF IInv, SizesFit
    <3> QED
      BY <3>3, <3>4
  <2>4. ASSUME NEW k \in 1..NumCaches, NEW l \in Lanes, NEW r \in Lane(k, l)'
        PROVE  page'[r].page_size = ClassSizes[k]
    <3>1. r \in Lane(k, l) /\ r \in DOMAIN page
      BY <1>9, <2>1, <2>4, LaneInDomain
    <3> QED
      BY <1>5, <3>1 DEF IInv, SizesFit
  <2> QED
    BY <1>10, <2>2, <2>3, <2>4 DEF SizesFit
<1>15. OneUser'
  BY <1>1, <1>7, <1>8 DEF IInv, OneUser
<1>16. LanesApart'
  BY <1>1, <1>7, <1>8, <1>9 DEF IInv, LanesApart
<1>17. ListedOnce'
  BY <1>1 DEF IInv, ListedOnce
<1>18. Somewhere'
  <2>1. ASSUME NEW r \in DOMAIN page
        PROVE  \/ r \in held'
               \/ \E u \in Threads : p'[u] = r \/ q'[u] = r
               \/ \E k \in Classes, l \in Lanes : r \in Lane(k, l)'
    <3>1. ASSUME NEW u \in Threads, p[u] = r PROVE p'[u] = r
      BY <1>7, <3>1, ScalableAssumption DEF IInv, TypeOK
    <3> QED
      BY <1>1, <1>9, <3>1 DEF IInv, Somewhere
  <2> QED
    BY <1>5, <1>7, <2>1 DEF Somewhere
<1> QED
  BY <1>6, <1>11, <1>12, <1>13, <1>14, <1>15, <1>16, <1>17, <1>18 DEF IInv

(* page_size_ becomes the size that was asked for, which is not more.       *)
LEMMA CountAllocInv ==
  ASSUME IInv, NEW t \in Threads, CountAlloc(t)
  PROVE  IInv'
<1> DEFINE x == p[t]
<1>1. /\ pc[t] = "count" /\ pc' = [pc EXCEPT ![t] = "mark"]
      /\ page' = [page EXCEPT ![x].page_size = size[t]]
      /\ total_alloc' = total_alloc + size[t]
      /\ UNCHANGED <<heap_off, lists, rr_alloc, rr_free, held, size, lane, p, q>>
  BY DEF CountAlloc, Goto
<1>2. /\ x \in DOMAIN page /\ x # NoPage /\ page[x].page_size >= size[t]
      /\ Rounded(size[t]) /\ size[t] \in Nat
  BY <1>1 DEF IInv, TypeOK, LocalsInStep, SizesFit
<1>3. /\ x \notin held
      /\ \A u \in Threads : q[u] # x
      /\ \A u \in Threads \ {t} : p[u] # x
      /\ \A k \in Classes, l \in Lanes : x \notin Lane(k, l)
  <2>1. x \notin held /\ \A u \in Threads : q[u] # x
    BY <1>2 DEF IInv, OneUser
  <2>2. \A u \in Threads \ {t} : p[u] # x
    BY <1>2 DEF IInv, OneUser
  <2>3. \A k \in Classes, l \in Lanes : x \notin Lane(k, l)
    BY DEF IInv, LanesApart
  <2> QED
    BY <2>1, <2>2, <2>3
<1>4. /\ pc'[t] = "mark" /\ \A u \in Threads \ {t} : pc'[u] = pc[u]
  BY <1>1 DEF IInv, TypeOK
<1>5. /\ DOMAIN page' = DOMAIN page
      /\ page' \in [DOMAIN page -> [allocated : BOOLEAN, page_size : Nat]]
      /\ page'[x].page_size = size[t]
      /\ \A r \in DOMAIN page \ {x} : page'[r].page_size = page[r].page_size
  <2>1. page \in [DOMAIN page -> [allocated : BOOLEAN, page_size : Nat]]
    BY DEF IInv, TypeOK
  <2>2. page[x] \in [allocated : BOOLEAN, page_size : Nat]
    BY <1>2, <2>1
  <2>3. /\ [page[x] EXCEPT !.page_size = size[t]] \in [allocated : BOOLEAN, page_size : Nat]
        /\ [page[x] EXCEPT !.page_size = size[t]].page_size = size[t]
    BY <1>2, <2>2
  <2>4. page' = [page EXCEPT ![x] = [page[x] EXCEPT !.page_size = size[t]]]
    BY <1>1
  <2> QED
    BY <1>2, <2>1, <2>3, <2>4
<1> HIDE DEF x
<1>6. TypeOK'
  <2>1. total_alloc' \in Int
    BY <1>1, <1>2 DEF IInv, TypeOK
  <2> QED
    BY <1>1, <1>5, <2>1 DEF IInv, TypeOK
<1>7. \A m : Rounded(m)' = Rounded(m)
  BY RoundedStays
<1>8. LocalsInStep'
  BY <1>1, <1>2, <1>4, <1>7 DEF IInv, LocalsInStep, x
<1>9. \A r \in DOMAIN page :
        /\ r \in Nat /\ page[r].page_size \in Nat /\ page'[r].page_size \in Nat
        /\ page'[r].page_size <= page[r].page_size /\ page'[r].page_size >= Header
  <2>1. Header \in Nat /\ size[t] >= Header
    BY <1>2, ScalableAssumption DEF Rounded
  <2>2. \A r \in DOMAIN page :
          r \in Nat /\ page[r].page_size \in Nat /\ page[r].page_size >= Header
    BY DEF IInv, TypeOK, PagesInside
  <2> QED
    BY <1>2, <1>5, <2>1, <2>2
<1>10. PagesInside'
  <2>1. /\ heap_off \in Nat /\ RegionOff \in Nat /\ HeapSize \in Nat
        /\ RegionOff <= heap_off
    BY ScalableAssumption DEF IInv, TypeOK, PagesInside
  <2>2. ASSUME NEW r \in DOMAIN page
        PROVE  /\ RegionOff <= r
               /\ r + page'[r].page_size <= heap_off /\ r + page'[r].page_size <= HeapSize
    <3>1. /\ RegionOff <= r
          /\ r + page[r].page_size <= heap_off /\ r + page[r].page_size <= HeapSize
      BY DEF IInv, PagesInside
    <3> QED
      BY <1>9, <2>1, <3>1
  <2> QED
    BY <1>1, <1>5, <1>9, <2>1, <2>2 DEF PagesInside
<1>11. PagesApart'
  <2>1. ASSUME NEW r \in DOMAIN page, NEW s \in DOMAIN page, r < s
        PROVE  r + page'[r].page_size <= s
    <3>1. r + page[r].page_size <= s
      BY <2>1 DEF IInv, PagesApart
    <3> QED
      BY <1>9, <3>1
  <2> QED
    BY <1>5, <2>1 DEF PagesApart
<1>12. \A k \in Classes, l \in Lanes : Lane(k, l)' = Lane(k, l)
  BY <1>1 DEF Lane
<1>13. SizesFit'
  <2>1. \A m \in 1..NumCaches : m \in Classes
    BY ScalableAssumption DEF NumCaches, Classes
  <2>2. \A r \in held' : Rounded(page'[r].page_size)
    BY <1>1, <1>3, <1>5 DEF IInv, SizesFit, TypeOK
  <2>3. ASSUME NEW u \in Threads
        PROVE  /\ q'[u] # NoPage => Rounded(page'[q'[u]].page_size)
               /\ p'[u] # NoPage /\ pc'[u] # "count" => Rounded(page'[p'[u]].page_size)
               /\ pc'[u] = "count" => page'[p'[u]].page_size >= size'[u]
    <3>1. /\ q[u] # NoPage => q[u] \in DOMAIN page
          /\ p[u] # NoPage => p[u] \in DOMAIN page
          /\ pc[u] = "count" => p[u] # NoPage
      BY DEF IInv, TypeOK, LocalsInStep
    <3>2. q'[u] # NoPage => Rounded(page'[q'[u]].page_size)
      BY <1>1, <1>3, <1>5, <3>1 DEF IInv, SizesFit
    <3>3. CASE u = t
      BY <1>1, <1>2, <1>4, <1>5, <3>2, <3>3 DEF x
    <3>4. CASE u # t
      BY <1>1, <1>3, <1>4, <1>5, <3>1, <3>2, <3>4 DEF IInv, SizesFit
    <3> QED
      BY <3>3, <3>4
  <2>4. ASSUME NEW k \in 1..NumCaches, NEW l \in Lanes, NEW r \in Lane(k, l)'
        PROVE  page'[r].page_size = ClassSizes[k]
    <3>1. r \in Lane(k, l) /\ r \in DOMAIN page /\ r # x
      BY <1>3, <1>12, <2>1, <2>4, LaneInDomain
    <3> QED
      BY <1>5, <3>1 DEF IInv, SizesFit
  <2> QED
    BY <1>7, <2>2, <2>3, <2>4 DEF SizesFit
<1>14. OneUser' /\ ListedOnce'
  BY <1>1 DEF IInv, OneUser, ListedOnce
<1>15. LanesApart' /\ Somewhere'
  BY <1>1, <1>5, <1>12 DEF IInv, LanesApart, Somewhere
<1> QED
  BY <1>6, <1>8, <1>10, <1>11, <1>13, <1>14, <1>15 DEF IInv

(* The freed page becomes the head of its lane, a reallocated one goes to   *)
(* the caller.                                                              *)
LEMMA EnqueueInv ==
  ASSUME IInv, NEW t \in Threads, Enqueue(t)
  PROVE  IInv'
<1>0. /\ q[t] \in DOMAIN page /\ q[t] # NoPage
      /\ Rounded(page[q[t]].page_size) /\ page[q[t]].page_size \in Nat
      /\ p[t] # NoPage => p[t] \in DOMAIN page /\ Rounded(page[p[t]].page_size)
  BY DEF Enqueue, IInv, TypeOK, LocalsInStep, SizesFit
<1>a. PICK y \in DOMAIN page : y = q[t]
  BY <1>0
<1>b. PICK k \in Classes : k = ClassOf(page[y].page_size)
  BY <1>0, <1>a, ClassFound
<1>c. PICK l \in Lanes : l = lane[t]
  BY DEF IInv, TypeOK
<1> DEFINE s == <<y>> \o lists[k][l]
<1>1. /\ pc[t] = "enqueue" /\ pc' = [pc EXCEPT ![t] = "idle"]
      /\ size' = [size EXCEPT ![t] = 0] /\ lane' = [lane EXCEPT ![t] = 0]
      /\ p' = [p EXCEPT ![t] = NoPage] /\ q' = [q EXCEPT ![t] = NoPage]
      /\ lists' = [lists EXCEPT ![k][l] = s] /\ page' = Linked(page, s)
      /\ held' = held \cup ({p[t]} \ {NoPage})
      /\ UNCHANGED <<heap_off, total_alloc, rr_alloc, rr_free>>
  BY <1>a, <1>b, <1>c DEF Enqueue, Return, Goto
<1>2. /\ y \in DOMAIN page /\ y # NoPage /\ l \in Lanes /\ q[t] = y
      /\ Rounded(page[y].page_size) /\ page[y].page_size \in Nat
      /\ p[t] # NoPage => p[t] \in DOMAIN page /\ Rounded(page[p[t]].page_size)
  BY <1>0, <1>a
<1>3. k \in Classes /\ (k \in 1..NumCaches => page[y].page_size = ClassSizes[k])
  BY <1>2, <1>b, ClassFound DEF Rounded
<1>4. /\ y \notin held
      /\ \A u \in Threads : p[u] # y
      /\ \A u \in Threads \ {t} : q[u] # y
      /\ \A m \in Classes, n \in Lanes : y \notin Lane(m, n)
  <2>1. y \notin held /\ \A u \in Threads : p[u] # y
    BY <1>2 DEF IInv, OneUser
  <2>2. \A u \in Threads \ {t} : q[u] # y
    <3>1. \A u \in Threads \ {t} : q[t] # q[u]
      BY <1>0 DEF IInv, OneUser
    <3> QED
      BY <1>a, <3>1
  <2>3. \A m \in Classes, n \in Lanes : y \notin Lane(m, n)
    BY <1>a DEF IInv, LanesApart
  <2> QED
    BY <2>1, <2>2, <2>3
<1>5. /\ page' \in [DOMAIN page -> [allocated : BOOLEAN, page_size : Nat]]
      /\ DOMAIN page' = DOMAIN page
      /\ \A r \in DOMAIN page : page'[r].page_size = page[r].page_size
  <2>1. page \in [DOMAIN page -> [allocated : BOOLEAN, page_size : Nat]]
    BY DEF IInv, TypeOK
  <2> HIDE DEF s
  <2>2. /\ Linked(page, s) \in [DOMAIN page -> [allocated : BOOLEAN, page_size : Nat]]
        /\ \A r \in DOMAIN page : Linked(page, s)[r].page_size = page[r].page_size
    BY <2>1, LinkedPages
  <2>3. page' = Linked(page, s)
    BY <1>1
  <2> QED
    BY <2>2, <2>3
<1>6. s \in Seq(DOMAIN page) /\ ToSet(s) = Lane(k, l) \cup {y} /\ Distinct(s)
  <2> DEFINE list == lists[k][l]
  <2>1. list \in Seq(DOMAIN page) /\ Distinct(list) /\ y \notin ToSet(list)
    BY <1>2, <1>3, <1>4 DEF IInv, TypeOK, ListedOnce, Lane
  <2> HIDE DEF list
  <2>2. /\ <<y>> \o list \in Seq(DOMAIN page) /\ ToSet(<<y>> \o list) = ToSet(list) \cup {y}
        /\ Distinct(<<y>> \o list)
    BY <1>2, <2>1, InFront
  <2> QED
    BY <2>2 DEF list, Lane
<1> HIDE DEF s
<1>7. /\ lists' \in [Classes -> [Lanes -> Seq(DOMAIN page)]]
      /\ lists'[k][l] = s /\ Lane(k, l)' = ToSet(s)
      /\ \A m \in Classes, n \in Lanes : m # k \/ n # l =>
           lists'[m][n] = lists[m][n] /\ Lane(m, n)' = Lane(m, n)
  <2> DEFINE D == DOMAIN page
  <2>1. DOMAIN page \subseteq D /\ TypeOK /\ s \in Seq(D)
    BY <1>6 DEF IInv
  <2>2. D = DOMAIN page
    OBVIOUS
  <2>3. lists' = [lists EXCEPT ![k][l] = s]
    BY <1>1
  <2> HIDE DEF D
  <2>4. /\ lists' \in [Classes -> [Lanes -> Seq(D)]]
        /\ lists'[k][l] = s /\ Lane(k, l)' = ToSet(s)
        /\ \A m \in Classes, n \in Lanes : m # k \/ n # l =>
             lists'[m][n] = lists[m][n] /\ Lane(m, n)' = Lane(m, n)
    BY <2>1, <2>3, LaneChanged
  <2> QED
    BY <2>2, <2>4
<1>18. \A m \in Classes, n \in Lanes : \A r :
         r \in Lane(m, n)' <=> r \in Lane(m, n) \/ (m = k /\ n = l /\ r = y)
  <2> SUFFICES ASSUME NEW m \in Classes, NEW n \in Lanes, NEW r
               PROVE  r \in Lane(m, n)' <=> r \in Lane(m, n) \/ (m = k /\ n = l /\ r = y)
    OBVIOUS
  <2>1. CASE m = k /\ n = l
    BY <1>6, <1>7, <2>1
  <2>2. CASE ~(m = k /\ n = l)
    BY <1>7, <2>2
  <2> QED
    BY <2>1, <2>2
<1>8. /\ pc'[t] = "idle" /\ p'[t] = NoPage /\ q'[t] = NoPage
      /\ \A u \in Threads \ {t} : /\ pc'[u] = pc[u] /\ size'[u] = size[u]
                                  /\ p'[u] = p[u] /\ q'[u] = q[u]
  BY <1>1 DEF IInv, TypeOK
<1>9. TypeOK'
  <2>1. 0 \in Lanes /\ 0 \in Nat
    BY ScalableAssumption DEF Lanes
  <2> QED
    BY <1>1, <1>2, <1>5, <1>7, <2>1 DEF IInv, TypeOK
<1>10. \A m : Rounded(m)' = Rounded(m)
  BY RoundedStays
<1>11. LocalsInStep'
  BY <1>8, <1>10 DEF IInv, LocalsInStep
<1>12. PagesInside' /\ PagesApart'
  BY <1>1, <1>5 DEF IInv, PagesInside, PagesApart
<1>13. SizesFit'
  <2>1. \A m \in 1..NumCaches : m \in Classes
    BY ScalableAssumption DEF NumCaches, Classes
  <2>2. \A r \in held' : Rounded(page'[r].page_size)
    <3>1. \A r \in held : Rounded(page[r].page_size) /\ r \in DOMAIN page
      BY DEF IInv, SizesFit, TypeOK
    <3> QED
      BY <1>1, <1>2, <1>5, <3>1
  <2>3. ASSUME NEW u \in Threads
        PROVE  /\ q'[u] # NoPage => Rounded(page'[q'[u]].page_size)
               /\ p'[u] # NoPage /\ pc'[u] # "count" => Rounded(page'[p'[u]].page_size)
               /\ pc'[u] = "count" => page'[p'[u]].page_size >= size'[u]
    <3>1. CASE u = t
      BY <1>8, <3>1
    <3>2. CASE u # t
      <4>1. /\ q[u] # NoPage => q[u] \in DOMAIN page
            /\ p[u] # NoPage => p[u] \in DOMAIN page
            /\ pc[u] = "count" => p[u] # NoPage
        BY DEF IInv, TypeOK, LocalsInStep
      <4> QED
        BY <1>5, <1>8, <3>2, <4>1 DEF IInv, SizesFit
    <3> QED
      BY <3>1, <3>2
  <2>4. ASSUME NEW m \in 1..NumCaches, NEW n \in Lanes, NEW r \in Lane(m, n)'
        PROVE  page'[r].page_size = ClassSizes[m]
    <3>1. CASE r = y
      <4>1. m = k
        BY <1>4, <1>18, <2>1, <2>4, <3>1
      <4> QED
        BY <1>2, <1>3, <1>5, <3>1, <4>1
    <3>2. CASE r # y
      <4>1. r \in Lane(m, n) /\ r \in DOMAIN page
        BY <1>18, <2>1, <2>4, <3>2, LaneInDomain
      <4> QED
        BY <1>5, <4>1 DEF IInv, SizesFit
    <3> QED
      BY <3>1, <3>2
  <2> QED
    BY <1>10, <2>2, <2>3, <2>4 DEF SizesFit
<1>14. OneUser'
  BY <1>1, <1>8 DEF IInv, OneUser
<1>15. LanesApart'
  <2>1. ASSUME NEW m \in Classes, NEW n \in Lanes
        PROVE  /\ Lane(m, n)' \cap held' = {}
               /\ \A u \in Threads : p'[u] \notin Lane(m, n)' /\ q'[u] \notin Lane(m, n)'
    <3>1. /\ Lane(m, n) \cap held = {} /\ NoPage \notin Lane(m, n)
          /\ \A u \in Threads : p[u] \notin Lane(m, n) /\ q[u] \notin Lane(m, n)
      BY LaneInDomain, ScalableAssumption DEF IInv, LanesApart, TypeOK
    <3>2. Lane(m, n)' \subseteq Lane(m, n) \cup {y}
      BY <1>18
    <3> QED
      BY <1>1, <1>2, <1>4, <1>8, <3>1, <3>2
  <2>2. ASSUME NEW m \in Classes, NEW n \in Lanes, NEW i \in Classes, NEW j \in Lanes,
               NEW r \in Lane(m, n)' \cap Lane(i, j)'
        PROVE  m = i /\ n = j
    <3>1. CASE r = y
      BY <1>4, <1>18, <2>2, <3>1
    <3>2. CASE r # y
      <4>1. r \in Lane(m, n) \cap Lane(i, j)
        BY <1>18, <2>2, <3>2
      <4> QED
        BY <4>1 DEF IInv, LanesApart
    <3> QED
      BY <3>1, <3>2
  <2> QED
    BY <2>1, <2>2 DEF LanesApart
<1>16. ListedOnce'
  BY <1>6, <1>7 DEF IInv, ListedOnce
<1>17. Somewhere'
  <2>1. ASSUME NEW r \in DOMAIN page
        PROVE  \/ r \in held'
               \/ \E u \in Threads : p'[u] = r \/ q'[u] = r
               \/ \E m \in Classes, n \in Lanes : r \in Lane(m, n)'
    <3>1. CASE r = y \/ r = p[t]
      BY <1>1, <1>2, <1>3, <1>18, <2>1, <3>1, ScalableAssumption DEF IInv, TypeOK
    <3>2. CASE r # y /\ r # p[t]
      <4>1. ASSUME NEW m \in Classes, NEW n \in Lanes, r \in Lane(m, n)
            PROVE  r \in Lane(m, n)'
        BY <1>18, <4>1
      <4>2. ASSUME NEW u \in Threads, p[u] = r \/ q[u] = r PROVE p'[u] = r \/ q'[u] = r
        BY <1>2, <1>8, <3>2, <4>2
      <4> QED
        BY <1>1, <4>1, <4>2 DEF IInv, Somewhere
    <3> QED
      BY <3>1, <3>2
  <2> QED
    BY <1>5, <2>1 DEF Somewhere
<1> QED
  BY <1>9, <1>11, <1>12, <1>13, <1>14, <1>15, <1>16, <1>17 DEF IInv

-----------------------------------------------------------------------------
(* The pages stay apart and each in its place.                              *)
LEMMA NextInv == IInv /\ [Next]_vars => IInv'
<1> SUFFICES ASSUME IInv, [Next]_vars PROVE IInv'
  OBVIOUS
<1>1. CASE UNCHANGED vars
  <2>1. \A k, l : Lane(k, l)' = Lane(k, l)
    BY <1>1 DEF vars, Lane
  <2>2. \A n : Rounded(n)' = Rounded(n)
    BY RoundedStays
  <2>3. TypeOK' /\ LocalsInStep'
    BY <1>1, <2>2 DEF vars, IInv, TypeOK, LocalsInStep
  <2> QED
    BY <1>1, <2>3, Quiet DEF vars
<1>2. ASSUME NEW t \in Threads, InAllocate(t) PROVE IInv'
  BY <1>2, AllocateBeginInv, ReallocateBeginInv, PickAllocLaneInv, TakeCachedInv,
     TakeFirstFitInv, TakeNoneInv, FromHeapInv, HeapRefusedInv, CountAllocInv,
     MarkAllocatedInv, CopyInv DEF InAllocate
<1>3. ASSUME NEW t \in Threads, InFree(t) PROVE IInv'
  BY <1>1, <1>3, FreeBeginInv, UnsetAllocatedInv, UncountAllocInv, PickFreeLaneInv,
     EnqueueInv DEF InFree, ReportDoubleFree
<1> QED
  BY <1>1, <1>2, <1>3 DEF Next

(* The inductive invariant holds in every reachable state.                  *)
THEOREM ScalableInvariant == Spec => []IInv
BY InitInv, NextInv, PTL DEF Spec

(* Every variable keeps its type; the counters keep their width and lead to *)
(* lanes.                                                                   *)
THEOREM ScalableTypeCorrect == Spec => []TypeOK
<1>1. IInv => TypeOK
  BY DEF IInv
<1> QED
  BY <1>1, ScalableInvariant, PTL

(* Pages never overlap (CheckLocalCaches, DividePage, AllocateOffset).      *)
THEOREM ScalablePagesSeparate == Spec => []PagesSeparate
<1>1. IInv => PagesSeparate
  BY DEF IInv, PagesInside, PagesApart, PagesSeparate
<1> QED
  BY <1>1, ScalableInvariant, PTL

-----------------------------------------------------------------------------
(* Where a page is.                                                         *)
LEMMA PositionsOf ==
  ASSUME NEW r, NEW x
  PROVE  x \in Positions(r) <=>
           \E k \in Classes, l \in Lanes :
             \E i \in DOMAIN lists[k][l] : lists[k][l][i] = r /\ x = <<k, l, i>>
<1>1. ASSUME x \in Positions(r)
      PROVE  \E k \in Classes, l \in Lanes :
               \E i \in DOMAIN lists[k][l] : lists[k][l][i] = r /\ x = <<k, l, i>>
  <2>1. PICK k \in Classes, l \in Lanes :
          x \in {<<k, l, i>> : i \in {j \in DOMAIN lists[k][l] : lists[k][l][j] = r}}
    BY <1>1 DEF Positions
  <2> QED
    BY <2>1
<1>2. ASSUME NEW k \in Classes, NEW l \in Lanes, NEW i \in DOMAIN lists[k][l],
             lists[k][l][i] = r, x = <<k, l, i>>
      PROVE  x \in Positions(r)
  <2> DEFINE S(m, n) ==
        {<<m, n, j>> : j \in {h \in DOMAIN lists[m][n] : lists[m][n][h] = r}}
  <2>1. x \in S(k, l)
    BY <1>2
  <2>2. Positions(r) = UNION {S(m, n) : m \in Classes, n \in Lanes}
    BY DEF Positions
  <2> HIDE DEF S
  <2> QED
    BY <2>1, <2>2
<1> QED
  BY <1>1, <1>2

(* A page in no lane has no position, one in a lane has one.                *)
LEMMA PositionsEmpty ==
  ASSUME NEW r, \A k \in Classes, l \in Lanes : r \notin Lane(k, l)
  PROVE  Positions(r) = {}
BY PositionsOf DEF Lane, ToSet

LEMMA PositionsOne ==
  ASSUME IInv, NEW k \in Classes, NEW l \in Lanes, NEW r \in Lane(k, l)
  PROVE  \E x : Positions(r) = {x}
<1>1. PICK i \in DOMAIN lists[k][l] : lists[k][l][i] = r
  BY DEF Lane, ToSet
<1>2. ASSUME NEW m \in Classes, NEW n \in Lanes, NEW j \in DOMAIN lists[m][n],
             lists[m][n][j] = r
      PROVE  m = k /\ n = l /\ j = i
  <2>1. r \in Lane(m, n)
    BY <1>2 DEF Lane, ToSet
  <2>2. m = k /\ n = l
    BY <2>1 DEF IInv, LanesApart
  <2> QED
    BY <1>1, <1>2, <2>2 DEF IInv, ListedOnce, Distinct
<1>3. ASSUME NEW x PROVE x \in Positions(r) <=> x = <<k, l, i>>
  BY <1>1, <1>2, PositionsOf
<1>4. Positions(r) = {<<k, l, i>>}
  BY <1>3
<1> QED
  BY <1>4

(* No page is lost, in two places at once, or in the list of another class. *)
THEOREM ScalablePageInOnePlace == Spec => []PageInOnePlace
<1>1. ASSUME IInv, NEW r \in DOMAIN page PROVE Places(r) = 1
  <2> DEFINE P == {t \in Threads : p[t] = r}
             Q == {t \in Threads : q[t] = r}
             H == IF r \in held THEN 1 ELSE 0
  <2>0. Cardinality({}) = 0 /\ \A x : Cardinality({x}) = 1
    BY FS_EmptySet, FS_Singleton
  <2>1. r # NoPage /\ Places(r) = H + Cardinality(P) + Cardinality(Q) + Cardinality(Positions(r))
    BY <1>1, ScalableAssumption DEF IInv, TypeOK, Places
  <2>2. CASE r \in held
    <3>1. P = {} /\ Q = {}
      BY <1>1, <2>1, <2>2 DEF IInv, OneUser
    <3>2. Positions(r) = {}
      BY <1>1, <2>2, PositionsEmpty DEF IInv, LanesApart
    <3>3. H = 1
      BY <2>2
    <3> HIDE DEF P, Q, H
    <3>4. /\ Cardinality(P) = 0 /\ Cardinality(Q) = 0
          /\ Cardinality(Positions(r)) = 0
      BY <2>0, <3>1, <3>2
    <3> QED
      BY <2>1, <3>3, <3>4
  <2>3. ASSUME NEW t \in Threads, p[t] = r PROVE Places(r) = 1
    <3>1. P = {t} /\ Q = {} /\ r \notin held
      BY <1>1, <2>1, <2>3 DEF IInv, OneUser
    <3>2. Positions(r) = {}
      BY <1>1, <2>3, PositionsEmpty DEF IInv, LanesApart
    <3>3. H = 0
      BY <3>1
    <3> HIDE DEF P, Q, H
    <3>4. /\ Cardinality(P) = 1 /\ Cardinality(Q) = 0
          /\ Cardinality(Positions(r)) = 0
      BY <2>0, <3>1, <3>2
    <3> QED
      BY <2>1, <3>3, <3>4
  <2>4. ASSUME NEW t \in Threads, q[t] = r PROVE Places(r) = 1
    <3>1. P = {} /\ Q = {t} /\ r \notin held
      BY <1>1, <2>1, <2>4 DEF IInv, OneUser
    <3>2. Positions(r) = {}
      BY <1>1, <2>4, PositionsEmpty DEF IInv, LanesApart
    <3>3. H = 0
      BY <3>1
    <3> HIDE DEF P, Q, H
    <3>4. /\ Cardinality(P) = 0 /\ Cardinality(Q) = 1
          /\ Cardinality(Positions(r)) = 0
      BY <2>0, <3>1, <3>2
    <3> QED
      BY <2>1, <3>3, <3>4
  <2>5. ASSUME NEW k \in Classes, NEW l \in Lanes, r \in Lane(k, l) PROVE Places(r) = 1
    <3>1. P = {} /\ Q = {} /\ r \notin held
      BY <1>1, <2>5 DEF IInv, LanesApart
    <3>2. PICK x : Positions(r) = {x}
      BY <1>1, <2>5, PositionsOne
    <3>3. H = 0
      BY <3>1
    <3> HIDE DEF P, Q, H
    <3>4. /\ Cardinality(P) = 0 /\ Cardinality(Q) = 0
          /\ Cardinality(Positions(r)) = 1
      BY <2>0, <3>1, <3>2
    <3> QED
      BY <2>1, <3>3, <3>4
  <2> QED
    BY <1>1, <2>2, <2>3, <2>4, <2>5 DEF IInv, Somewhere
<1>2. ASSUME IInv, NEW k \in 1..NumCaches, NEW l \in Lanes, NEW i \in DOMAIN lists[k][l]
      PROVE  page[lists[k][l][i]].page_size = ClassSizes[k]
  BY <1>2 DEF IInv, SizesFit, Lane, ToSet
<1>3. IInv => PageInOnePlace
  BY <1>1, <1>2 DEF PageInOnePlace
<1> QED
  BY <1>3, ScalableInvariant, PTL

-----------------------------------------------------------------------------
(* Refinement.  A step changes the set of pages in use by one page or not   *)
(* at all, and never the size of a page in use.                             *)
Block(r) == [off |-> r + Header, size |-> page[r].page_size - Header]

(* Callers keep pages of their own, not those in the lanes.                 *)
LEMMA UsedPages ==
  ASSUME IInv, NEW t \in Threads
  PROVE  /\ p[t] \in Used => Keeps(t, p[t])
         /\ \A k \in Classes, l \in Lanes : Lane(k, l) \cap Used = {}
<1>1. ASSUME p[t] \in Used PROVE Keeps(t, p[t])
  <2>1. p[t] # NoPage
    BY <1>1, ScalableAssumption DEF IInv, TypeOK, Used
  <2>2. p[t] \notin held /\ \A u \in Threads : q[u] # p[t]
    BY <2>1 DEF IInv, OneUser
  <2>3. \A u \in Threads \ {t} : p[u] # p[t]
    BY <2>1 DEF IInv, OneUser
  <2> QED
    BY <1>1, <2>2, <2>3 DEF Used, Keeps
<1>2. ASSUME NEW k \in Classes, NEW l \in Lanes, NEW r \in Lane(k, l) PROVE r \notin Used
  BY DEF IInv, LanesApart, Used, Keeps
<1> QED
  BY <1>1, <1>2

(* The size of a page outside of the lanes stays, unless the step counts    *)
(* the page, which is when its size is set.                                 *)
LEMMA SizesOffLanesStay ==
  ASSUME IInv, NEW t \in Threads, InAllocate(t) \/ InFree(t), NEW r \in DOMAIN page,
         \A k \in Classes, l \in Lanes : r \notin Lane(k, l),
         pc[t] = "count" => r # p[t]
  PROVE  r \in DOMAIN page' /\ page'[r].page_size = page[r].page_size
<1>1. r \in DOMAIN page /\ page \in [DOMAIN page -> [allocated : BOOLEAN, page_size : Nat]]
  BY DEF IInv, TypeOK
<1>2. CASE TakeFirstFit(t)
  <2> DEFINE list == lists[ClassOf(size[t])][lane[t]]
             i == CHOOSE j \in Fits(t, list) : \A m \in Fits(t, list) : j <= m
             fit == list[i]
             rem == page[fit].page_size - size[t]
             g == RemPage(fit, size[t])
             rest == RemoveAt(list, i)
             divided == [s \in DOMAIN page \cup {g} |->
                           IF s = g THEN [allocated |-> FALSE, page_size |-> rem]
                           ELSE IF s = fit THEN [page[fit] EXCEPT !.page_size = size[t]]
                           ELSE page[s]]
  <2>1. \/ page' = Linked(page, rest)
        \/ Divisible(rem) /\ page' = Linked(divided, <<g>> \o rest)
    BY <1>2 DEF TakeFirstFit
  <2>2. /\ fit # r /\ fit \in DOMAIN page
        /\ page[fit].page_size >= size[t]
    <3>1. /\ ClassOf(size[t]) \in Classes /\ lane[t] \in Lanes
          /\ fit \in Lane(ClassOf(size[t]), lane[t]) /\ fit \in DOMAIN page
          /\ page[fit].page_size >= size[t]
      BY <1>2, FirstFitFound
    <3> QED
      BY <3>1
  <2>3. Divisible(rem) => r # g
    <3>1. size[t] \in Nat /\ size[t] >= Header
      BY <1>2 DEF TakeFirstFit, IInv, TypeOK, LocalsInStep, Rounded
    <3> HIDE DEF fit
    <3> QED
      BY <1>1, <2>2, <3>1, NoPageInside DEF RemPage
  <2> HIDE DEF fit, rest, g
  <2>4. CASE page' = Linked(page, rest)
    BY <1>1, <2>4 DEF Linked
  <2>5. CASE Divisible(rem) /\ page' = Linked(divided, <<g>> \o rest)
    <3>1. divided[r] = page[r] /\ r \in DOMAIN divided
      BY <1>1, <2>2, <2>3, <2>5
    <3> HIDE DEF divided
    <3>2. /\ r \in DOMAIN page'
          /\ page'[r] = IF r \in ToSet(<<g>> \o rest)
                        THEN [divided[r] EXCEPT !.allocated = LinkBit(<<g>> \o rest,
                                CHOOSE m \in DOMAIN (<<g>> \o rest) : (<<g>> \o rest)[m] = r)]
                        ELSE divided[r]
      BY <2>5, <3>1 DEF Linked
    <3>3. page[r] \in [allocated : BOOLEAN, page_size : Nat]
      BY <1>1
    <3> QED
      BY <3>1, <3>2, <3>3
  <2> QED
    BY <2>1, <2>4, <2>5
<1>3. CASE FromHeap(t)
  <2>1. r # heap_off
    BY <1>1, ScalableAssumption DEF IInv, TypeOK, PagesInside
  <2> QED
    BY <1>1, <1>3, <2>1 DEF FromHeap
<1>4. CASE CountAlloc(t)
  <2>1. r # p[t]
    BY <1>4 DEF CountAlloc
  <2> QED
    BY <1>1, <1>4, <2>1 DEF CountAlloc
<1>5. CASE MarkAllocated(t) \/ UnsetAllocated(t)
  BY <1>1, <1>5 DEF MarkAllocated, UnsetAllocated
<1>6. CASE Enqueue(t)
  BY <1>1, <1>6 DEF Enqueue, Linked
<1>7. CASE page' = page
  BY <1>1, <1>7
<1> QED
  BY <1>2, <1>3, <1>4, <1>5, <1>6, <1>7
  DEF InAllocate, InFree, AllocateBegin, ReallocateBegin, PickAllocLane, TakeCached,
      TakeNone, HeapRefused, Copy, FreeBegin, ReportDoubleFree, UncountAlloc,
      PickFreeLane, shared, vars

(* So the size of a page in use stays.                                      *)
LEMMA SizesStay ==
  ASSUME IInv, NEW t \in Threads, InAllocate(t) \/ InFree(t), NEW r \in Used
  PROVE  r \in DOMAIN page' /\ page'[r].page_size = page[r].page_size
<1>1. r \in DOMAIN page /\ \A k \in Classes, l \in Lanes : r \notin Lane(k, l)
  BY UsedPages DEF Used
<1>2. pc[t] = "count" => r # p[t]
  BY UsedPages, ScalableAssumption DEF Keeps, IInv, TypeOK, OneUser, LocalsInStep
<1> QED
  BY <1>1, <1>2, SizesOffLanesStay

(* A step leaves the locals of the other threads alone.                     *)
LEMMA OthersKeep ==
  ASSUME IInv, NEW t \in Threads, InAllocate(t) \/ InFree(t),
         NEW u \in Threads \ {t}, NEW r
  PROVE  Keeps(u, r)' <=> Keeps(u, r)
<1>1. /\ pc \in [Threads -> {"idle", "pick", "search", "heap", "count", "mark", "copy",
                             "unset", "uncount", "pickFree", "enqueue"}]
      /\ p \in [Threads -> DOMAIN page \cup {NoPage}]
      /\ q \in [Threads -> DOMAIN page \cup {NoPage}]
  BY DEF IInv, TypeOK
<1>2. pc'[u] = pc[u]
  BY <1>1 DEF InAllocate, InFree, AllocateBegin, ReallocateBegin, PickAllocLane, TakeCached,
     TakeFirstFit, TakeNone, FromHeap, HeapRefused, CountAlloc, MarkAllocated, Copy,
     FreeBegin, ReportDoubleFree, UnsetAllocated, UncountAlloc, PickFreeLane, Enqueue,
     Return, Goto, vars
<1>3. p'[u] = p[u]
  BY <1>1 DEF InAllocate, InFree, AllocateBegin, ReallocateBegin, PickAllocLane, TakeCached,
     TakeFirstFit, TakeNone, FromHeap, HeapRefused, CountAlloc, MarkAllocated, Copy,
     FreeBegin, ReportDoubleFree, UnsetAllocated, UncountAlloc, PickFreeLane, Enqueue,
     Return, vars
<1>4. q'[u] = q[u]
  BY <1>1 DEF InAllocate, InFree, AllocateBegin, ReallocateBegin, PickAllocLane, TakeCached,
     TakeFirstFit, TakeNone, FromHeap, HeapRefused, CountAlloc, MarkAllocated, Copy,
     FreeBegin, ReportDoubleFree, UnsetAllocated, UncountAlloc, PickFreeLane, Enqueue,
     Return, vars
<1> QED
  BY <1>2, <1>3, <1>4 DEF Keeps

(* So what is in use after a step depends on held and on that thread.       *)
LEMMA UsedAfterStep ==
  ASSUME IInv, NEW t \in Threads, InAllocate(t) \/ InFree(t), NEW r
  PROVE  r \in Used' <=> /\ r \in DOMAIN page'
                         /\ \/ r \in held'
                            \/ Keeps(t, r)'
                            \/ \E u \in Threads \ {t} : Keeps(u, r)
BY OthersKeep DEF Used

(* The same before the step.                                                *)
LEMMA UsedBeforeStep ==
  ASSUME NEW t \in Threads, NEW r
  PROVE  r \in Used <=> /\ r \in DOMAIN page
                        /\ \/ r \in held
                           \/ Keeps(t, r)
                           \/ \E u \in Threads \ {t} : Keeps(u, r)
BY DEF Used

(* MarkAllocated puts the page that was allocated into use.                 *)
LEMMA MarkAllocatedUses ==
  ASSUME IInv, NEW t \in Threads, MarkAllocated(t)
  PROVE  Used' = Used \cup {p[t]} /\ p[t] \in DOMAIN page \ Used
<1>0. InAllocate(t) \/ InFree(t)
  BY DEF InAllocate
<1>1. /\ p[t] \in DOMAIN page /\ p[t] # NoPage /\ pc[t] = "mark"
      /\ DOMAIN page' = DOMAIN page
  BY DEF IInv, TypeOK, LocalsInStep, MarkAllocated
<1>2. p[t] \notin Used
  BY <1>1, UsedPages DEF Keeps, IInv, OneUser
<1>3. ASSUME NEW r \in DOMAIN page
      PROVE  (r \in held' \/ Keeps(t, r)') <=> (r \in held \/ Keeps(t, r) \/ r = p[t])
  <2>1. r # NoPage
    BY ScalableAssumption DEF IInv, TypeOK
  <2>2. CASE q[t] = NoPage /\ held' = held \cup {p[t]} /\ Return(t)
    BY <1>1, <2>1, <2>2 DEF Return, Goto, Keeps, IInv, TypeOK
  <2>3. CASE Goto(t, "copy") /\ UNCHANGED <<held, size, lane, p, q>>
    BY <1>1, <2>1, <2>3 DEF Goto, Keeps, IInv, TypeOK
  <2> QED
    BY <2>2, <2>3 DEF MarkAllocated
<1>4. ASSUME NEW r PROVE r \in Used' <=> r \in Used \cup {p[t]}
  BY <1>0, <1>1, <1>3, UsedBeforeStep, UsedAfterStep
<1> QED
  BY <1>1, <1>2, <1>4

(* The free of a page begins when it has been copied.                       *)
LEMMA CopyReleases ==
  ASSUME IInv, NEW t \in Threads, Copy(t)
  PROVE  Used' = Used \ {q[t]} /\ q[t] \in Used
<1>0. InAllocate(t) \/ InFree(t)
  BY DEF InAllocate
<1>1. /\ page' = page /\ held' = held /\ pc[t] = "copy" /\ pc'[t] = "unset"
      /\ p' = p /\ q' = q /\ q[t] \in DOMAIN page /\ q[t] # NoPage
      /\ p[t] # NoPage /\ p[t] # q[t]
  BY DEF Copy, shared, Goto, IInv, TypeOK, LocalsInStep, OneUser
<1>2. ASSUME NEW r
      PROVE  /\ Keeps(t, r) <=> (r = p[t] \/ r = q[t])
             /\ Keeps(t, r)' <=> r = p[t]
  BY <1>1 DEF Keeps
<1>3. q[t] \notin held /\ \A u \in Threads \ {t} : ~Keeps(u, q[t])
  <2>1. q[t] \notin held /\ \A u \in Threads : p[u] # q[t]
    BY <1>1 DEF IInv, OneUser
  <2>2. \A u \in Threads \ {t} : q[u] # q[t]
    BY <1>1 DEF IInv, OneUser
  <2> QED
    BY <2>1, <2>2 DEF Keeps
<1>4. ASSUME NEW r PROVE r \in Used' <=> r \in Used \ {q[t]}
  BY <1>0, <1>1, <1>2, <1>3, UsedBeforeStep, UsedAfterStep
<1>5. q[t] \in Used
  BY <1>1, <1>2, UsedBeforeStep
<1> QED
  BY <1>4, <1>5

(* The free of a page begins when the caller hands it back.                 *)
LEMMA FreeBeginReleases ==
  ASSUME IInv, NEW t \in Threads, FreeBegin(t)
  PROVE  \E r \in Used : Used' = Used \ {r}
<1>0. InAllocate(t) \/ InFree(t)
  BY DEF InFree
<1>1. PICK r \in held : q' = [q EXCEPT ![t] = r] /\ held' = held \ {r}
  BY DEF FreeBegin
<1>2. r \in DOMAIN page /\ r # NoPage /\ page' = page
  BY ScalableAssumption DEF FreeBegin, IInv, TypeOK
<1>3. /\ pc[t] = "idle" /\ pc'[t] = "unset" /\ p' = p /\ p[t] = NoPage
  BY DEF FreeBegin, Goto, IInv, TypeOK, LocalsInStep
<1>4. ASSUME NEW s \in DOMAIN page PROVE ~Keeps(t, s) /\ ~Keeps(t, s)'
  BY <1>3, ScalableAssumption DEF Keeps, IInv, TypeOK
<1>5. \A u \in Threads \ {t} : ~Keeps(u, r)
  BY <1>2 DEF Keeps, IInv, OneUser
<1>6. ASSUME NEW s PROVE s \in Used' <=> s \in Used \ {r}
  BY <1>0, <1>1, <1>2, <1>4, <1>5, UsedBeforeStep, UsedAfterStep
<1>7. r \in Used
  BY <1>2 DEF Used
<1> QED
  BY <1>6, <1>7

(* No other step changes what is in use.                                    *)
LEMMA OthersKeepUsed ==
  ASSUME IInv, IInv', NEW t \in Threads, InAllocate(t) \/ InFree(t),
         ~MarkAllocated(t), ~Copy(t), ~FreeBegin(t)
  PROVE  Used' = Used
<1>1. ASSUME NEW r \in DOMAIN page
      PROVE  (r \in held' \/ Keeps(t, r)') <=> (r \in held \/ Keeps(t, r))
  <2>1. r # NoPage /\ NoPage \notin held
    BY ScalableAssumption DEF IInv, TypeOK
  <2>2. CASE ReallocateBegin(t)
    BY <2>1, <2>2 DEF ReallocateBegin, Goto, Keeps, IInv, TypeOK, LocalsInStep
  <2>3. CASE HeapRefused(t)
    BY <2>1, <2>3 DEF HeapRefused, Return, Goto, Keeps, IInv, TypeOK, LocalsInStep
  <2>4. CASE Enqueue(t)
    BY <2>1, <2>4 DEF Enqueue, Return, Goto, Keeps, IInv, TypeOK, LocalsInStep
  <2>5. CASE AllocateBegin(t) \/ PickAllocLane(t) \/ TakeNone(t) \/ CountAlloc(t)
    BY <2>1, <2>5 DEF AllocateBegin, PickAllocLane, TakeNone, CountAlloc, shared,
       Goto, Keeps, IInv, TypeOK, LocalsInStep
  <2>6. CASE TakeCached(t) \/ TakeFirstFit(t) \/ FromHeap(t)
    BY <2>1, <2>6 DEF TakeCached, TakeFirstFit, FromHeap, Goto, Keeps, IInv, TypeOK,
       LocalsInStep
  <2>7. CASE UnsetAllocated(t) \/ UncountAlloc(t) \/ PickFreeLane(t)
    BY <2>1, <2>7 DEF UnsetAllocated, UncountAlloc, PickFreeLane, Goto, Keeps, IInv,
       TypeOK, LocalsInStep
  <2>8. CASE ReportDoubleFree(t)
    BY <2>8 DEF ReportDoubleFree, vars, Keeps
  <2> QED
    BY <2>2, <2>3, <2>4, <2>5, <2>6, <2>7, <2>8 DEF InAllocate, InFree
<1>2. ASSUME NEW r \in DOMAIN page', r \notin DOMAIN page
      PROVE  r \notin Used'
  <2>1. CASE TakeFirstFit(t) \/ FromHeap(t)
    <3>0. r # NoPage
      BY <1>2, ScalableAssumption DEF IInv, TypeOK
    <3>1. r \notin held' /\ ~Keeps(t, r)'
      <4>1. pc'[t] = "count" /\ q' = q /\ held' = held
        BY <2>1 DEF TakeFirstFit, FromHeap, Goto, IInv, TypeOK
      <4>2. held \subseteq DOMAIN page /\ q[t] \in DOMAIN page \cup {NoPage}
        BY DEF IInv, TypeOK
      <4> QED
        BY <1>2, <3>0, <4>1, <4>2 DEF Keeps
    <3>2. \A u \in Threads : ~Keeps(u, r)
      BY <1>2, <3>0 DEF Keeps, IInv, TypeOK
    <3> QED
      BY <3>1, <3>2, UsedAfterStep
  <2>2. CASE page' = page \/ DOMAIN page' = DOMAIN page
    BY <1>2, <2>2
  <2> QED
    BY <2>1, <2>2
    DEF InAllocate, InFree, AllocateBegin, ReallocateBegin, PickAllocLane, TakeCached,
        TakeNone, HeapRefused, CountAlloc, UnsetAllocated, UncountAlloc, PickFreeLane,
        ReportDoubleFree, Enqueue, Linked, shared, vars
<1>3. DOMAIN page \subseteq DOMAIN page'
  <2>1. CASE TakeFirstFit(t) \/ FromHeap(t)
    BY <2>1 DEF TakeFirstFit, FromHeap, Linked
  <2>2. CASE DOMAIN page' = DOMAIN page
    BY <2>2
  <2> QED
    BY <2>1, <2>2
    DEF InAllocate, InFree, AllocateBegin, ReallocateBegin, PickAllocLane, TakeCached,
        TakeNone, HeapRefused, CountAlloc, UnsetAllocated, UncountAlloc, PickFreeLane,
        ReportDoubleFree, Enqueue, Linked, shared, vars
<1> QED
  BY <1>1, <1>2, <1>3, UsedBeforeStep, UsedAfterStep

(* Distinct pages are distinct blocks, and their blocks are separate.       *)
LEMMA BlocksApart ==
  ASSUME IInv, NEW r \in DOMAIN page, NEW s \in DOMAIN page, r # s
  PROVE  Block(r) # Block(s) /\ Promise!Separate(Block(r), Block(s))
<1>1. /\ r \in Nat /\ s \in Nat /\ Header \in Nat
      /\ page[r].page_size \in Nat /\ page[s].page_size \in Nat
  BY ScalableAssumption DEF IInv, TypeOK
<1>2. /\ Block(r).off = r + Header /\ Block(r).size = page[r].page_size - Header
      /\ Block(s).off = s + Header /\ Block(s).size = page[s].page_size - Header
  BY DEF Block
<1>3. r + page[r].page_size <= s \/ s + page[s].page_size <= r
  BY <1>1 DEF IInv, PagesApart
<1>4. Block(r).off # Block(s).off
  BY <1>1, <1>2
<1>5. Promise!Separate(Block(r), Block(s))
  BY <1>1, <1>2, <1>3 DEF Promise!Separate
<1> QED
  BY <1>4, <1>5

(* Blocks lie in the region behind the first header.                        *)
LEMMA BlockInRegion ==
  ASSUME IInv, NEW r \in DOMAIN page
  PROVE  /\ RegionOff + Header <= Block(r).off
         /\ Block(r).off + Block(r).size <= HeapSize
         /\ Block(r) \in [off : Nat, size : Nat]
<1>1. /\ r \in Nat /\ page[r].page_size \in Nat /\ Header \in Nat
      /\ RegionOff \in Nat /\ HeapSize \in Nat
  BY ScalableAssumption DEF IInv, TypeOK
<1>2. /\ RegionOff <= r /\ r + page[r].page_size <= HeapSize
      /\ page[r].page_size >= Header
  BY DEF IInv, PagesInside
<1>3. page[r].page_size - Header \in Nat /\ r + Header \in Nat
  BY <1>1, <1>2
<1> QED
  BY <1>1, <1>2, <1>3 DEF Block

(* Whatever the threads and the free lists do, the callers see the abstract *)
(* allocator: MarkAllocated is its Allocate, and the copy of a reallocation *)
(* or the begin of a free is its Free.                                      *)
THEOREM ScalableRefinement == Spec => ImplementsAllocator
<1> DEFINE blocks == {[off |-> r + Header, size |-> page[r].page_size - Header] : r \in Used}
<1>1. Init => Promise!Init
  BY DEF Init, Promise!Init, Used
<1>2. IInv /\ IInv' /\ [Next]_vars => [Promise!Next]_blocks
  <2> SUFFICES ASSUME IInv, IInv', [Next]_vars PROVE [Promise!Next]_blocks
    OBVIOUS
  <2>1. blocks = {Block(r) : r \in Used} /\ Used \subseteq DOMAIN page
    BY DEF Block, Used
  <2>2. ASSUME UNCHANGED vars PROVE blocks' = blocks
    BY <2>2 DEF vars, Used, Keeps
  <2>3. ASSUME NEW t \in Threads, InAllocate(t) \/ InFree(t) PROVE [Promise!Next]_blocks
    <3>1. \A r \in Used : Block(r)' = Block(r)
      BY <2>3, SizesStay DEF Block
    <3>2. ASSUME Used' \subseteq Used PROVE blocks' = {Block(r) : r \in Used'}
      BY <3>1, <3>2 DEF Block
    <3>3. CASE MarkAllocated(t)
      <4>1. Used' = Used \cup {p[t]} /\ p[t] \in DOMAIN page /\ p[t] \notin Used
        BY <3>3, MarkAllocatedUses
      <4>2. \A r \in DOMAIN page : Block(r)' = Block(r)
        BY <3>3 DEF MarkAllocated, Block, IInv, TypeOK
      <4>3. blocks' = blocks \cup {Block(p[t])}
        BY <2>1, <4>1, <4>2 DEF Block
      <4>4. \A c \in blocks : Promise!Separate(Block(p[t]), c)
        BY <2>1, <4>1, BlocksApart
      <4>5. Promise!Allocate(Block(p[t]))
        BY <4>1, <4>3, <4>4, BlockInRegion DEF Promise!Allocate
      <4>6. Block(p[t]) \in blocks' \ blocks
        BY <2>1, <4>1, <4>3, BlocksApart
      <4>7. PICK b \in blocks' \ blocks : b = Block(p[t])
        BY <4>6
      <4>8. Promise!Allocate(b)
        BY <4>5, <4>7 DEF Promise!Allocate
      <4> QED
        BY <4>8 DEF Promise!Next
    <3>4. ASSUME NEW r \in Used, Used' = Used \ {r} PROVE Promise!Next
      <4>1. blocks' = blocks \ {Block(r)} /\ Block(r) \in blocks
        BY <2>1, <3>2, <3>4, BlocksApart
      <4> QED
        BY <4>1 DEF Promise!Next, Promise!Free
    <3>5. ASSUME Used' = Used PROVE blocks' = blocks
      BY <2>1, <3>2, <3>5
    <3>6. CASE Copy(t)
      BY <3>4, <3>6, CopyReleases
    <3>7. CASE FreeBegin(t)
      BY <3>4, <3>7, FreeBeginReleases
    <3>8. CASE ~MarkAllocated(t) /\ ~Copy(t) /\ ~FreeBegin(t)
      BY <2>3, <3>5, <3>8, OthersKeepUsed
    <3> QED
      BY <3>3, <3>6, <3>7, <3>8
  <2> QED
    BY <2>2, <2>3 DEF Next
<1> QED
  BY <1>1, <1>2, ScalableInvariant, PTL DEF Spec, ImplementsAllocator, Promise!Spec
-----------------------------------------------------------------------------
(* The bytes of a set of pages, summed as in the model; the lemmas are those *)
(* of StackAllocatorProofs, for the pages of this allocator.                *)
TotalSize(f, S) == FoldFunctionOnSet(LAMBDA h, sum : h.page_size + sum, 0, f, S)

(* Of the sets of a family, one has no other of them inside of it.          *)
LEMMA Smallest ==
  ASSUME NEW S, NEW B, IsFiniteSet(S), B \subseteq SUBSET S, B # {}
  PROVE  \E T \in B : \A U \in B : U \subseteq T => U = T
<1> DEFINE R == StrictSubsetOrdering(S)
           F == FiniteSubsetsOf(S)
<1>1. IsWellFoundedOn(R, F)
  BY FS_StrictSubsetOrderingWellFounded
<1>2. B \subseteq F
  BY FS_Subset DEF FiniteSubsetsOf
<1>3. \A T, U \in B : U \subseteq T /\ U # T => <<U, T>> \in R
  BY DEF StrictSubsetOrdering
<1> HIDE DEF R, F
<1>4. PICK T \in B : \A U \in B : <<U, T>> \notin R
  BY <1>1, <1>2, WFMin
<1> QED
  BY <1>3, <1>4

(* A sum takes the pages one at a time.                                     *)
Chosen(s) == CHOOSE x \in s : TRUE
SumStep(f, g, s) ==
  IF s = {} THEN 0 ELSE f[Chosen(s)].page_size + g[s \ {Chosen(s)}]
Sums(f, g, S) == g = [s \in SUBSET S |-> SumStep(f, g, s)]

LEMMA ChosenIn ==
  ASSUME NEW s, s # {}
  PROVE  Chosen(s) \in s
  BY DEF Chosen

LEMMA TotalOfSums ==
  ASSUME NEW f, NEW S, \E g : Sums(f, g, S)
  PROVE  \E g : Sums(f, g, S) /\ TotalSize(f, S) = g[S]
<1> DEFINE g == CHOOSE g : Sums(f, g, S)
<1>1. TotalSize(f, S) = g[S]
  BY DEF TotalSize, FoldFunctionOnSet, MapThenFoldSet, Sums, SumStep, Chosen
<1>2. Sums(f, g, S)
  OBVIOUS
<1> QED
  BY <1>1, <1>2

(* Functions that sum agree where both do.                                  *)
LEMMA SumsAgree ==
  ASSUME NEW f, NEW S, NEW T \in SUBSET S, NEW g, NEW h, IsFiniteSet(S),
         Sums(f, g, S), Sums(f, h, T)
  PROVE  g[T] = h[T]
<1> DEFINE B == {s \in SUBSET T : g[s] # h[s]}
<1>1. \A s \in SUBSET T : g[s] = SumStep(f, g, s) /\ h[s] = SumStep(f, h, s)
  BY DEF Sums
<1>2. ASSUME B # {}
      PROVE  FALSE
  <2>1. PICK s \in B : \A u \in B : u \subseteq s => u = s
    <3>1. B \subseteq SUBSET S
      OBVIOUS
    <3> HIDE DEF B
    <3> QED
      BY <1>2, <3>1, Smallest
  <2>2. s # {}
    BY <1>1, <2>1 DEF SumStep
  <2> DEFINE u == s \ {Chosen(s)}
  <2>3. u \in SUBSET T /\ u # s /\ u \subseteq s
    BY <2>1, <2>2, ChosenIn
  <2>4. g[u] = h[u]
    BY <2>1, <2>3
  <2> QED
    BY <1>1, <2>1, <2>2, <2>4 DEF SumStep
<1> QED
  BY <1>2

LEMMA SumChosen ==
  ASSUME NEW f, NEW S, IsFiniteSet(S), S # {},
         \E g : Sums(f, g, S), \E g : Sums(f, g, S \ {Chosen(S)})
  PROVE  TotalSize(f, S) = f[Chosen(S)].page_size + TotalSize(f, S \ {Chosen(S)})
<1> DEFINE T == S \ {Chosen(S)}
<1>1. T \in SUBSET S
  OBVIOUS
<1>2. \E g : Sums(f, g, T)
  OBVIOUS
<1> HIDE DEF T
<1>3. PICK g : Sums(f, g, S) /\ TotalSize(f, S) = g[S]
  BY TotalOfSums
<1>4. PICK h : Sums(f, h, T) /\ TotalSize(f, T) = h[T]
  BY <1>2, TotalOfSums
<1>5. g[T] = h[T]
  BY <1>1, <1>3, <1>4, SumsAgree
<1>6. g[S] = f[Chosen(S)].page_size + g[T]
  BY <1>3 DEF Sums, SumStep, T
<1> QED
  BY <1>3, <1>4, <1>5, <1>6 DEF T

(* There is one for every finite set.                                       *)
LEMMA SumsExist ==
  ASSUME NEW f, NEW S, IsFiniteSet(S)
  PROVE  \E g : Sums(f, g, S)
<1> DEFINE B == {s \in SUBSET S : ~\E g : Sums(f, g, s)}
<1>1. ASSUME B # {}
      PROVE  FALSE
  <2>1. PICK T \in B : \A u \in B : u \subseteq T => u = T
    <3>1. B \subseteq SUBSET S
      OBVIOUS
    <3> HIDE DEF B
    <3> QED
      BY <1>1, <3>1, Smallest
  <2>2. T \in SUBSET S /\ IsFiniteSet(T)
    BY <2>1, FS_Subset
  <2>3. \A s \in SUBSET T : s # T => IsFiniteSet(s) /\ \E g : Sums(f, g, s)
    BY <2>1, <2>2, FS_Subset
  <2> DEFINE tot(s) == TotalSize(f, s)
             h == [s \in SUBSET T |-> IF s # T THEN tot(s)
                                      ELSE IF s = {} THEN 0
                                      ELSE f[Chosen(s)].page_size + tot(s \ {Chosen(s)})]
  <2>4. ASSUME NEW s \in SUBSET T
        PROVE  h[s] = SumStep(f, h, s)
    <3>1. CASE s = {}
      <4>1. CASE s # T
        <5>1. PICK g : Sums(f, g, s) /\ tot(s) = g[s]
          BY <2>3, <4>1, TotalOfSums
        <5> QED
          BY <3>1, <4>1, <5>1 DEF Sums, SumStep
      <4> QED
        BY <3>1, <4>1 DEF SumStep
    <3>2. CASE s # {}
      <4> DEFINE u == s \ {Chosen(s)}
      <4>1. u \in SUBSET T /\ u # T
        BY <3>2, ChosenIn
      <4>2. SumStep(f, h, s) = f[Chosen(s)].page_size + tot(u)
        BY <3>2, <4>1 DEF SumStep
      <4>3. CASE s # T
        <5>1. tot(s) = f[Chosen(s)].page_size + tot(u)
          BY <2>3, <3>2, <4>1, <4>3, SumChosen
        <5> QED
          BY <4>2, <4>3, <5>1
      <4>4. CASE s = T
        BY <3>2, <4>2, <4>4
      <4> QED
        BY <4>3, <4>4
    <3> QED
      BY <3>1, <3>2
  <2>5. h = [s \in SUBSET T |-> h[s]]
    OBVIOUS
  <2> HIDE DEF h
  <2>6. Sums(f, h, T)
    BY <2>4, <2>5 DEF Sums
  <2> QED
    BY <2>1, <2>6
<1> QED
  BY <1>1

(* An empty set of pages has no bytes.                                      *)
LEMMA TotalOfNone ==
  ASSUME NEW f
  PROVE  TotalSize(f, {}) = 0
<1>1. PICK g : Sums(f, g, {}) /\ TotalSize(f, {}) = g[{}]
  BY TotalOfSums, SumsExist, FS_EmptySet
<1> QED
  BY <1>1 DEF Sums, SumStep

(* A set with the page x has the bytes of x and those of the other pages.   *)
LEMMA TotalOfOthers ==
  ASSUME NEW f, NEW S, IsFiniteSet(S), \A x \in S : f[x].page_size \in Nat
  PROVE  /\ TotalSize(f, S) \in Nat
         /\ \A x \in S : TotalSize(f, S) = f[x].page_size + TotalSize(f, S \ {x})
<1> DEFINE tot(s) == TotalSize(f, s)
           Good(s) == tot(s) \in Nat /\ \A x \in s : tot(s) = f[x].page_size + tot(s \ {x})
           B == {s \in SUBSET S : ~Good(s)}
<1>1. ASSUME B # {}
      PROVE  FALSE
  <2>1. PICK s \in B : \A u \in B : u \subseteq s => u = s
    <3>1. B \subseteq SUBSET S
      OBVIOUS
    <3> HIDE DEF B
    <3> QED
      BY <1>1, <3>1, Smallest
  <2>2. s \in SUBSET S /\ IsFiniteSet(s) /\ ~Good(s)
    BY <2>1, FS_Subset
  <2>3. \A u \in SUBSET s : u # s => Good(u)
    BY <2>1, <2>2
  <2>4. s # {}
    <3>1. tot({}) = 0
      BY TotalOfNone
    <3>2. Good({})
      BY <3>1
    <3> QED
      BY <2>2, <3>2
  <2>5. PICK c \in s : tot(s) = f[c].page_size + tot(s \ {c})
    <3>1. IsFiniteSet(s \ {Chosen(s)})
      BY <2>2, FS_Subset
    <3> QED
      BY <2>2, <2>4, <3>1, ChosenIn, SumsExist, SumChosen
  <2>6. ASSUME NEW x \in s, x # c
        PROVE  tot(s) = f[x].page_size + tot(s \ {x})
    <3> DEFINE v == s \ {c}
               w == s \ {x}
               u == v \ {x}
    <3>1. /\ v \in SUBSET s /\ v # s /\ w \in SUBSET s /\ w # s /\ u \in SUBSET s /\ u # s
          /\ u = w \ {c} /\ x \in v /\ c \in w
      BY <2>6
    <3>2. Good(v) /\ Good(w) /\ Good(u)
      BY <2>3, <3>1
    <3> HIDE DEF u, v, w
    <3>3. tot(v) = f[x].page_size + tot(u) /\ tot(w) = f[c].page_size + tot(u) /\ tot(u) \in Nat
      BY <3>1, <3>2 DEF u
    <3>4. f[x].page_size \in Nat /\ f[c].page_size \in Nat
      BY <2>2
    <3>5. tot(s) = f[c].page_size + tot(v)
      BY <2>5 DEF v
    <3> QED
      BY <3>3, <3>4, <3>5 DEF w
  <2>7. tot(s) \in Nat
    <3>1. s \ {c} \in SUBSET s /\ s \ {c} # s
      OBVIOUS
    <3> QED
      BY <2>2, <2>3, <2>5, <3>1
  <2> QED
    BY <2>2, <2>5, <2>6, <2>7
<1> QED
  BY <1>1

(* Pages of the same sizes have as many bytes, whatever else changed.       *)
LEMMA TotalOfSame ==
  ASSUME NEW f, NEW h, NEW S, IsFiniteSet(S),
         \A x \in S : f[x].page_size \in Nat /\ h[x].page_size = f[x].page_size
  PROVE  TotalSize(h, S) = TotalSize(f, S)
<1> DEFINE B == {s \in SUBSET S : TotalSize(h, s) # TotalSize(f, s)}
<1>1. ASSUME B # {}
      PROVE  FALSE
  <2>1. PICK s \in B : \A u \in B : u \subseteq s => u = s
    <3>1. B \subseteq SUBSET S
      OBVIOUS
    <3> HIDE DEF B
    <3> QED
      BY <1>1, <3>1, Smallest
  <2>2. s \in SUBSET S /\ IsFiniteSet(s)
    BY <2>1, FS_Subset
  <2>3. PICK x \in s : TRUE
    BY <2>1, TotalOfNone
  <2>4. TotalSize(h, s \ {x}) = TotalSize(f, s \ {x})
    BY <2>1, <2>3
  <2>5. TotalSize(f, s) = f[x].page_size + TotalSize(f, s \ {x})
    BY <2>2, TotalOfOthers
  <2>6. TotalSize(h, s) = h[x].page_size + TotalSize(h, s \ {x})
    BY <2>2, TotalOfOthers
  <2> QED
    BY <2>1, <2>2, <2>4, <2>5, <2>6
<1> QED
  BY <1>1

-----------------------------------------------------------------------------
(* The accounting.                                                          *)
SumInv == IsFiniteSet(DOMAIN page) /\ AccountingExact

CountedPages == {r \in DOMAIN page : Counted(r)}

(* Accounting is a statement about the bytes of the counted pages.          *)
Accounted == total_alloc = TotalSize(page, CountedPages)

LEMMA AccountingIsTotal == AccountingExact <=> Accounted
BY DEF AccountingExact, Accounted, TotalSize, CountedPages

LEMMA AccountingIsTotalNext == AccountingExact' <=> Accounted'
BY AccountingIsTotal, PTL

(* The pages have sizes to sum.                                             *)
LEMMA CountedAreFinite ==
  ASSUME IInv, SumInv
  PROVE  IsFiniteSet(CountedPages) /\ \A r \in CountedPages : page[r].page_size \in Nat
<1>1. CountedPages \subseteq DOMAIN page
  BY DEF CountedPages
<1>2. \A r \in DOMAIN page : page[r].page_size \in Nat
  BY DEF IInv, TypeOK
<1> QED
  BY <1>1, <1>2, FS_Subset DEF SumInv

(* An empty heap has nothing allocated.                                     *)
LEMMA InitSums == Init => SumInv
<1> SUFFICES ASSUME Init PROVE SumInv
  OBVIOUS
<1>1. DOMAIN page = {} /\ CountedPages = {}
  BY DEF Init, CountedPages
<1>2. AccountingExact
  BY <1>1, AccountingIsTotal, TotalOfNone DEF Init, Accounted
<1> QED
  BY <1>1, <1>2, FS_EmptySet DEF SumInv

(* A thread counts the pages it works on, between its count and its uncount. *)
Takes(t, r) ==
  \/ p[t] = r /\ pc[t] # "count"
  \/ q[t] = r /\ pc[t] \notin {"pickFree", "enqueue"}

(* Counted pages are in no lane, and none is about to be counted.           *)
LEMMA CountedOffLanes ==
  ASSUME IInv, NEW r \in CountedPages
  PROVE  /\ r \in DOMAIN page /\ r # NoPage
         /\ \A k \in Classes, l \in Lanes : r \notin Lane(k, l)
         /\ \A t \in Threads : pc[t] = "count" => r # p[t]
<1>1. r \in DOMAIN page /\ r # NoPage
  BY ScalableAssumption DEF CountedPages, IInv, TypeOK
<1>2. ASSUME NEW k \in Classes, NEW l \in Lanes PROVE r \notin Lane(k, l)
  BY DEF CountedPages, Counted, IInv, LanesApart
<1>3. ASSUME NEW t \in Threads, pc[t] = "count" PROVE r # p[t]
  <2> SUFFICES ASSUME r = p[t] PROVE FALSE
    OBVIOUS
  <2>1. r \notin held /\ \A u \in Threads : q[u] # r
    BY <1>1 DEF IInv, OneUser
  <2>2. \A u \in Threads \ {t} : p[u] # r
    BY <1>1 DEF IInv, OneUser
  <2> QED
    BY <1>3, <2>1, <2>2 DEF CountedPages, Counted
<1> QED
  BY <1>1, <1>2, <1>3

(* The locals of the other threads stay, and so does what they count.       *)
LEMMA OthersTake ==
  ASSUME IInv, NEW t \in Threads, InAllocate(t) \/ InFree(t),
         NEW u \in Threads \ {t}, NEW r
  PROVE  Takes(u, r)' <=> Takes(u, r)
<1>1. /\ pc \in [Threads -> {"idle", "pick", "search", "heap", "count", "mark", "copy",
                             "unset", "uncount", "pickFree", "enqueue"}]
      /\ p \in [Threads -> DOMAIN page \cup {NoPage}]
      /\ q \in [Threads -> DOMAIN page \cup {NoPage}]
  BY DEF IInv, TypeOK
<1>2. pc'[u] = pc[u]
  BY <1>1 DEF InAllocate, InFree, AllocateBegin, ReallocateBegin, PickAllocLane, TakeCached,
     TakeFirstFit, TakeNone, FromHeap, HeapRefused, CountAlloc, MarkAllocated, Copy,
     FreeBegin, ReportDoubleFree, UnsetAllocated, UncountAlloc, PickFreeLane, Enqueue,
     Return, Goto, vars
<1>3. p'[u] = p[u]
  BY <1>1 DEF InAllocate, InFree, AllocateBegin, ReallocateBegin, PickAllocLane, TakeCached,
     TakeFirstFit, TakeNone, FromHeap, HeapRefused, CountAlloc, MarkAllocated, Copy,
     FreeBegin, ReportDoubleFree, UnsetAllocated, UncountAlloc, PickFreeLane, Enqueue,
     Return, vars
<1>4. q'[u] = q[u]
  BY <1>1 DEF InAllocate, InFree, AllocateBegin, ReallocateBegin, PickAllocLane, TakeCached,
     TakeFirstFit, TakeNone, FromHeap, HeapRefused, CountAlloc, MarkAllocated, Copy,
     FreeBegin, ReportDoubleFree, UnsetAllocated, UncountAlloc, PickFreeLane, Enqueue,
     Return, vars
<1> QED
  BY <1>2, <1>3, <1>4 DEF Takes

(* What is counted before a step and after it depends on held and on the    *)
(* thread that takes the step.                                              *)
LEMMA CountedBeforeStep ==
  ASSUME NEW t \in Threads, NEW r
  PROVE  r \in CountedPages <=> /\ r \in DOMAIN page
                                /\ \/ r \in held
                                   \/ Takes(t, r)
                                   \/ \E u \in Threads \ {t} : Takes(u, r)
BY DEF CountedPages, Counted, Takes

LEMMA CountedAfterStep ==
  ASSUME IInv, NEW t \in Threads, InAllocate(t) \/ InFree(t), NEW r
  PROVE  r \in CountedPages' <=> /\ r \in DOMAIN page'
                                 /\ \/ r \in held'
                                    \/ Takes(t, r)'
                                    \/ \E u \in Threads \ {t} : Takes(u, r)
<1>1. r \in CountedPages' <=> /\ r \in DOMAIN page'
                              /\ \/ r \in held'
                                 \/ \E u \in Threads : Takes(u, r)'
  BY DEF CountedPages, Counted, Takes
<1> QED
  BY <1>1, OthersTake

(* The pages stay finitely many: a step adds one at most.                   *)
LEMMA PagesStayFinite ==
  ASSUME IInv, SumInv, NEW t \in Threads, InAllocate(t) \/ InFree(t)
  PROVE  /\ IsFiniteSet(DOMAIN page') /\ DOMAIN page \subseteq DOMAIN page'
         /\ DOMAIN page' # DOMAIN page => TakeFirstFit(t) \/ FromHeap(t)
<1>1. CASE TakeFirstFit(t) \/ FromHeap(t)
  <2>1. \/ DOMAIN page' = DOMAIN page
        \/ \E x : DOMAIN page' = DOMAIN page \cup {x}
    BY <1>1 DEF TakeFirstFit, FromHeap, Linked
  <2> QED
    BY <1>1, <2>1, FS_AddElement DEF SumInv
<1>2. CASE DOMAIN page' = DOMAIN page
  BY <1>2 DEF SumInv
<1> QED
  BY <1>1, <1>2
  DEF InAllocate, InFree, AllocateBegin, ReallocateBegin, PickAllocLane, TakeCached,
      TakeNone, HeapRefused, CountAlloc, MarkAllocated, Copy, FreeBegin, UnsetAllocated,
      UncountAlloc, PickFreeLane, ReportDoubleFree, Enqueue, Linked, shared, vars

(* A page that a step makes is not counted yet.                             *)
LEMMA NewPagesUncounted ==
  ASSUME IInv, SumInv, NEW t \in Threads, InAllocate(t) \/ InFree(t),
         NEW r \in DOMAIN page' \ DOMAIN page, IInv'
  PROVE  r \notin CountedPages'
<1>1. TakeFirstFit(t) \/ FromHeap(t)
  BY PagesStayFinite
<1>2. r # NoPage
  BY ScalableAssumption DEF IInv, TypeOK
<1>3. r \notin held' /\ ~Takes(t, r)'
  <2>1. pc'[t] = "count" /\ q' = q /\ held' = held
    BY <1>1 DEF TakeFirstFit, FromHeap, Goto, IInv, TypeOK
  <2>2. held \subseteq DOMAIN page /\ q[t] \in DOMAIN page \cup {NoPage}
    BY DEF IInv, TypeOK
  <2> QED
    BY <1>2, <2>1, <2>2 DEF Takes
<1>4. \A u \in Threads : ~Takes(u, r)
  BY <1>2 DEF Takes, IInv, TypeOK
<1> QED
  BY <1>3, <1>4, CountedAfterStep

(* A step that neither counts nor uncounts moves counted pages between the  *)
(* callers and a thread.                                                    *)
LEMMA OthersKeepCounted ==
  ASSUME IInv, SumInv, IInv', NEW t \in Threads, InAllocate(t) \/ InFree(t),
         ~CountAlloc(t), ~UncountAlloc(t)
  PROVE  CountedPages' = CountedPages /\ total_alloc' = total_alloc
<1>1. ASSUME NEW r \in DOMAIN page
      PROVE  (r \in held' \/ Takes(t, r)') <=> (r \in held \/ Takes(t, r))
  <2>1. r # NoPage /\ NoPage \notin held
    BY ScalableAssumption DEF IInv, TypeOK
  <2>2. CASE ReallocateBegin(t) \/ FreeBegin(t)
    BY <2>1, <2>2 DEF ReallocateBegin, FreeBegin, Goto, Takes, IInv, TypeOK, LocalsInStep
  <2>3. CASE HeapRefused(t)
    BY <2>1, <2>3 DEF HeapRefused, Return, Goto, Takes, IInv, TypeOK, LocalsInStep
  <2>4. CASE Enqueue(t)
    BY <2>1, <2>4 DEF Enqueue, Return, Goto, Takes, IInv, TypeOK, LocalsInStep
  <2>5. CASE MarkAllocated(t)
    BY <2>1, <2>5 DEF MarkAllocated, Return, Goto, Takes, IInv, TypeOK, LocalsInStep
  <2>6. CASE AllocateBegin(t) \/ PickAllocLane(t) \/ TakeNone(t) \/ Copy(t)
    BY <2>1, <2>6 DEF AllocateBegin, PickAllocLane, TakeNone, Copy, shared,
       Goto, Takes, IInv, TypeOK, LocalsInStep
  <2>7. CASE TakeCached(t) \/ TakeFirstFit(t) \/ FromHeap(t)
    <3>1. /\ pc[t] \in {"search", "heap"} /\ pc'[t] = "count" /\ p[t] = NoPage
          /\ q' = q /\ held' = held
      BY <2>7 DEF TakeCached, TakeFirstFit, FromHeap, Goto, IInv, TypeOK, LocalsInStep
    <3> QED
      BY <2>1, <3>1 DEF Takes
  <2>8. CASE UnsetAllocated(t) \/ PickFreeLane(t)
    BY <2>1, <2>8 DEF UnsetAllocated, PickFreeLane, Goto, Takes, IInv, TypeOK, LocalsInStep
  <2>9. CASE ReportDoubleFree(t)
    BY <2>9 DEF ReportDoubleFree, vars, Takes
  <2> QED
    BY <2>2, <2>3, <2>4, <2>5, <2>6, <2>7, <2>8, <2>9 DEF InAllocate, InFree
<1>2. total_alloc' = total_alloc
  BY DEF InAllocate, InFree, AllocateBegin, ReallocateBegin, PickAllocLane, TakeCached,
     TakeFirstFit, TakeNone, FromHeap, HeapRefused, MarkAllocated, Copy, FreeBegin,
     ReportDoubleFree, UnsetAllocated, PickFreeLane, Enqueue, shared, vars
<1> QED
  BY <1>1, <1>2, PagesStayFinite, NewPagesUncounted, CountedBeforeStep, CountedAfterStep

(* Such a step keeps the sum.                                               *)
LEMMA OthersKeepSums ==
  ASSUME IInv, SumInv, IInv', NEW t \in Threads, InAllocate(t) \/ InFree(t),
         ~CountAlloc(t), ~UncountAlloc(t)
  PROVE  SumInv'
<1>1. CountedPages' = CountedPages /\ total_alloc' = total_alloc
  BY OthersKeepCounted
<1>2. \A r \in CountedPages : /\ page[r].page_size \in Nat
                              /\ page'[r].page_size = page[r].page_size
  BY CountedAreFinite, CountedOffLanes, SizesOffLanesStay
<1>3. TotalSize(page', CountedPages) = TotalSize(page, CountedPages)
  BY <1>2, CountedAreFinite, TotalOfSame
<1>4. AccountingExact'
  BY <1>1, <1>3, AccountingIsTotal, AccountingIsTotalNext DEF SumInv, Accounted
<1> QED
  BY <1>4, PagesStayFinite DEF SumInv

(* CountAlloc sets the size of its page and counts it.                      *)
LEMMA CountAllocSums ==
  ASSUME IInv, SumInv, NEW t \in Threads, CountAlloc(t)
  PROVE  SumInv'
<1> DEFINE S == CountedPages \cup {p[t]}
<1>1. /\ pc[t] = "count" /\ pc'[t] = "mark" /\ UNCHANGED <<held, p, q>>
      /\ p[t] \in DOMAIN page /\ size[t] \in Nat
      /\ total_alloc' = total_alloc + size[t]
  BY DEF CountAlloc, Goto, IInv, TypeOK, LocalsInStep
<1>2. /\ DOMAIN page' = DOMAIN page /\ page'[p[t]].page_size = size[t]
      /\ \A r \in DOMAIN page \ {p[t]} : page'[r].page_size = page[r].page_size
  BY <1>1 DEF CountAlloc, IInv, TypeOK
<1>3. p[t] \notin CountedPages
  BY <1>1, CountedOffLanes
<1>4. InAllocate(t)
  BY DEF InAllocate
<1>5. CountedPages' = S
  <2>1. \A r : Takes(t, r)' <=> r = p[t] \/ Takes(t, r)
    BY <1>1 DEF Takes
  <2> QED
    BY <1>1, <1>2, <1>4, <2>1, CountedBeforeStep, CountedAfterStep
<1>6. IsFiniteSet(S) /\ S \ {p[t]} = CountedPages /\ p[t] \in S
  BY <1>3, CountedAreFinite, FS_AddElement
<1>7. \A r \in CountedPages : /\ page[r].page_size \in Nat
                              /\ page'[r].page_size = page[r].page_size
  BY <1>2, <1>3, CountedAreFinite DEF CountedPages
<1> HIDE DEF S
<1>8. TotalSize(page', CountedPages) = TotalSize(page, CountedPages)
  BY <1>7, CountedAreFinite, TotalOfSame
<1>9. TotalSize(page', S) = size[t] + TotalSize(page', CountedPages)
  <2>1. \A r \in S : page'[r].page_size \in Nat
    BY <1>1, <1>2, <1>6, <1>7
  <2> QED
    BY <1>2, <1>6, <2>1, TotalOfOthers
<1>10. TotalSize(page, CountedPages) \in Nat
  BY CountedAreFinite, TotalOfOthers
<1>11. total_alloc = TotalSize(page, CountedPages)
  BY AccountingIsTotal DEF SumInv, Accounted
<1>12. total_alloc' = TotalSize(page', S)
  BY <1>1, <1>8, <1>9, <1>10, <1>11
<1> QED
  BY <1>2, <1>5, <1>12, AccountingIsTotalNext DEF SumInv, Accounted

(* UncountAlloc takes the size of its page away before the page is listed.  *)
LEMMA UncountAllocSums ==
  ASSUME IInv, SumInv, NEW t \in Threads, UncountAlloc(t)
  PROVE  SumInv'
<1> DEFINE x == q[t]
           S == CountedPages \ {x}
<1>1. /\ pc[t] = "uncount" /\ pc'[t] = "pickFree" /\ UNCHANGED <<page, held, p, q>>
      /\ x \in DOMAIN page /\ x # NoPage
      /\ total_alloc' = total_alloc - page[x].page_size
  BY DEF UncountAlloc, Goto, IInv, TypeOK, LocalsInStep
<1>2. /\ x \notin held /\ p[t] # x
      /\ \A u \in Threads \ {t} : p[u] # x /\ q[u] # x
  BY <1>1 DEF IInv, OneUser, LocalsInStep, TypeOK
<1>3. InFree(t)
  BY DEF InFree
<1>4. x \in CountedPages
  BY <1>1 DEF CountedPages, Counted
<1>5. CountedPages' = S
  <2>1. ASSUME NEW r, r # x PROVE Takes(t, r)' <=> Takes(t, r)
    BY <1>1, <2>1 DEF Takes
  <2>2. ASSUME NEW r, r = x
        PROVE  ~Takes(t, r)' /\ \A u \in Threads \ {t} : ~Takes(u, r)
    BY <1>1, <1>2, <2>2 DEF Takes
  <2> QED
    BY <1>1, <1>2, <1>3, <2>1, <2>2, CountedBeforeStep, CountedAfterStep
<1>6. IsFiniteSet(S) /\ \A r \in S : page[r].page_size \in Nat
  BY CountedAreFinite, FS_Subset
<1>7. page[x].page_size \in Nat
  BY <1>4, CountedAreFinite
<1> HIDE DEF x
<1>8. TotalSize(page, CountedPages) = page[x].page_size + TotalSize(page, S)
  BY <1>4, CountedAreFinite, TotalOfOthers
<1> HIDE DEF S
<1>9. TotalSize(page, S) \in Nat
  BY <1>6, TotalOfOthers
<1>10. total_alloc = TotalSize(page, CountedPages)
  BY AccountingIsTotal DEF SumInv, Accounted
<1>11. total_alloc' = TotalSize(page, S)
  BY <1>1, <1>7, <1>8, <1>9, <1>10
<1> QED
  BY <1>1, <1>5, <1>11, AccountingIsTotalNext DEF SumInv, Accounted

(* However allocations, divisions and frees interleave, what                *)
(* GetCurrentlyAllocatedSize returns is the size of the pages that are      *)
(* counted, although the sizes of pages are overwritten when they are taken. *)
THEOREM ScalableAccountingExact == Spec => []AccountingExact
<1>1. IInv /\ IInv' /\ SumInv /\ [Next]_vars => SumInv'
  <2> SUFFICES ASSUME IInv, IInv', SumInv, [Next]_vars PROVE SumInv'
    OBVIOUS
  <2>1. ASSUME NEW t \in Threads, InAllocate(t) \/ InFree(t) PROVE SumInv'
    BY <2>1, CountAllocSums, UncountAllocSums, OthersKeepSums
  <2>2. CASE UNCHANGED vars
    <3>1. CountedPages' = CountedPages
      BY <2>2 DEF vars, CountedPages, Counted
    <3> QED
      BY <2>2, <3>1, AccountingIsTotal, AccountingIsTotalNext DEF vars, SumInv, Accounted
  <2> QED
    BY <2>1, <2>2 DEF Next
<1>2. SumInv => AccountingExact
  BY DEF SumInv
<1> QED
  BY InitSums, <1>1, <1>2, ScalableInvariant, PTL DEF Spec
=============================================================================

------------------------ MODULE ScalablePageAllocator ------------------------
(***************************************************************************)
(* ScalablePageAllocator: freed pages are kept in free lists, one set of    *)
(* lanes per size class and one for larger pages, each lane an iqueue under *)
(* a Mutex.  An allocation looks in the lane a round-robin counter points   *)
(* to and takes a new page from the heap when that lane has none; a free    *)
(* puts the page in the lane another counter points to.                     *)
(*                                                                          *)
(* What a thread does with a lane under its mutex is one action, since the  *)
(* lists and the free pages in them are only touched under it (Mutex shows  *)
(* its exclusion).  The link of a free page lies on the flags of its        *)
(* header, so that a free page reads as allocated when the link is odd; the *)
(* null link has all bits set.                                              *)
(***************************************************************************)
EXTENDS Integers, Sequences, FiniteSets, SequencesExt

CONSTANTS Threads,
          RegionOff,    \* where the inner allocator's heap starts
          HeapSize,     \* heap_size_ of the inner allocator
          Header,       \* sizeof(MpPage)
          ClassSizes,   \* the page sizes of the classes, ascending, headers included
          NumLanes,     \* ncpu_, the lanes of each class
          CounterMod,   \* 2^16: rr_alloc_ and rr_free_ are uint16_t
          Sizes,        \* the sizes callers ask for
          MaxHeapOff,   \* bound on heap_off_
          NoPage

NumCaches == Len(ClassSizes)
Lanes == 0..(NumLanes - 1)

ASSUME ScalableAssumption ==
  /\ RegionOff \in Nat \ {0} /\ HeapSize \in Nat /\ Header \in Nat \ {0}
  /\ ClassSizes \in Seq(Nat) /\ ClassSizes # <<>>
  /\ \A k \in 1..NumCaches : ClassSizes[k] >= Header
  /\ NumLanes \in Nat \ {0} /\ CounterMod \in Nat \ {0}
  /\ Sizes \subseteq Nat /\ MaxHeapOff \in Nat
  /\ NoPage \notin Nat

VARIABLES heap_off,           \* heap_off_ of the inner allocator
          total_alloc,        \* total_alloc_
          page,               \* the headers of all pages, by offset
          lists,              \* the free pages of each lane, head first
          rr_alloc, rr_free,  \* the counters of each class
          held,               \* the pages the callers own
          pc, size, lane,     \* each thread's step, size_mp and conc
          p,                  \* the page the thread has taken
          q                   \* the page the thread frees, now or after the copy

vars == <<heap_off, total_alloc, page, lists, rr_alloc, rr_free, held,
          pc, size, lane, p, q>>
shared == <<heap_off, total_alloc, page, lists, rr_alloc, rr_free, held>>

(* RoundUp: the class of a page and the size it is rounded up to.  Class    *)
(* NumCaches + 1 is the list of arbitrary pages.                            *)
ClassOf(n) ==
  IF \E k \in 1..NumCaches : n <= ClassSizes[k]
  THEN CHOOSE k \in 1..NumCaches :
         n <= ClassSizes[k] /\ \A j \in 1..(k - 1) : ClassSizes[j] < n
  ELSE NumCaches + 1
RoundUp(n) == IF ClassOf(n) <= NumCaches THEN ClassSizes[ClassOf(n)] ELSE n

Classes == 1..(NumCaches + 1)

Init ==
  /\ heap_off = RegionOff
  /\ total_alloc = 0
  /\ page = [r \in {} |-> 0]
  /\ lists = [k \in Classes |-> [l \in Lanes |-> <<>>]]
  /\ rr_alloc = [k \in Classes |-> 0]
  /\ rr_free = [k \in Classes |-> 0]
  /\ held = {}
  /\ pc = [t \in Threads |-> "idle"]
  /\ size = [t \in Threads |-> 0]
  /\ lane = [t \in Threads |-> 0]
  /\ p = [t \in Threads |-> NoPage]
  /\ q = [t \in Threads |-> NoPage]

Goto(t, label) == pc' = [pc EXCEPT ![t] = label]

Return(t) ==
  /\ Goto(t, "idle")
  /\ size' = [size EXCEPT ![t] = 0]
  /\ lane' = [lane EXCEPT ![t] = 0]
  /\ p' = [p EXCEPT ![t] = NoPage]
  /\ q' = [q EXCEPT ![t] = NoPage]

Listed == UNION {ToSet(lists[k][l]) : k \in Classes, l \in Lanes}

---------------------------------------------------------------------------
(* The calls.                                                               *)
AllocateBegin(t) ==
  /\ pc[t] = "idle"
  /\ \E n \in Sizes : size' = [size EXCEPT ![t] = RoundUp(n + Header)]
  /\ Goto(t, "pick")
  /\ UNCHANGED <<shared, lane, p, q>>

(* The new page is allocated first; callers of Reallocate grow.             *)
ReallocateBegin(t) ==
  /\ pc[t] = "idle"
  /\ \E r \in held, n \in Sizes :
       /\ RoundUp(n + Header) >= page[r].page_size
       /\ q' = [q EXCEPT ![t] = r]
       /\ size' = [size EXCEPT ![t] = RoundUp(n + Header)]
       /\ held' = held \ {r}
  /\ Goto(t, "pick")
  /\ UNCHANGED <<heap_off, total_alloc, page, lists, rr_alloc, rr_free, lane, p>>

(* FreeOffsetNoNullCheck, to the test of the flag, which only the owner of  *)
(* the page writes.                                                         *)
FreeBegin(t) ==
  /\ pc[t] = "idle"
  /\ \E r \in held :
       /\ page[r].allocated
       /\ q' = [q EXCEPT ![t] = r]
       /\ held' = held \ {r}
  /\ Goto(t, "unset")
  /\ UNCHANGED <<heap_off, total_alloc, page, lists, rr_alloc, rr_free, size, lane, p>>

(* DOUBLE_FREE: a caller frees, by mistake, a page that reads as free.  No  *)
(* caller of the model frees a page in a list that reads as allocated.      *)
ReportDoubleFree(t) ==
  /\ pc[t] = "idle"
  /\ \E r \in Listed : ~page[r].allocated
  /\ UNCHANGED vars

---------------------------------------------------------------------------
(* The free lists.                                                          *)

(* Bit 0 of the link of the i-th page of a list.                            *)
LinkBit(list, i) == i = Len(list) \/ list[i + 1] % 2 = 1

(* The headers when their pages are linked to a list.                       *)
Linked(headers, list) ==
  [r \in DOMAIN headers |->
     IF r \in ToSet(list)
     THEN [headers[r] EXCEPT
             !.allocated = LinkBit(list, CHOOSE i \in DOMAIN list : list[i] = r)]
     ELSE headers[r]]

(* CheckLocalCaches, up to the choice of the lane.                          *)
PickAllocLane(t) ==
  /\ pc[t] = "pick"
  /\ LET k == ClassOf(size[t])
     IN  /\ lane' = [lane EXCEPT ![t] = rr_alloc[k] % NumLanes]
         /\ rr_alloc' = [rr_alloc EXCEPT ![k] = (@ + 1) % CounterMod]
  /\ Goto(t, "search")
  /\ UNCHANGED <<heap_off, total_alloc, page, lists, rr_free, held, size, p, q>>

\* Faulty variant: the page is peeked, not dequeued.
TakeCachedPeek(t) ==
  /\ pc[t] = "search"
  /\ LET k == ClassOf(size[t])
         list == lists[k][lane[t]]
     IN  /\ k <= NumCaches /\ list # <<>>
         /\ p' = [p EXCEPT ![t] = Head(list)]
  /\ Goto(t, "count")
  /\ UNCHANGED <<shared, size, lane, q>>

(* The lane of a class: the first page of the list.                         *)
TakeCached(t) ==
  /\ pc[t] = "search"
  /\ LET k == ClassOf(size[t])
         list == lists[k][lane[t]]
     IN  /\ k <= NumCaches /\ list # <<>>
         /\ p' = [p EXCEPT ![t] = Head(list)]
         /\ lists' = [lists EXCEPT ![k][lane[t]] = Tail(list)]
  /\ Goto(t, "count")
  /\ UNCHANGED <<heap_off, total_alloc, page, rr_alloc, rr_free, held, size, lane, q>>

\* Faulty variant: the comparison is reversed.
FitsReversed(t, list) == {i \in DOMAIN list : page[list[i]].page_size <= size[t]}

Fits(t, list) == {i \in DOMAIN list : page[list[i]].page_size >= size[t]}

(* DividePage: the size that remains of a page makes a page of its own when *)
(* the smallest class would have it.                                        *)
Divisible(n) == n >= ClassSizes[1]

\* Faulty variant: the header of fit is taken for a part of the n bytes.
RemPageInsideFit(fit, n) == fit + n - Header

(* The page split off from fit behind n bytes.                              *)
RemPage(fit, n) == fit + n

(* FindFirstFit: the first page that is large enough leaves the list; the   *)
(* page split off becomes the head.                                         *)
TakeFirstFit(t) ==
  /\ pc[t] = "search"
  /\ LET k == ClassOf(size[t])
         list == lists[k][lane[t]]
         i == CHOOSE j \in Fits(t, list) : \A m \in Fits(t, list) : j <= m
         fit == list[i]
         rem == page[fit].page_size - size[t]
         rem_page == RemPage(fit, size[t])
         rest == RemoveAt(list, i)
     IN  /\ k > NumCaches /\ Fits(t, list) # {}
         /\ p' = [p EXCEPT ![t] = fit]
         /\ \/ /\ ~Divisible(rem)
               /\ lists' = [lists EXCEPT ![k][lane[t]] = rest]
               /\ page' = Linked(page, rest)
            \/ /\ Divisible(rem)
               /\ lists' = [lists EXCEPT ![k][lane[t]] = <<rem_page>> \o rest]
               /\ page' = Linked([r \in DOMAIN page \cup {rem_page} |->
                            IF r = rem_page THEN [allocated |-> FALSE, page_size |-> rem]
                            ELSE IF r = fit THEN [page[fit] EXCEPT !.page_size = size[t]]
                            ELSE page[r]], <<rem_page>> \o rest)
  /\ Goto(t, "count")
  /\ UNCHANGED <<heap_off, total_alloc, rr_alloc, rr_free, held, size, lane, q>>

(* nullptr: the lane has no page that fits.                                 *)
TakeNone(t) ==
  /\ pc[t] = "search"
  /\ LET k == ClassOf(size[t])
         list == lists[k][lane[t]]
     IN  IF k <= NumCaches THEN list = <<>> ELSE Fits(t, list) = {}
  /\ Goto(t, "heap")
  /\ UNCHANGED <<shared, size, lane, p, q>>

---------------------------------------------------------------------------
(* AllocateOffset, when no page was found.  The inner allocator adds a      *)
(* header to the size; the page begins at that header.                      *)
FromHeap(t) ==
  /\ pc[t] = "heap"
  /\ heap_off + size[t] + Header <= HeapSize
  /\ heap_off' = heap_off + size[t] + Header
  /\ p' = [p EXCEPT ![t] = heap_off]
  /\ page' = [r \in DOMAIN page \cup {heap_off} |->
                IF r = heap_off
                THEN [allocated |-> TRUE, page_size |-> size[t] + Header]
                ELSE page[r]]
  /\ Goto(t, "count")
  /\ UNCHANGED <<total_alloc, lists, rr_alloc, rr_free, held, size, lane, q>>

(* OUT_OF_MEMORY, thrown by the heap.                                       *)
HeapRefused(t) ==
  /\ pc[t] = "heap"
  /\ heap_off + size[t] + Header > HeapSize
  /\ heap_off + size[t] + Header <= MaxHeapOff
  /\ heap_off' = heap_off + size[t] + Header
  /\ held' = held \cup ({q[t]} \ {NoPage})
  /\ Return(t)
  /\ UNCHANGED <<total_alloc, page, lists, rr_alloc, rr_free>>

\* Faulty variant: the size is counted before it is set.
CountAllocStale(t) ==
  /\ pc[t] = "count"
  /\ total_alloc' = total_alloc + page[p[t]].page_size
  /\ page' = [page EXCEPT ![p[t]].page_size = size[t]]
  /\ Goto(t, "mark")
  /\ UNCHANGED <<heap_off, lists, rr_alloc, rr_free, held, size, lane, p, q>>

(* page_size_ is set to the rounded size and counted.                       *)
CountAlloc(t) ==
  /\ pc[t] = "count"
  /\ page' = [page EXCEPT ![p[t]].page_size = size[t]]
  /\ total_alloc' = total_alloc + size[t]
  /\ Goto(t, "mark")
  /\ UNCHANGED <<heap_off, lists, rr_alloc, rr_free, held, size, lane, p, q>>

(* SetAllocated; the page is returned, or the old page is copied to it.     *)
MarkAllocated(t) ==
  /\ pc[t] = "mark"
  /\ page' = [page EXCEPT ![p[t]].allocated = TRUE]
  /\ \/ /\ q[t] = NoPage
        /\ held' = held \cup {p[t]}
        /\ Return(t)
     \/ /\ q[t] # NoPage
        /\ Goto(t, "copy")
        /\ UNCHANGED <<held, size, lane, p, q>>
  /\ UNCHANGED <<heap_off, total_alloc, lists, rr_alloc, rr_free>>

---------------------------------------------------------------------------
(* The copy of a reallocation; then the old page is freed and passes the    *)
(* test of its flag.                                                        *)
Copy(t) ==
  /\ pc[t] = "copy"
  /\ page[q[t]].allocated
  /\ Goto(t, "unset")
  /\ UNCHANGED <<shared, size, lane, p, q>>

(* FreeOffsetNoNullCheck, behind the test.                                  *)
UnsetAllocated(t) ==
  /\ pc[t] = "unset"
  /\ page' = [page EXCEPT ![q[t]].allocated = FALSE]
  /\ Goto(t, "uncount")
  /\ UNCHANGED <<heap_off, total_alloc, lists, rr_alloc, rr_free, held, size, lane, p, q>>

UncountAlloc(t) ==
  /\ pc[t] = "uncount"
  /\ total_alloc' = total_alloc - page[q[t]].page_size
  /\ Goto(t, "pickFree")
  /\ UNCHANGED <<heap_off, page, lists, rr_alloc, rr_free, held, size, lane, p, q>>

PickFreeLane(t) ==
  /\ pc[t] = "pickFree"
  /\ LET k == ClassOf(page[q[t]].page_size)
     IN  /\ lane' = [lane EXCEPT ![t] = rr_free[k] % NumLanes]
         /\ rr_free' = [rr_free EXCEPT ![k] = (@ + 1) % CounterMod]
  /\ Goto(t, "enqueue")
  /\ UNCHANGED <<heap_off, total_alloc, page, lists, rr_alloc, held, size, p, q>>

(* The free is over; a reallocation returns the page it allocated.          *)
Enqueue(t) ==
  /\ pc[t] = "enqueue"
  /\ LET k == ClassOf(page[q[t]].page_size)
         list == <<q[t]>> \o lists[k][lane[t]]
     IN  /\ lists' = [lists EXCEPT ![k][lane[t]] = list]
         /\ page' = Linked(page, list)
  /\ held' = held \cup ({p[t]} \ {NoPage})
  /\ Return(t)
  /\ UNCHANGED <<heap_off, total_alloc, rr_alloc, rr_free>>

---------------------------------------------------------------------------
InAllocate(t) ==
  \/ AllocateBegin(t) \/ ReallocateBegin(t) \/ PickAllocLane(t)
  \/ TakeCached(t) \/ TakeFirstFit(t) \/ TakeNone(t)
  \/ FromHeap(t) \/ HeapRefused(t) \/ CountAlloc(t) \/ MarkAllocated(t)
  \/ Copy(t)

InFree(t) ==
  \/ FreeBegin(t) \/ ReportDoubleFree(t)
  \/ UnsetAllocated(t) \/ UncountAlloc(t) \/ PickFreeLane(t) \/ Enqueue(t)

Next == \E t \in Threads : InAllocate(t) \/ InFree(t)

Spec == Init /\ [][Next]_vars

---------------------------------------------------------------------------
TypeOK ==
  /\ heap_off \in Nat /\ total_alloc \in Int
  /\ DOMAIN page \subseteq Nat
  /\ page \in [DOMAIN page -> [allocated : BOOLEAN, page_size : Nat]]
  /\ lists \in [Classes -> [Lanes -> Seq(DOMAIN page)]]
  /\ rr_alloc \in [Classes -> 0..(CounterMod - 1)]
  /\ rr_free \in [Classes -> 0..(CounterMod - 1)]
  /\ held \subseteq DOMAIN page
  /\ pc \in [Threads -> {"idle", "pick", "search", "heap", "count", "mark", "copy",
                         "unset", "uncount", "pickFree", "enqueue"}]
  /\ size \in [Threads -> Nat] /\ lane \in [Threads -> Lanes]
  /\ p \in [Threads -> DOMAIN page \cup {NoPage}]
  /\ q \in [Threads -> DOMAIN page \cup {NoPage}]

(* Pages never overlap, although they are divided, put into lists as pages  *)
(* of another size and taken out again by other threads.                    *)
PagesSeparate ==
  \A r \in DOMAIN page :
    /\ RegionOff <= r /\ r + page[r].page_size <= HeapSize
    /\ \A s \in DOMAIN page : r < s => r + page[r].page_size <= s

(* A page is in one place: owned by the callers, worked on by one thread or *)
(* in one lane, in the list of its class, once.                             *)
Positions(r) ==
  UNION {{<<k, l, i>> : i \in {j \in DOMAIN lists[k][l] : lists[k][l][j] = r}} :
           k \in Classes, l \in Lanes}

Places(r) ==
  (IF r \in held THEN 1 ELSE 0)
  + Cardinality({t \in Threads : p[t] = r})
  + Cardinality({t \in Threads : q[t] = r})
  + Cardinality(Positions(r))

PageInOnePlace ==
  /\ \A r \in DOMAIN page : Places(r) = 1
  /\ \A k \in 1..NumCaches, l \in Lanes :
       \A i \in DOMAIN lists[k][l] :
         page[lists[k][l][i]].page_size = ClassSizes[k]

Counted(r) ==
  \/ r \in held
  \/ \E t \in Threads : p[t] = r /\ pc[t] # "count"
  \/ \E t \in Threads : q[t] = r /\ pc[t] \notin {"pickFree", "enqueue"}

(* GetCurrentlyAllocatedSize is exact although page_size_ is overwritten    *)
(* when a page is taken from the heap or divided.                           *)
AccountingExact ==
  total_alloc = FoldFunctionOnSet(LAMBDA h, sum : h.page_size + sum, 0, page,
                                  {r \in DOMAIN page : Counted(r)})

---------------------------------------------------------------------------
(* Callers use a page from the moment it is returned, or is copied to, to   *)
(* the moment its free begins.                                              *)
Keeps(t, r) ==
  \/ p[t] = r /\ pc[t] \in {"copy", "unset", "uncount", "pickFree", "enqueue"}
  \/ q[t] = r /\ pc[t] \in {"pick", "search", "heap", "count", "mark", "copy"}

Used == {r \in DOMAIN page : r \in held \/ \E t \in Threads : Keeps(t, r)}

Promise == INSTANCE AbstractAllocator WITH
             RegionBegin <- RegionOff + Header, RegionEnd <- HeapSize,
             used <- {[off |-> r + Header, size |-> page[r].page_size - Header]
                        : r \in Used}

(* Callers see an allocator that never hands out a byte twice.              *)
ImplementsAllocator == Promise!Spec
=============================================================================

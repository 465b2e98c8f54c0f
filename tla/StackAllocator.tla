---------------------------- MODULE StackAllocator ----------------------------
(***************************************************************************)
(* StackAllocator and the HeapAllocator under it, called by several threads *)
(* (or processes attached to the same memory).  A page is an MpPage header  *)
(* followed by the bytes the caller asked for; pages are cut off the heap   *)
(* with one fetch_add and are never used again after they are freed.  A     *)
(* page is named by the offset of its header.                               *)
(*                                                                          *)
(* Sizes are bytes.  heap_off_ is unbounded in the model up to MaxHeapOff,  *)
(* since requests the heap refuses move it as well.                         *)
(***************************************************************************)
EXTENDS Integers, FiniteSets, Functions, FiniteSetsExt

CONSTANTS Threads,
          RegionOff,    \* where the heap starts, behind the allocator's header
          HeapSize,     \* heap_size_, the value the heap is configured with
          Header,       \* sizeof(MpPage)
          Sizes,        \* the sizes callers ask for
          CanShrink,    \* may a page be reallocated to a smaller size?
          MaxHeapOff,   \* bound on heap_off_
          NoPage

ASSUME StackAssumption ==
  /\ RegionOff \in Nat \ {0} /\ HeapSize \in Nat /\ Header \in Nat \ {0}
  /\ Sizes \subseteq Nat
  /\ CanShrink \in BOOLEAN /\ MaxHeapOff \in Nat /\ NoPage \notin Nat

VARIABLES heap_off,     \* heap_off_
          total_alloc,  \* total_alloc_
          page,         \* the headers written so far, by offset
          held,         \* the pages the callers own and may free or reallocate
          pc, size,     \* each thread's next step; the size of the page it wants
          p,            \* the page the thread has taken from the heap
          q             \* the page the thread frees, now or after the copy

vars == <<heap_off, total_alloc, page, held, pc, size, p, q>>
local == <<pc, size, p, q>>

Headers == [allocated : BOOLEAN, page_size : Nat]
Payload(r) == page[r].page_size - Header

Init ==
  /\ heap_off = RegionOff
  /\ total_alloc = 0
  /\ page = [r \in {} |-> 0]
  /\ held = {}
  /\ pc = [t \in Threads |-> "idle"]
  /\ size = [t \in Threads |-> 0]
  /\ p = [t \in Threads |-> NoPage]
  /\ q = [t \in Threads |-> NoPage]

Goto(t, label) == pc' = [pc EXCEPT ![t] = label]

(* The call returns or throws: the thread keeps none of its locals.         *)
Return(t) ==
  /\ Goto(t, "idle")
  /\ size' = [size EXCEPT ![t] = 0]
  /\ p' = [p EXCEPT ![t] = NoPage]
  /\ q' = [q EXCEPT ![t] = NoPage]

---------------------------------------------------------------------------
(* The calls.                                                               *)
AllocateBegin(t) ==
  /\ pc[t] = "idle"
  /\ \E n \in Sizes : size' = [size EXCEPT ![t] = n + Header]
  /\ Goto(t, "reserve")
  /\ UNCHANGED <<heap_off, total_alloc, page, held, p, q>>

ReallocateBegin(t) ==
  /\ pc[t] = "idle"
  /\ \E r \in held, n \in Sizes :
       /\ CanShrink \/ n >= Payload(r)
       /\ q' = [q EXCEPT ![t] = r]
       /\ size' = [size EXCEPT ![t] = n + Header]
       /\ held' = held \ {r}
  /\ Goto(t, "reserve")
  /\ UNCHANGED <<heap_off, total_alloc, page, p>>

InUse(r) == r \in held \/ \E u \in Threads : p[u] = r \/ q[u] = r

(* A caller frees a page it owns or, by mistake, one whose free is over.    *)
FreeBegin(t) ==
  /\ pc[t] = "idle"
  /\ \E r \in DOMAIN page :
       /\ r \in held \/ ~InUse(r)
       /\ q' = [q EXCEPT ![t] = r]
       /\ held' = held \ {r}
  /\ Goto(t, "check")
  /\ UNCHANGED <<heap_off, total_alloc, page, size, p>>

---------------------------------------------------------------------------
\* Faulty variant: only the start of the page is compared with the heap's size.
ReserveGrantedStart(t) ==
  /\ pc[t] = "reserve"
  /\ heap_off < HeapSize
  /\ heap_off' = heap_off + size[t]
  /\ p' = [p EXCEPT ![t] = heap_off]
  /\ Goto(t, "mark")
  /\ UNCHANGED <<total_alloc, page, held, size, q>>

\* Faulty variant: heap_off_ moves by the bytes asked for, without the header.
ReserveGrantedNoHeader(t) ==
  /\ pc[t] = "reserve"
  /\ heap_off + size[t] <= HeapSize
  /\ heap_off' = heap_off + size[t] - Header
  /\ p' = [p EXCEPT ![t] = heap_off]
  /\ Goto(t, "mark")
  /\ UNCHANGED <<total_alloc, page, held, size, q>>

(* AllocateOffset.  The fetch_add moves heap_off_ before the test, so a     *)
(* request that is refused keeps the bytes it asked for.                    *)
ReserveGranted(t) ==
  /\ pc[t] = "reserve"
  /\ heap_off + size[t] <= HeapSize
  /\ heap_off' = heap_off + size[t]
  /\ p' = [p EXCEPT ![t] = heap_off]
  /\ Goto(t, "mark")
  /\ UNCHANGED <<total_alloc, page, held, size, q>>

\* Faulty variant: a refused Allocate gives the caller the null pointer as a page.
ReserveRefusedNull(t) ==
  /\ pc[t] = "reserve"
  /\ heap_off + size[t] > HeapSize
  /\ heap_off + size[t] <= MaxHeapOff
  /\ heap_off' = heap_off + size[t]
  /\ held' = held \cup {q[t]}
  /\ Return(t)
  /\ UNCHANGED <<total_alloc, page>>

(* OUT_OF_MEMORY.  The caller of Reallocate still owns the old page.        *)
ReserveRefused(t) ==
  /\ pc[t] = "reserve"
  /\ heap_off + size[t] > HeapSize
  /\ heap_off + size[t] <= MaxHeapOff
  /\ heap_off' = heap_off + size[t]
  /\ held' = held \cup ({q[t]} \ {NoPage})
  /\ Return(t)
  /\ UNCHANGED <<total_alloc, page>>

MarkHeader(t) ==
  /\ pc[t] = "mark"
  /\ page' = [r \in DOMAIN page \cup {p[t]} |->
                IF r = p[t] THEN [allocated |-> TRUE, page_size |-> size[t]]
                            ELSE page[r]]
  /\ Goto(t, "count")
  /\ UNCHANGED <<heap_off, total_alloc, held, size, p, q>>

\* Faulty variant: the header's bytes are not counted.
CountPagePayload(t) == total_alloc' = total_alloc + Payload(p[t])

CountPage(t) == total_alloc' = total_alloc + page[p[t]].page_size

CountAlloc(t) ==
  /\ pc[t] = "count"
  /\ CountPage(t)
  /\ \/ /\ q[t] = NoPage
        /\ held' = held \cup {p[t]}
        /\ Return(t)
     \/ /\ q[t] # NoPage
        /\ Goto(t, "copy")
        /\ UNCHANGED <<held, size, p, q>>
  /\ UNCHANGED <<heap_off, page>>

(* ReallocateOffsetNoNullCheck copies the bytes of the old page, all of     *)
(* them, and frees it.                                                      *)
Copy(t) ==
  /\ pc[t] = "copy"
  /\ Goto(t, "check")
  /\ UNCHANGED <<heap_off, total_alloc, page, held, size, p, q>>

---------------------------------------------------------------------------
(* FreeOffsetNoNullCheck.                                                   *)
CheckAllocated(t) ==
  /\ pc[t] = "check"
  /\ page[q[t]].allocated
  /\ Goto(t, "unset")
  /\ UNCHANGED <<heap_off, total_alloc, page, held, size, p, q>>

(* DOUBLE_FREE.                                                             *)
ReportDoubleFree(t) ==
  /\ pc[t] = "check"
  /\ ~page[q[t]].allocated
  /\ Return(t)
  /\ UNCHANGED <<heap_off, total_alloc, page, held>>

UnsetAllocated(t) ==
  /\ pc[t] = "unset"
  /\ page' = [page EXCEPT ![q[t]].allocated = FALSE]
  /\ Goto(t, "uncount")
  /\ UNCHANGED <<heap_off, total_alloc, held, size, p, q>>

(* The free is over; a reallocation returns the page it allocated.          *)
UncountAlloc(t) ==
  /\ pc[t] = "uncount"
  /\ total_alloc' = total_alloc - page[q[t]].page_size
  /\ held' = held \cup ({p[t]} \ {NoPage})
  /\ Return(t)
  /\ UNCHANGED <<heap_off, page>>

---------------------------------------------------------------------------
Step(t) ==
  \/ AllocateBegin(t) \/ ReallocateBegin(t) \/ FreeBegin(t)
  \/ ReserveGranted(t) \/ ReserveRefused(t) \/ MarkHeader(t) \/ CountAlloc(t)
  \/ Copy(t)
  \/ CheckAllocated(t) \/ ReportDoubleFree(t) \/ UnsetAllocated(t) \/ UncountAlloc(t)

Next == \E t \in Threads : Step(t)

Spec == Init /\ [][Next]_vars

---------------------------------------------------------------------------
TypeOK ==
  /\ heap_off \in Nat /\ total_alloc \in Int
  /\ DOMAIN page \subseteq Nat /\ page \in [DOMAIN page -> Headers]
  /\ held \subseteq DOMAIN page
  /\ pc \in [Threads -> {"idle", "reserve", "mark", "count", "copy", "check",
                         "unset", "uncount"}]
  /\ size \in [Threads -> Nat]
  /\ p \in [Threads -> Nat \cup {NoPage}]
  /\ q \in [Threads -> Nat \cup {NoPage}]

(* Every page whose header is or will be written: <<offset, size>>.         *)
Extents ==
  {<<r, page[r].page_size>> : r \in DOMAIN page} \cup
  {<<p[t], size[t]>> : t \in {u \in Threads : pc[u] = "mark"}}

(* Two threads never get overlapping pages, headers included, whatever the  *)
(* order of their fetch_adds, and no page reaches behind the heap: no       *)
(* header that AllocateOffset writes falls on a page another thread uses.   *)
PagesSeparate ==
  /\ \A e \in Extents : RegionOff <= e[1] /\ e[1] + e[2] <= HeapSize
  /\ \A e, f \in Extents : e[1] < f[1] => e[1] + e[2] <= f[1]
  /\ \A t, u \in Threads : pc[t] = "mark" =>
       /\ p[t] \notin DOMAIN page
       /\ pc[u] = "mark" /\ p[t] = p[u] => t = u

Counted(r) ==
  \/ page[r].allocated /\ ~\E t \in Threads : pc[t] = "count" /\ p[t] = r
  \/ \E t \in Threads : pc[t] = "uncount" /\ q[t] = r

(* GetCurrentlyAllocatedSize, the leak check of every test, is exact at     *)
(* every moment: total_alloc_ is the size of the pages whose allocation     *)
(* has counted them and whose free has not yet, also when a page is freed   *)
(* twice and when a reallocation is refused half way.                       *)
AccountingExact ==
  total_alloc = FoldFunctionOnSet(LAMBDA h, sum : h.page_size + sum, 0, page,
                                  {r \in DOMAIN page : Counted(r)})

(* The memcpy of a reallocation writes inside the new page.                 *)
CopyStaysInside ==
  \A t \in Threads : pc[t] = "copy" => Payload(q[t]) <= Payload(p[t])

(* The heap refuses a request only when the bytes behind the last page it   *)
(* granted are too few.                                                     *)
FreshBytes == HeapSize - Max({RegionOff} \cup {e[1] + e[2] : e \in Extents})
RefusedOnlyWhenFull ==
  [][\A t \in Threads : ReserveRefused(t) => FreshBytes < size[t]]_vars

---------------------------------------------------------------------------
(* A page is in use from the moment it is returned, or is copied to by a    *)
(* reallocation, to the moment the free of it begins.                       *)
Keeps(t, r) ==
  \/ p[t] = r /\ pc[t] \in {"copy", "check", "unset", "uncount"}
  \/ q[t] = r /\ pc[t] \in {"reserve", "mark", "count", "copy"}

Used == {r \in DOMAIN page : r \in held \/ \E t \in Threads : Keeps(t, r)}

Promise == INSTANCE AbstractAllocator WITH
             RegionBegin <- RegionOff + Header, RegionEnd <- HeapSize,
             used <- {[off |-> r + Header, size |-> Payload(r)] : r \in Used}

(* Whatever the threads do, callers see an allocator that hands out blocks  *)
(* inside its region that no other caller uses, and takes back each once.   *)
ImplementsAllocator == Promise!Spec
=============================================================================

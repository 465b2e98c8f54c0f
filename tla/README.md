# hermes_shm in TLA+

hermes_shm is a C++ library of data structures that live in shared memory:
several processes map the same segment, allocate in it, and use the locks,
queues and containers they find there. This directory holds a TLA+ model of the
library's core, the TLC configurations that check it on small instances, and
theorems about it that TLAPS proves for instances of any size. Paths below are
relative to `src/`; "`ipc/`" is `include/hermes_shm/data_structures/ipc/`,
"`containers/`" is `include/hermes_shm/data_structures/containers/`, "`memory/`"
is `include/hermes_shm/memory/`.

Run a check with `tlc -config MCMutex.cfg MCMutex`, a proof with
`tlapm RwLockProofs.tla`. `PROJECT.json` maps each definition to the source lines
it stands for and lists the runs, the faulty variants ("mutants") each property
is tested against, the findings, the hazards and the theorems.

## 1. Inventory

### The parts, their state and their operations

| part | source | state | operations |
|---|---|---|---|
| Mutex | `thread/lock/mutex.h` | `lock_`, a 32-bit atomic; each `ScopedMutex` has `is_locked_` | Lock, TryLock, Unlock; constructor and destructor of the guard |
| RwLock | `thread/lock/rwlock.h` | `readers_`, `writers_`, `ticket_`, `mode_`, `cur_writer_`, all atomics; each guard has `is_locked_` | ReadLock, WriteLock, ReadUnlock, WriteUnlock, UpdateMode; two guards |
| mpsc_queue | `ipc/mpsc_queue.h` | a vector of (flag, value), atomics `head_`, `tail_` | emplace, pop, peek, GetSize; assignment, destruction |
| mpsc_ptr_queue | `ipc/mpsc_ptr_queue.h` | the same with the flag in the top bit of the value | the same |
| spsc_queue | `ipc/spsc_queue.h`, `containers/spsc_queue.h` | a vector, plain `head_`, `tail_` | emplace, pop, Resize (private one); assignment, destruction |
| ticket_queue, ticket_stack | `ipc/ticket_queue.h`, `ipc/ticket_stack.h` | an spsc_queue and a Mutex | emplace, pop; assignment, destruction |
| split_ticket_queue | `ipc/split_ticket_queue.h` | a vector of ticket queues, 16-bit counters | emplace, pop |
| HeapAllocator | `memory/allocator/heap.h` | `heap_off_`, `heap_size_` | AllocateOffset |
| StackAllocator | `memory/allocator/stack_allocator.h`, `src/memory/stack_allocator.cc` | a heap, `total_alloc_`, a header before each page | AllocateOffset, Reallocate, Free |
| ScalablePageAllocator | `memory/allocator/scalable_page_allocator.h`, `src/memory/scalable_page_allocator.cc` | a heap, free lists by size class and lane with a Mutex each, two counters per class | the same three |
| Allocator front end | `memory/allocator/allocator.h` | the block, the process's address and the size in an LArray or LPointer | allocate, reallocate, free of pointers, arrays, objects; convert |
| registry and manager | `memory/memory_registry.h`, `memory/memory_manager.h` | each process's backends, allocator table and default allocator | create, attach, scan, register, unregister, destroy, convert |
| backends | `memory/backend/` | a mapped segment, its header, an ownership flag | init, attach, detach, destroy |
| iqueue | `ipc/iqueue.h` | a head and a length, links inside the entries | enqueue, dequeue, peek, clear, move |
| list, slist | `ipc/list.h`, `ipc/slist.h` | head, tail, length, links | emplace, erase, iterate, copy, move |
| vector, pair, string, charbuf | `ipc/vector.h`, `ipc/string.h`, `containers/charbuf.h` | a buffer, a length, a maximum; the short form of a string | emplace, erase, replace, resize, copy, move |
| unordered_map | `ipc/unordered_map.h` | a vector of slists of pairs, a length | emplace, find, erase, iterate, copy, move |
| smart pointers | `smart_ptr/`, `ipc/internal/` | a pointer and a flag of ownership | construct, copy, serialize, move, destroy |

The remaining parts (parsing, formatting, logging, timers, compression,
encryption, serialization, singletons, the choice of a thread model, bit masks,
benchmarks) are glue around these; `PROJECT.json` lists each with the reason it
has no module.

### How they interact

All of them share memory; there are no messages. A container keeps offsets into
the segment of its allocator and reaches the allocator through the registry of
its process. ticket_queue runs the ring of spsc_queue under a Mutex,
split_ticket_queue spreads its calls over several ticket queues, unordered_map is
a vector of slists, ScalablePageAllocator takes new pages from a heap and keeps
its free pages in iqueues under Mutexes. Locks, queues and allocators may be
called by any thread of any attached process at any moment, and each atomic
access is an instant at which the others may come in between. The containers are
not thread safe: their callers make one call at a time, and what is hard about
them is a long sequence of legal calls. The registries are private to a process
and meet in the name space of shared memory, where a process may crash.

### What is hard, and what correctness means

| part | hard behaviour | correct when |
|---|---|---|
| Mutex | losers of the fetch_add race hold a unit of the word for a moment; guards unlocked twice or not at all | one owner at a time; the word counts exactly the units to be taken back; the lock is not left free while threads want it |
| RwLock | mode, counter and exchange are three instants; the turn is narrower than the ticket; spurious exchange failures | writers alone and in ticket order, readers not beside writers, exact counters, every call returns |
| mpsc_queue | entries are reserved in one order and filled in another; a full ring; value and flag are plain memory | in ticket order, complete, once; nobody waits for ever |
| spsc_queue | plain memory between threads; the ring that wraps; Resize | a bounded FIFO |
| ticket queues | refusals must unlock; the walk over the splits is not atomic | a bounded FIFO per split; a refusal only when it is due; every ticket comes out |
| allocators | bytes are cut off, marked and counted in separate steps by several threads; refused requests; double frees; pages that are divided and change size | pages never overlap and stay inside; a page is in one place; the count is exact; callers see blocks nobody else uses |
| registry, backends | names that change hands, attachment and repeated scans, destruction while others are attached, crashes | a registry leads to memory that is mapped and its own; names have owners; a pointer means the same everywhere |
| containers | growth and shifting that move elements; first, last and only entries; copies and moves across allocators; memory that changes owner | nothing leaks or has two owners; headers agree with the memory; callers see a sequence or a map |
| unordered_map | an iteration that goes on while other calls change the map | what stays is visited, and once |

The hazards list in `PROJECT.json` places each of these at its line.

## 2. The modules

Every module takes its actors as sets, and bounds and widths as CONSTANTS with a
named ASSUME, and states its properties at its end. In the concurrent modules an
action is one access another thread can observe; steps a thread takes on its own
memory are joined to the step before or after. In the containers a call is one
action.

| module | models | composes |
|---|---|---|
| `AbstractLock` | what a mutex promises | |
| `Mutex` | mutex.h with the guard's calls | implements AbstractLock |
| `RwLock` | rwlock.h with both guards | |
| `TicketFifo` | a queue whose places are reserved in order and become ready in any order | |
| `MpscQueue` | mpsc_queue | implements TicketFifo |
| `BoundedFifo` | a queue with a capacity | |
| `SpscQueue` | spsc_queue with plain memory, private Resize | implements BoundedFifo |
| `TicketQueue` | ticket_queue, ticket_stack | SpscQueue under AbstractLock, implements BoundedFifo |
| `SplitTicketQueue` | split_ticket_queue | splits are BoundedFifos, with atomic operations |
| `AbstractAllocator` | blocks in use, disjoint and inside a region | |
| `StackAllocator` | heap.h and stack_allocator | implements AbstractAllocator |
| `ScalablePageAllocator` | scalable_page_allocator, its iqueues, and the heap under it | implements AbstractAllocator |
| `AbstractSequences`, `AbstractMap` | what sequence containers and maps promise | |
| `LinkedCells` | allocated entries with links | |
| `List`, `SList`, `IQueue` | list, slist, iqueue | LinkedCells |
| `LinkedLists` | the three of them as kinds | List, SList, IQueue |
| `HeapBlocks` | allocated blocks of slots | |
| `Vector`, `ShmString`, `CharBuf` | vector (with pair as an element that owns or does not own memory), string, charbuf | HeapBlocks |
| `Objects` | arrays and objects of the allocator front end; managed, unique and archived pointers | HeapBlocks |
| `QueueObjects` | the queues as objects: construction, assignment, destruction | HeapBlocks |
| `Buffers` | these as kinds | the four above |
| `UnorderedMap` | unordered_map and its iterators | buckets are the sequences SList implements |
| `Containers` | all the data structures | LinkedLists, Buffers, UnorderedMap; implements AbstractSequences and AbstractMap |
| `MemoryManager` | manager, registries, backends, ids and pointers of several processes | |

`MC<module>` holds the sets a `.cfg` assigns to constants; `<module>Proofs`
extends the module with its inductive invariant, lemmas and theorems (those of
Mutex, SplitTicketQueue and MemoryManager, which have no names in common, are
together in `SharedStateProofs`; those of the containers in `VectorProofs` and
`ContainersProofs`). A comment
"Faulty variant" marks an operator that no specification uses: it is the form a
plausible bug would give the next definition, and the property it is listed with
is violated when it takes that definition's place.

**Mutex.** `pc[t]` is the place of thread t in Lock, TryLock or Unlock. TryLock
is three instants: the load that must see 0 (`TryLockLoad`), the fetch_add
(`TryLockAdd`), and, if another thread was faster, the fetch_sub (`TryLockUndo`).
`Construct`, `CallLock`, `CallTryLock`, `CallUnlock` and `Destruct` are the
guard; `is_locked_` decides whether its destructor unlocks. `LockMod` stands for
2^32.

**RwLock.** ReadLock and WriteLock are loops around UpdateMode; each of its three
accesses (mode, counter, exchange) is an action, and `mode[t]` is the local
variable that the exchange writes when it fails. `SpuriousCAS` lets
compare_exchange_weak fail without a reason. `CurMod` is the width of
`cur_writer_`, against tickets that do not wrap.

**MpscQueue.** `TakeTicket` is tail_.fetch_add; a producer that finds the ring
full waits in `WaitForSpace` with the ticket in hand, as the code does.
`PrepareEntry`, `StoreValue` and `SetFlag` write the entry. The build is chosen
once, by the variable `in_order` among `Builds`: where it is FALSE the flag may be
visible before the value. The consumer's
pop and peek share the emptiness test and the flag test; pop then moves the
value, clears the flag and advances the head in three steps. `log` and `popped`
are histories; the refinement maps the window between head and tail to the places
of TicketFifo, ready when no producer holds the ticket any more.

**SpscQueue.** Every access of `head_`, `tail_` and an entry is an action. The
build is chosen once, by the variable `in_order`: where it is FALSE the accesses
of the entry and of the index may be exchanged; `tail_ += 1` may use the value
loaded earlier in either. Without a promise from the language, only a build that
keeps the order makes the ring a FIFO, and that is what `ImplementsFifo` says.
`Resize` is the private queue's, called while nobody else is inside. `entered`
is the values taken in; a Resize cuts off its newest ones, as many as there are
beyond the room of the new ring, whatever the ring itself has kept, so that
`NothingLost` notices a Resize that loses, repeats or exchanges a value.

**TicketQueue** extends SpscQueue by the lock: `Acquire`, the ring's steps,
`Release`. The ring runs in builds of either kind, since under the mutex no order
inside the critical section matters; the lock is the abstract one that Mutex is
proved to implement. `content` and `out` record the queue at each Unlock.

**SplitTicketQueue.** A walk over the splits is one action per split, so that
other threads come in between. `old[t]` is a history variable: what has been
there during the whole call, which a refusal is held against. The counters start
anywhere because the private constructor does not set them. `EntersSplit(s)` is
whichever caller gets the lock of split s next.

**StackAllocator.** `ReserveGranted` and `ReserveRefused` are the fetch_add of
heap.h, which moves `heap_off_` in both cases; `MarkHeader`, `CountAlloc`, `Copy`,
`CheckAllocated`, `UnsetAllocated`, `UncountAlloc` are the statements behind it.
A reallocation is an allocation with `q[t]` set, followed by the copy and the
free of `q[t]`. Callers free what they own, and by mistake what has been freed
before and is not being worked on.

**ScalablePageAllocator.** Class k of `lists` is the k-th cached size, the last
one holds pages of any size. An allocation picks a lane by `rr_alloc`, looks in
it (`TakeCached`, `TakeFirstFit` with the division of the page, `TakeNone`), and
goes to the heap only from `TakeNone`. What happens under a lane's mutex is one
action: Mutex shows that nobody else is in there, and neither the list nor the
pages in it are touched elsewhere. `Linked` is the effect of linking on the page
headers: the link lies on the flags, so that a page in a list reads as allocated
exactly when its link is odd or null. Pages from the heap carry two headers (the
heap's own and the page's), which is why they take `size + Header`.

**The data structures.** `store` is a record with the memory (entries and their
links in `LinkedCells`, blocks of slots in `HeapBlocks`), the set of what is
allocated (`live`) and the headers of the objects. Every operation of the code is
an operator from stores to stores, composed as the functions call each other:
`Vector!Emplace` is `MakeRoom` (`GrowVector` with `Growth`, `MoveArray`),
`ShiftRight`, `MakeAr`. The calls at the end of each module are the actions. What
was never written, or lies in memory that was given back, reads as `Raw` (or
`Null` in entries): a container that looks at it is found out. An allocation
returns the free block with the least number. Which one makes no difference, so
that TLC tells states apart after blocks are renamed by the order in which headers
refer to them (`View` in `MCContainers`). Loops whose number of rounds is data
(the elements a growth, an erasure or a copy touches) are recursive functions
over the rounds. Each object has an allocator, so
that copies and moves run within one and across two. `kind` chooses what the
objects of a behaviour are: list, slist, iqueue, vector of values, vector of
containers that own a block each, string, charbuf, arrays and managed pointers of
the allocator, queue, queue with marks, unordered_map. In `UnorderedMap` the
buckets are sequences (what SList is shown to implement), and their array is a
block (`array`, of the blocks in `live`), which a move hands over and destruction
frees. `Renew` is the end of a map and the construction of another in its place.
An iteration is many steps, between which other calls change the map; `stayed`,
`seen`, `again` and `moved` are its history.

**MemoryManager.** `names` is the name space of shared memory (a name leads to a
segment), `inside[g]` the id in the allocator header at the begin of segment g;
`backends`, `table` and `default` are each process's registry. A
ScalablePageAllocator (`PageIds`) takes two places of the table: making its object
also registers the StackAllocator inside of it (`Embedded`) under the next minor
number, and nothing ever clears that place. `RegisterAll` is ScanBackends' loop:
it registers every allocator it finds, those that are registered already too, in
the order of an unordered_map. `Crash` empties a
registry and leaves the names. `sent` is a Pointer on its way from one process to
another. `ToIndex` is the code's `major * 4 + minor`.

## 3. The runs

Bounds that are not in the code appear as constants named `Max...` or as moduli,
and only in guards of the calls' first steps; in the data structures also as the
number of entries and blocks there are.

| run | instance | shows |
|---|---|---|
| `mutex` | 4 threads, word of 4 bits | TypeOK, MutualExclusion, WordCountsClaims, LockNotLeftFree, ImplementsAbstractLock |
| `mpsc_queue` | 3 producers, 1 consumer, 1 observer, 2 entries, 3 emplaces, 2 values, stores in order | TypeOK, EntryExclusive, DeliveredInOrder, MarkedIsPrepared, SizeNeverOverstated, ImplementsTicketFifo |
| `mpsc_reordered` | 2 producers, 1 entry, 3 emplaces of one value, either order of stores | EmplaceReturns, EveryEntryDelivered |
| `rwlock` | 3 threads, 4 calls, spurious failures | TypeOK, WriterExclusion, WritersInTicketOrder, CountersExact, EveryCallReturns |
| `rwlock_reader_writer` | 2 threads, 3 calls | *violation* of ReaderWriterExclusion |
| `rings` | 1 producer and 1 consumer without a lock, 3 threads and 5 calls with it, rings of 0, 1, 2 entries, 4 emplaces, resizing, either build | NothingLost, ImplementsFifo, ImplementsTicketedFifo, EveryCallReturns |
| `split_queue` | 2 producers, 2 consumers, 2 splits of one entry, counters mod 3, 3 tickets | EveryTicketOnce, RefusalIsJustified, EveryTicketPopped |
| `stack_allocator` | 3 threads, 8 bytes, requests of 1 and 2 | TypeOK, PagesSeparate, AccountingExact, ImplementsAllocator |
| `page_allocator` | 2 threads, 14 bytes, one class and large pages, 2 lanes, counters mod 3 | PagesSeparate, PageInOnePlace, AccountingExact, ImplementsAllocator |
| `containers` | 2 objects, 2 values, 2 allocators, 4 entries or 12 blocks, lengths to 3, keys 0, 2, 3 in 1 or 3 buckets | OwnedOnce, HeadersAgree, ImplementsContents, IterationComplete |
| `memory` | 2 processes, 2 names and a private url, 2 ids, one of a page allocator, 3 segments, crashes | RegistryAlive, NamesOwned, PointersAgree |
| `memory_convert` | the same with Convert(ptr) and no private url | *violation* of PointersAgree |

Why the bounds are enough. A race of Mutex needs an owner, a loser that holds a
unit, and somebody who tries in between; four threads give each of them company.
In RwLock every rule is about a reader, a writer and one more of either kind.
The rings are shorter than the number of producers, so that tickets are taken
while the ring is full and each entry is used more than once; the counters of the
split queue and the page allocator are not multiples of the number of splits and
lanes, so that they wrap out of step. The heaps run out: the runs reach refused
allocations and refused reallocations, on an empty and on a full heap. In the
page allocator's instance a page of 9 bytes (one heap page) is divided by a
request of 4 into pages of 4 and 5 bytes, and the page of 5 is later handed out
for 4 with a remainder too small to be a page. Containers of three entries have a
first, a middle and a last one; vectors grow from nothing and again; strings of
length 0 to 3 around a short form of one byte lie on both sides of its boundary;
queues go round twice; in one bucket all keys collide, in three two do, one is
alone and one bucket is empty. The three segments of the memory manager are fewer
than its processes could map, so that memory is reused while stale names,
orphans and pointers are around.

TLC checks deadlock in all runs but three. `CHECK_DEADLOCK FALSE` stands where the
system stops at a bound: the threads of `rings` have used up `MaxCalls` and are
outside, and the allocators refuse no further request when `heap_off_` has
reached `MaxHeapOff`. `SYMMETRY` is used only in runs without liveness
properties, over actors and values that the module does not distinguish.

### Fairness

* `Mutex`: WF on the steps inside a call. A preempted thread is scheduled again
  and Yield returns; nothing forces a thread to call or to unlock. Lock itself is
  not starvation free, and the property does not say that it is.
* `RwLock`: WF on the steps inside a call and on Unlock (critical sections end),
  and SF on an exchange that changes the mode: an exchange that finds its value
  again and again does not fail spuriously every time. The calls are finitely
  many, as in `test/unit/thread/test_lock.cc`; with readers that never stop a
  writer may wait for ever, and no property denies it.
* `MpscQueue`: WF on the steps inside a call; SF on the beginning of pop, since
  the consumer may peek between two pops but keeps polling.
* `TicketQueue`: WF inside the critical section, WF on the acquisition by
  anybody, which is what `LockNotLeftFree` of Mutex gives. `Stalled` names
  threads that get no fairness; it is empty in the run.
* `SplitTicketQueue`: WF on each consumer's beginning of pop, since consumers
  poll (the loops of `test/unit/data_structures`), and for each split WF on
  somebody getting its lock, which is `LockNotLeftFree` of Mutex again. Which of
  the callers at a split gets it is open: any one of them may starve. Hence
  `EveryTicketPopped` speaks of the time after the last emplace, when whoever gets
  in is a consumer; producers that still compete may keep all consumers out.
* Allocators, containers and the memory manager have no liveness property: their
  calls end by themselves and nothing waits for anything.

### What the violations show

* **Reader beside writer** (`rwlock_reader_writer`, `thread/lock/rwlock.h:155`).
  UpdateMode loads the mode kRead and then a reader count of 0. Before its
  compare_exchange another reader counts itself in and enters because the mode is
  kRead. The exchange compares the mode only, resets it under that reader, and a
  writer enters beside it.
* **An object of the wrong allocator** (`memory_convert`,
  `memory/allocator/allocator.h:886`). ContainsPtr asks whether an address lies
  behind the begin of an allocator's memory, not whether it lies before its end.
  Convert(ptr) takes the first allocator of the table that says yes, and puts its
  id and an offset beyond its memory into the Pointer; another process, where the
  segments are mapped elsewhere, finds another object.

Properties that hold in their runs, and three that no listed run checks
(`CopyStaysInside`, `RefusedOnlyWhenFull`, `SlotsAlive`), fail when constants or
inputs change, as the comments of the modules say:

* `CopyStaysInside` of StackAllocator, as the invariant of `MCStackAllocator` with
  `Threads <- TwoThreads`, `Sizes <- OneOrTwo`, `RegionOff = 1`, `HeapSize = 9`,
  `Header = 1`, `MaxHeapOff = 13` and `CanShrink = TRUE`, is violated. A
  reallocation copies the old page's bytes even into a smaller page
  (`src/memory/stack_allocator.cc:69`), over the header and the bytes of the next
  one. String resizing reaches it.
* `RefusedOnlyWhenFull` of StackAllocator, as the property of the same
  configuration with the sizes {1, 6} (`OneOrSix`), a `HeapSize` of 7, a
  `MaxHeapOff` of 20 and no shrinking, is violated. fetch_add moves
  `heap_off_` before the size is tested (`memory/allocator/heap.h:41`) and nobody
  moves it back: after one request that is too large every later one is refused.
* `SlotsAlive` of MemoryManager, as the invariant of `MCMemoryManager.cfg`, is
  violated by four calls: CreateBackend, CreateAllocator of the page allocator,
  UnregisterAllocator, UnregisterBackend. `UnregisterAllocator` clears the index of
  its argument only (`memory/memory_registry.h:112`), and the place of the embedded
  allocator leads to an object that is gone and to memory that is not mapped.
* `RegistryAlive` and `PointersAgree`, with `Ids` of (0, 1) and (0, 2) and
  `PageIds` of (0, 1), are violated: the allocator inside of (0, 1) takes the place
  of the allocator (0, 2), or the other way round. `PointersAgree` is violated by
  any ids of one index, (0, 4) and (1, 0) for instance.
* `OwnedOnce` of Containers, without the guard `SoundDestroy` of `UnorderedMap!Renew`,
  is violated in one step: a map is null when it has no entries
  (`ipc/unordered_map.h:297`), so destroying an empty or cleared one frees nothing,
  and the array of its buckets is lost.
* `EveryCallReturns` of RwLock with `CurMod = 2`: the turn wraps below the tickets,
  in the code after 2^32 write locks.
* `MarkedIsPrepared` of MpscQueue with `Builds = {FALSE}`, in which
  `EveryEntryDelivered` promises no value either.
* `NothingLost` of the ring with `Producers <- TwoProducers` and no lock, which the
  comment at `ipc/spsc_queue.h:38` offers.

### Inputs the runs leave out, because the code is wrong for them

Each of these sets is named in its module and widening it makes a property fail;
the hazards list has the lines.

* List and slist: insertion before an entry in the middle, or (list) before the
  first of several (`Insertable`). The new entry is linked to the neighbours of
  the one it is put before, which drops out while the length grows; the prior
  link of the second entry is not set. The repository's test of list does insert
  in front of a long list (`test/unit/data_structures/containers/list.h:96`), but
  reads it forward only and erases the entry again.
* Vector: resize to a size between length and capacity constructs nothing, resize
  to less destroys nothing (`SoundSizes`), so that elements which own memory are
  read raw or leak. replace of an element that owns memory runs its ~T() only
  (`DestructObj`, `memory/allocator/allocator.h:833`), which does not free it;
  `Modify` stands for replace of elements that own nothing, and for assignment.
* String: resize across the short form's boundary leaves the contents behind, or
  copies more than the new block holds (`SoundSizes` of ShmString); charbuf: a
  reference to somebody's bytes that grows loses them.
* Unordered_map: calls of a moved-from map, which has no buckets (`% 0`), and the
  end of a map without entries that has buckets (`SoundDestroy`).
* Assignment of an object to itself, assignment to a managed pointer that owns an
  object, a second use of a pointer whose object is gone.
* Page allocator: frees of a listed page that reads as allocated, reallocations
  to less. Memory manager: unregistering a backend before its allocator,
  attaching before the allocator exists, ids that share an index with each other or
  with that of an embedded allocator.

## 4. The proofs

Each theorem holds for every value of the constants that the module's ASSUME
admits; the bounds on the number of calls and on `heap_off_` occur in guards only
and any value of them is covered.

**SharedStateProofs, Mutex** (assumes finitely many threads, fewer than the word can count).
`MutexInvariant`: TypeOK, MutualExclusion, WordCountsClaims and OwnerIsReady are
inductive together. A fetch_add that returns 0 proves that nobody has a unit,
because the word is the cardinality of the claims; that is what makes exclusion
inductive, and the lemmas about claims added and removed do the counting.
From it follow `MutexTypeCorrect`, `MutexExclusion`, `MutexWordExact` and
`MutexRefinement` (each step is an Acquire, a Release or a stutter of
AbstractLock).

**MpscQueueProofs** (assumes a depth of at least one, and builds that store in
order, `Builds = {TRUE}`, as a hypothesis of each theorem). The invariant relates
every ticket between the head and the tail to its entry: published tickets have
their value and flag in place, unpublished ones have one producer each, and no
ticket's entry is that of another because tickets in one window of `Depth` differ
modulo `Depth` (`EntryDistinct`, the arithmetic core). `MpscTypeCorrect`,
`MpscDelivery`, `MpscExclusion`, `MpscMarked` and `MpscSizeNeverOverstated` follow,
and `MpscRefinement`: TakeTicket reserves the next place of TicketFifo, SetFlag
makes it ready, AdvanceHead removes the first one, the rest stutters.

**RwLockProofs** (assumes finitely many threads). Tickets in the queue are
distinct and not past (`TicketsAhead`, `TicketsUnique`), whoever is inside or
passing the turn has the ticket `cur_writer_` stands at (`TurnHeld`), and the
counters are cardinalities. `RwLockWriterExclusion`, `RwLockTicketOrder`,
`RwLockCountersExact` and `RwLockTypeCorrect` follow. The mode plays no part in
the argument: the tickets alone keep writers apart, which is why readers, whom
only the mode keeps out, are not covered, and why `ReaderWriterExclusion` fails.

**SharedStateProofs, SplitTicketQueue** (no assumption beyond the module's). Two halves. A
ticket is in one place: in a producer's hand, in one split, or among the popped;
places are followed ticket by ticket, since a step moves one of them. A refusal
is justified because what has been there since a consumer's walk began lies in
a split that it has yet to try, and a split that has had room since a producer's
walk began is one that it has yet to try (`OldAhead`): when no split is left,
`old[t]` is empty. Nothing that happens behind the walk adds to `old[t]`.
`SplitTicketsOnce` and `SplitRefusalJustified` follow from `SplitInvariant`.

**TicketQueueProofs** (the ring of spsc_queue and of ticket_queue, without and
under the lock; `OnePair`, one thread that emplaces and one that pops, is a
hypothesis only of what is said of the ring without the lock). `RingInv` says
where each call's token stands between `head_` and `tail_` (`TokensInv`) and what
an entry that has been handed over holds (`EntriesInv`): a producer writes an entry
that no ticket in the window has, because tickets less than a round apart have
different entries (`EntryDistinct`). It is inductive only while callers exclude
each other, hence `Exclusive => RingInv`: with two producers and no lock it is
false, as is `NothingLost`. `LockInv` gives the exclusion where there is a lock,
and `HistoryInv` says what the call inside has done to the queue that the last
Unlock left (`InsideInv`, one conjunct for each step a call can be at). From
`TicketInvariant` follow `TicketTypeCorrect`; `RingLosesNothing`, by value and
order: in builds that keep the order at every step, because each step moves one
value or none (`RingValuesKept`) and a Resize keeps the oldest; in the others
between calls under the lock, where the queue is what `HistoryInv` says of it
(`IdleValues`); `TicketQueueRefinement`: the step that gives the lock back is one Insert, one
Remove or no change of BoundedFifo, in builds of either kind; and
`RingRefinement`: without the lock, in a build that keeps the order, AppendEntry is
the Insert, RemoveEntry the Remove, Resize the Resize, and the rest stutters,
the move of a value out of its entry included, since `Items` shows the value in
hand at the front until `head_` passes it.

**StackAllocatorProofs** (assumes a positive header, a region that does not start
at 0). Pages with a header and pages about to get one lie below `heap_off_`,
inside the heap and apart from each other; a page has one user; a page that
callers keep has a header. `StackInvariant`, `StackTypeCorrect`,
`StackPagesSeparate`, and `StackRefinement`: CountAlloc of an Allocate is the
abstract Allocate, Copy and FreeBegin are Frees, everything else stutters.

`StackAccountingExact` is about a sum over the pages, which the model computes as
the folds of the library do: by taking one page after the other, whichever CHOOSE
gives. That such a function exists for every finite set (`SumsExist`) and that any
page may be taken first (`TotalOfOthers`) are proved by looking at a smallest
counterexample among the subsets of the pages (`Smallest`), since an induction
theorem over sets cannot be instantiated. With them, a step that counts a page adds
its size, a step that uncounts it takes the same size away, and the flag of a page
changes hands between the two: `SumInv` adds to the inductive invariant what a free
knows about the flag of its page (`FlagsInFree`), without which a page freed
twice would be taken off twice.

**ScalablePageAllocatorProofs** (assumes a positive header, a region that does not
start at 0, and classes of pages that have room for a header). A size that RoundUp
returned stays what it is when its class is looked up again (`RoundUpFits`), which
is why a page comes back to the lane of its own class. Pages lie apart below
`heap_off_` (`PagesApart`, `PagesInside`), which the division of a page keeps since
there is no page inside of another one (`NoPageInside`, `PageDivided`); each is with
the callers, with one step of one thread or once in one lane (`OneUser`,
`LanesApart`, `ListedOnce`, `Somewhere`). The lemmas about lists say what a page less
or a page in front does to a list without repetitions. `ScalableInvariant`,
`ScalableTypeCorrect`, `ScalablePagesSeparate`, `ScalablePageInOnePlace`, and
`ScalableRefinement`: MarkAllocated is the abstract Allocate, Copy and FreeBegin are
Frees, everything else stutters, the division of a listed page included.
`ScalableAccountingExact` repeats the lemmas about sums for these pages. Sizes
change here, but only of pages that are in a lane or on their way out of one
(`SizesOffLanesStay`), and those are not counted (`CountedOffLanes`): CountAlloc
sets the size and counts that one, and the size a free takes off is still the same.

**SharedStateProofs, MemoryManager** (hypothesis of each theorem,
`DistinctIndices`: the ids of callers and those that their page allocators give to
the allocators inside of them have different indices, which the code does not
enforce). The registries are alive because every call registers only what the
process has mapped, and because a segment in use keeps its id: `UsedDistinct` says
that segments with a name, a mapping or a pointer have ids of their own. What is
registered is of two kinds (`MadeObjects`, `EmbeddedObjects`); of the places of
embedded allocators the invariant only says that they never are those of made ones
(`IndexedObject`), which is what keeps a leftover from hiding an allocator. Names
are followed by url: a living owner of a url's segment, or an orphan
(`NamesOwnedByUrl`). A pointer on its way keeps its segment from being reused
(`SentAlive`). `RegistriesAlive`, `NamesHaveOwners` and `PointersMeanTheSame` follow
from `MemoryInvariant`.

**VectorProofs, ContainersProofs** (assume finitely many objects and blocks, a
`Null` that is no block and a `Raw` that is no value). For the kinds that keep all
they own in one block (`BlockKinds`: vector of values, string, charbuf, array,
managed pointer, queue with and without marks) `BlocksOwnedOnceAlways` and
`BlocksAgreeAlways` show OwnedOnce and HeadersAgree for every number of objects,
blocks and values and every length. The invariant of a kind (`Sound` of its headers)
says which block a header owns, that it is live and no other object's, that no live
block is without an owner, and that the header fits the slots of its block. The call
lemmas follow the code's nesting: what `Release`, a block that is replaced, a block
that moves and a write into one's own block do to `Sound` (`SoundRelease`,
`SoundReplace`, `SoundMove`, `SoundWrite`), then the operators of each container
(for vectors MoveArray, GrowVector, MakeRoom, EmplaceBack, ShiftRight, ShiftLeft,
Erase, Resize, AppendCopy, Move), then one step per call. Loops are taken apart by
`LoopExists` and `IntervalInduction`: the recursive function of the model exists and
its rounds keep what each round keeps. HeadersAgree alone is not inductive: it says
nothing of slots behind the length, of a second owner, or of a string whose short
form is in use. Rings are vectors whose elements may be null, with the tokens less
than a lap apart (`SlotDistinct`) and the values exactly between them (`RingOk`);
managed pointers and charbufs may refer to what another object or the caller owns,
and have invariants of their own (`PtrInv`, `CharInv`). The invariant of the run is
the one of its kind, since `kind` never changes.

Only model-checked: all liveness (out of the prover's reach, as is ENABLED);
OwnedOnce and HeadersAgree for lists, slists and iqueues, whose entries are what
a walk along the links finds, for vectors of containers, and for the arrays and
headers of unordered_map;
the refinements of the containers, and the iterations of a map.

## 5. What is left out

* A thread or process that dies inside an operation of a lock, a queue or an
  allocator. A dead producer leaves a hole in mpsc_queue, a dead owner a locked
  Mutex; the code has no recovery. Crashes between calls are in MemoryManager.
* Weak memory beyond the two exchanges of plain accesses named above; the atomics
  are sequentially consistent, as their default order is.
* The window between a backend's creation and the header of its allocator, in
  which another process may attach to memory without an allocator.
* Copy and move construction of queues, which assign to a vector that was never
  constructed: whatever the memory held is what they read. Copying of locks.
* The count that the StackAllocator inside the page allocator keeps and nothing
  reads (its heap is in ScalablePageAllocator, its registration in MemoryManager).
  Aligned allocation throws.
* mpsc_ptr_queue's concurrent calls, which have the steps of MpscQueue with value
  and flag in one word; MallocAllocator, whose memory is malloc's; pod_array, the
  typed wrappers of smart pointers and the masks of bitfield, which have no
  control; and all other components without a module in `PROJECT.json`.

## 6. Order of the work, and what comes next

The modules were written from what other parts rest on to what rests on them:
locks, queues, allocators, data structures, memory manager. Runs are few on
purpose: one per component with all its properties, and a second one only where
a constant changes the question.

Next, in this order: mpsc_ptr_queue as a module beside MpscQueue; the list's
links form one chain, stated without the walk; a producer that stalls inside
emplace as a constant of MpscQueue.

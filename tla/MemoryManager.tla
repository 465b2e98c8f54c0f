---------------------------- MODULE MemoryManager ----------------------------
(***************************************************************************)
(* The memory of several processes: each has a MemoryRegistry with its      *)
(* backends (memory_registry.h), its table of allocators and its default    *)
(* allocator; they share the name space of POSIX shared memory, and a       *)
(* segment starts with the header of the allocator that manages it.  Calls  *)
(* of the MemoryManager (memory_manager.h) are steps; a process may crash   *)
(* between two of them and starts again with an empty registry.            *)
(***************************************************************************)
EXTENDS Naturals, FiniteSets

CONSTANTS
  Processes,
  Shared, Private,  \* urls of PosixShmMmap and of PosixMmap backends
  Ids,              \* allocator ids that callers use: pairs <<major_, minor_>>
  PageIds,          \* those of ScalablePageAllocators
  Segments,         \* bound: regions of memory that exist at a time
  None

RootId == <<3, 3>>

(* A ScalablePageAllocator holds a StackAllocator with the next minor_.     *)
NextId(id) == <<id[1], id[2] + 1>>

AllIds == Ids \cup {NextId(id) : id \in PageIds} \cup {RootId}

ASSUME MemoryAssumption ==
  /\ Shared \cap Private = {}
  /\ Ids \subseteq (Nat \X Nat) \ {<<0, 0>>, RootId}
  /\ PageIds \subseteq Ids
  /\ None \notin Segments /\ None \notin AllIds
  /\ None \notin [seg : Segments, owned : BOOLEAN]
  /\ None \notin [id : AllIds, seg : Segments]
  /\ None \notin [id : AllIds, seg : Segments \cup {None}, embedded : BOOLEAN]

VARIABLES
  names,     \* the segment a shared-memory name leads to
  inside,    \* the id in the allocator header of a segment
  backends,  \* backends_ of each process: the segment that is mapped, and
             \* whether this process owns it
  table,     \* allocators_ of each process: an allocator at each index
  default,   \* default_allocator_ of each process
  sent,      \* a Pointer on its way: the id in it, where the object lies
  orphans    \* history: segments whose owner crashed

managerVars == <<names, inside, backends, table, default, sent, orphans>>

Urls == Shared \cup Private

\* Faulty variant: ids that differ share an index.
ToIndexSum(id) == id[1] + id[2]

ToIndex(id) == id[1] * 4 + id[2]

Indices == {ToIndex(id) : id \in AllIds}

(* An Allocator object: what it knows of the memory it manages.             *)
Allocator(id, seg) == [id |-> id, seg |-> seg, embedded |-> FALSE]

(* The StackAllocator inside a ScalablePageAllocator: it lives and dies with *)
(* it, and allocators_made_, which owns the others, does not know of it.    *)
Embedded(a) == [id |-> NextId(a.id), seg |-> a.seg, embedded |-> TRUE]

(* What making the object of an allocator, and registering it, registers.   *)
Registers(a) ==
  IF a.embedded \/ a.id \notin PageIds THEN {a} ELSE {a, Embedded(a)}

(* The allocator of the private memory every process starts with.           *)
Root == Allocator(RootId, None)

RootTable == [i \in Indices |-> IF i = ToIndex(RootId) THEN Root ELSE None]

ManagerInit ==
  /\ names = [u \in Shared |-> None]
  /\ inside = [g \in Segments |-> None]
  /\ backends = [p \in Processes |-> [u \in Urls |-> None]]
  /\ table = [p \in Processes |-> RootTable]
  /\ default = [p \in Processes |-> Root]
  /\ sent = None
  /\ orphans = {}

-----------------------------------------------------------------------------
Opened(p) == {u \in Urls : backends[p][u] # None}

Mapped(p) == {backends[p][u].seg : u \in Opened(p)}

(* The allocators in the table of a process.                                *)
Known(p) == {table[p][i] : i \in Indices} \ {None}

Owns(p, g) == \E u \in Opened(p) : backends[p][u] = [seg |-> g, owned |-> TRUE]

Named == {names[u] : u \in Shared} \ {None}

(* Memory that nobody has mapped and no name leads to is gone; what a       *)
(* pointer on its way names is not used again.                              *)
Unused == {g \in Segments :
  /\ g \notin Named /\ \A p \in Processes : g \notin Mapped(p)
  /\ sent # None => sent.seg # g}

FreshSegment == CHOOSE g \in Unused : TRUE

SetName(u, g) == IF u \in Shared THEN [names EXCEPT ![u] = g] ELSE names

Open(p, u, backend) == backends' = [backends EXCEPT ![p][u] = backend]

(* The allocators of a set are made and registered, the one called first    *)
(* first: the first allocator after the root becomes the default, and one   *)
(* that is registered again stays it.                                       *)
RegisterAll(p, first, all) ==
  /\ LET slots == UNION {Registers(a) : a \in all}
     IN table' = [table EXCEPT ![p] = [i \in Indices |->
          IF \E a \in slots : ToIndex(a.id) = i
          THEN CHOOSE a \in slots : ToIndex(a.id) = i ELSE @[i]]]
  /\ default' = [default EXCEPT ![p] =
       IF @ = Root THEN first
       ELSE IF \E a \in all : a.id = @.id THEN CHOOSE a \in all : a.id = @.id ELSE @]

(* ScanBackends, in the order of an unordered_map: the allocators that the  *)
(* mapped segments tell of are made and registered, again if they were.     *)
Scan(p, segs) ==
  LET all == {Allocator(inside[g], g) : g \in segs}
  IN IF all = {} THEN UNCHANGED <<table, default>>
     ELSE \E first \in all : RegisterAll(p, first, all)

-----------------------------------------------------------------------------
(* CreateBackend: the name is taken from whatever it led to.  One process   *)
(* at a time creates a backend, when no living one owns it.                 *)
CreateBackend(p, u) ==
  /\ Unused # {} /\ backends[p][u] = None
  /\ u \in Shared => \A q \in Processes : names[u] # None => ~Owns(q, names[u])
  /\ names' = SetName(u, FreshSegment)
  /\ inside' = [inside EXCEPT ![FreshSegment] = None]
  /\ Open(p, u, [seg |-> FreshSegment, owned |-> TRUE])
  /\ orphans' = orphans \ {FreshSegment}
  /\ UNCHANGED <<table, default, sent>>

(* A second time: the new backend is not registered; its destructor takes   *)
(* the name away.                                                           *)
CreateRepeated(p, u) ==
  /\ Unused # {} /\ backends[p][u] # None
  /\ names' = SetName(u, None)
  /\ UNCHANGED <<inside, backends, table, default, sent, orphans>>

(* AllocatorFactory::shm_init and RegisterAllocator.  The caller chooses an *)
(* id that no segment in use has.                                           *)
CreateAllocator(p, u, id) ==
  /\ u \in Opened(p) /\ inside[backends[p][u].seg] = None
  /\ \A g \in Segments \ Unused : inside[g] # id
  /\ LET g == backends[p][u].seg
     IN /\ inside' = [inside EXCEPT ![g] = id]
        /\ RegisterAll(p, Allocator(id, g), {Allocator(id, g)})
  /\ UNCHANGED <<names, backends, sent, orphans>>

(* AttachBackend: fails where there is no such name or the url is in use.   *)
(* Otherwise all backends are scanned, so all have their allocators.        *)
AttachBackend(p, u) ==
  /\ u \in Shared /\ names[u] # None /\ backends[p][u] = None
  /\ \A g \in Mapped(p) \cup {names[u]} : inside[g] # None
  /\ Open(p, u, [seg |-> names[u], owned |-> FALSE])
  /\ Scan(p, Mapped(p) \cup {names[u]})
  /\ UNCHANGED <<names, inside, sent, orphans>>

ScanBackends(p) ==
  /\ \A g \in Mapped(p) : inside[g] # None
  /\ Scan(p, Mapped(p))
  /\ UNCHANGED <<names, inside, backends, sent, orphans>>

\* Faulty variant: the default allocator stays.
UnregisterKeepsDefault(p, id) ==
  /\ table' = [table EXCEPT ![p][ToIndex(id)] = None]
  /\ UNCHANGED <<names, inside, backends, default, sent, orphans>>

(* The object is destroyed, and the one embedded in it; only its own index  *)
(* is cleared.                                                              *)
UnregisterAllocator(p, id) ==
  /\ default' = [default EXCEPT ![p] = IF @.id = id THEN Root ELSE @]
  /\ table' = [table EXCEPT ![p][ToIndex(id)] = None]
  /\ UNCHANGED <<names, inside, backends, sent, orphans>>

\* Faulty variant: the name is left behind.
CloseKeepsName(p, u, owned) == UNCHANGED names

(* The destructor of a backend: its memory is unmapped, and its owner takes *)
(* the name away, whatever that leads to by now.                            *)
Close(p, u, owned) == names' = IF owned THEN SetName(u, None) ELSE names

(* UnregisterBackend, and DestroyBackend, which owns the backend first.  The *)
(* caller has unregistered the allocator of the backend.                    *)
UnregisterBackend(p, u) ==
  /\ u \in Opened(p)
  /\ \A a \in Known(p) : ~a.embedded => a.seg # backends[p][u].seg
  /\ \E owned \in {backends[p][u].owned, TRUE} : Close(p, u, owned)
  /\ Open(p, u, None)
  /\ UNCHANGED <<inside, table, default, sent, orphans>>

SetDefaultAllocator(p, id) ==
  /\ table[p][ToIndex(id)] # None
  /\ default' = [default EXCEPT ![p] = table[p][ToIndex(id)]]
  /\ UNCHANGED <<names, inside, backends, table, sent, orphans>>

(* A process ends without a word: its names stay.                           *)
Crash(p) ==
  /\ orphans' = (orphans \cup {g \in Mapped(p) : Owns(p, g)})
  /\ backends' = [backends EXCEPT ![p] = [u \in Urls |-> None]]
  /\ table' = [table EXCEPT ![p] = RootTable]
  /\ default' = [default EXCEPT ![p] = Root]
  /\ UNCHANGED <<names, inside, sent>>

-----------------------------------------------------------------------------
(* An object in shared memory, by the id of its allocator: Convert(id, ptr) *)
Send(p, id) ==
  /\ sent = None /\ id # RootId /\ table[p][ToIndex(id)] # None
  /\ table[p][ToIndex(id)].seg \in Mapped(p)
  /\ sent' = [id |-> id, seg |-> table[p][ToIndex(id)].seg]
  /\ UNCHANGED <<names, inside, backends, table, default, orphans>>

(* Nobody converts the pointer any more.                                    *)
Receive == /\ sent # None /\ sent' = None
           /\ UNCHANGED <<names, inside, backends, table, default, orphans>>

(* Convert(ptr) of an object of the allocator in segment g: the first in the *)
(* table that does not begin behind the object.  below: what else the table *)
(* takes to be at lower addresses, the root's memory (None) and memory that *)
(* is gone among it.                                                        *)
SendUnnamed(p, g) ==
  /\ sent = None /\ \E i \in Indices : table[p][i] = Allocator(inside[g], g)
  /\ \E below \in SUBSET (Segments \cup {None}) :
       LET hits == {i \in Indices : /\ table[p][i] # None
                                    /\ table[p][i].seg \in below \cup {g}}
       IN /\ hits # {}
          /\ sent' = [id  |-> table[p][CHOOSE i \in hits : \A j \in hits : i <= j].id,
                      seg |-> g]
  /\ UNCHANGED <<names, inside, backends, table, default, orphans>>

ManagerNext == \E p \in Processes :
  \/ \E u \in Urls : \/ CreateBackend(p, u) \/ CreateRepeated(p, u)
                     \/ AttachBackend(p, u) \/ UnregisterBackend(p, u)
                     \/ \E id \in Ids : CreateAllocator(p, u, id)
  \/ ScanBackends(p)
  \/ \E id \in Ids : UnregisterAllocator(p, id) \/ SetDefaultAllocator(p, id) \/ Send(p, id)
  \/ Receive
  \/ Crash(p)

ManagerSpec == ManagerInit /\ [][ManagerNext]_managerVars

NextUnnamed == ManagerNext \/ \E p \in Processes, g \in Segments : SendUnnamed(p, g)

UnnamedSpec == ManagerInit /\ [][NextUnnamed]_managerVars

-----------------------------------------------------------------------------
(* The allocators a process has made, the default one too, manage memory    *)
(* that it has mapped and that holds this allocator, through all orders of  *)
(* creating, attaching, scanning and unregistering; one that embeds another *)
(* is known together with it.                                               *)
RegistryAlive == \A p \in Processes :
  /\ \A a \in Known(p) \cup {default[p]} :
       a # Root /\ ~a.embedded => a.seg \in Mapped(p) /\ inside[a.seg] = a.id
  /\ \A a \in Known(p) : Registers(a) \subseteq Known(p)

(* The same of the embedded ones.  It does not hold: an index outlives the  *)
(* object that it leads to, and then the memory.                            *)
SlotsAlive == \A p \in Processes : \A a \in Known(p) :
  a.embedded => a.seg \in Mapped(p)

(* A name in shared memory has a living owner that will take it away, or    *)
(* was left by one that crashed.                                           *)
NamesOwned == \A u \in Shared : names[u] # None =>
  names[u] \in orphans \/ \E p \in Processes : Owns(p, names[u])

(* A pointer leads every process that knows its allocator to the object: no *)
(* other allocator, embedded or not, takes its place in a table.            *)
PointersAgree == sent # None => \A p \in Processes :
  table[p][ToIndex(sent.id)] # None => table[p][ToIndex(sent.id)].seg = sent.seg
=============================================================================

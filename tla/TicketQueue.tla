----------------------------- MODULE TicketQueue -----------------------------
(***************************************************************************)
(* hipc::ticket_queue, hipc::ticket_stack (the same code under another      *)
(* name: it is a queue too) and hshm::ticket_queue: an spsc_queue whose     *)
(* emplace and pop run under a Mutex, for any number of threads.           *)
(*                                                                         *)
(* The ring is the one of SpscQueue with all its plain accesses, in either *)
(* order; the mutex is AbstractLock, which Mutex is shown to implement.  A  *)
(* behaviour has one ring, used under the lock by all Threads or, as the    *)
(* spsc_queue it is, by the Producers and Consumers alone.                  *)
(***************************************************************************)
EXTENDS SpscQueue

CONSTANTS
  Stalled,   \* threads that may stop for ever, descheduled or dead
  MaxCalls   \* bound: calls of emplace and pop in a behaviour

ASSUME TicketAssumption ==
  /\ Stalled \subseteq Threads
  /\ MaxCalls \in Nat

VARIABLES
  locked,    \* the ring is that of a ticket_queue, not an spsc_queue
  owners,    \* the abstract mutex
  step,      \* each thread: outside, waiting for the lock, inside, done
  calls,     \* number of calls so far, for the bound only
  content,   \* history: the queue as the last Unlock left it
  out        \* history: what had been popped by then

ticketVars == <<locked, owners, step, calls, content, out>>
allVars == <<vars, ticketVars>>

Lock == INSTANCE AbstractLock

TicketTypeOK ==
  /\ locked \in BOOLEAN
  /\ owners \subseteq Threads
  /\ step \in [Threads -> {"outside", "lock", "inside", "unlock"}]
  /\ calls \in Nat
  /\ content \in Seq(Values)
  /\ out \in Seq(Values)

TicketInit ==
  /\ Init
  /\ locked \in BOOLEAN
  /\ owners = {}
  /\ step = [t \in Threads |-> "outside"]
  /\ calls = 0
  /\ content = <<>> /\ out = <<>>

Step(t, l) == step' = [step EXCEPT ![t] = l]

(* emplace or pop is called.                                                *)
Call(t) ==
  /\ step[t] = "outside" /\ calls < MaxCalls
  /\ calls' = calls + 1
  /\ Step(t, "lock")
  /\ UNCHANGED <<vars, locked, owners, content, out>>

(* lock_.Lock(0) returns.                                                   *)
Acquire(t) ==
  /\ step[t] = "lock"
  /\ Lock!Acquire(t)
  /\ Step(t, "inside")
  /\ UNCHANGED <<vars, locked, calls, content, out>>

(* The ring's operation is called.                                          *)
EnterRing(t) ==
  /\ step[t] = "inside"
  /\ (\E v \in Values : EmplaceBegin(t, v)) \/ PopBegin(t)
  /\ Step(t, "unlock")
  /\ UNCHANGED <<locked, owners, calls, content, out>>

(* A step of the ring's operation.                                          *)
InRing(t) == (InEmplace(t) \/ InPop(t)) /\ UNCHANGED ticketVars

\* Faulty variant: a refused operation returns without the unlock.
ReleaseUnlessRefused(t) ==
  /\ step[t] = "unlock" /\ pc[t] = "idle"
  /\ IF Content = content /\ out = popped THEN UNCHANGED owners
                                          ELSE Lock!Release(t)
  /\ content' = Content /\ out' = popped
  /\ Step(t, "outside")
  /\ UNCHANGED <<vars, locked, calls>>

\* Faulty variant: the unlock comes before the end of the operation.
ReleaseEarly(t) ==
  /\ step[t] = "unlock"
  /\ Lock!Release(t)
  /\ content' = Content /\ out' = popped
  /\ Step(t, "outside")
  /\ UNCHANGED <<vars, locked, calls>>

(* The ring's operation has returned: lock_.Unlock().                       *)
Release(t) ==
  /\ step[t] = "unlock" /\ pc[t] = "idle"
  /\ Lock!Release(t)
  /\ content' = Content /\ out' = popped
  /\ Step(t, "outside")
  /\ UNCHANGED <<vars, locked, calls>>

(* The threads of a program stop when their calls are used up.              *)
TicketNext ==
  \/ /\ locked
     /\ \E t \in Threads :
          Call(t) \/ Acquire(t) \/ EnterRing(t) \/ InRing(t) \/ Release(t)
  \/ /\ ~locked
     /\ Next
     /\ UNCHANGED ticketVars

TicketSpec == TicketInit /\ [][TicketNext]_allVars

(* A thread that does not stall keeps running inside.  The mutex is not     *)
(* left free for ever while somebody wants it (Mutex: LockNotLeftFree); who *)
(* gets it is open.                                                         *)
TicketFairSpec ==
  /\ TicketSpec
  /\ \A t \in Threads \ Stalled : WF_allVars(EnterRing(t) \/ InRing(t) \/ Release(t))
  /\ WF_allVars(\E t \in Threads : Acquire(t))

-----------------------------------------------------------------------------
(* Between two critical sections the queue changes by one whole operation:  *)
(* it is a bounded first-in first-out queue for every thread, whatever the  *)
(* order in which the ring's memory is accessed.                            *)
Fifo == INSTANCE BoundedFifo WITH
  Capacities <- Depths, capacity <- depth, items <- content, out <- out
ImplementsTicketedFifo ==
  Fifo!Init /\ [][locked => Fifo!Next]_<<content, depth, out>>

(* With one producer and one consumer, in a build that keeps the order of   *)
(* the source, the ring is a bounded queue without the lock too.            *)
ImplementsFifo ==
  Abs!Init /\ [][~locked /\ in_order => Abs!Next]_<<Items, depth, popped>>

(* The values whose emplace returned a token are, in their order, those     *)
(* popped followed by those in the queue: none is lost, repeated, replaced  *)
(* or overtaken, and a Resize gives up only what the new ring has no room   *)
(* for.  In a build that reorders, this is so under the lock, when no call  *)
(* is inside; without the lock it is not.                                   *)
NothingLost ==
  in_order \/ (locked /\ \A t \in Threads : pc[t] = "idle")
    => entered = popped \o Items

(* As long as no new calls compete, every call of a thread that does not    *)
(* stall returns: the lock is given back on the paths of a full and of an   *)
(* empty ring too.                                                          *)
EveryCallReturns ==
  \A t \in Threads \ Stalled : step[t] # "outside" ~> step[t] = "outside"
=============================================================================

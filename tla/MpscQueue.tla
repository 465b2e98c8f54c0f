------------------------------ MODULE MpscQueue ------------------------------
(***************************************************************************)
(* hipc::mpsc_queue (data_structures/ipc/mpsc_queue.h), and hshm::mpsc_queue,*)
(* which forwards every call to it: a ring of Depth entries, each a value  *)
(* with a flag word, shared by many producers (emplace) and one consumer   *)
(* (pop, peek), with further threads that may ask for the size.            *)
(*                                                                         *)
(* Each access of head_, tail_ and of an entry that another thread can     *)
(* observe is one action.  head_ and tail_ are sequentially consistent     *)
(* atomics.  The flag and the value of an entry are plain memory, so the   *)
(* order in which the consumer sees the producer's two stores is the       *)
(* compiler's choice: in_order says that the build keeps the order of the   *)
(* source (a value that is one word), and its negation lets the flag become *)
(* visible while the value is still being stored (an optimised build may   *)
(* sink the last word of a larger value below the flag).                   *)
(***************************************************************************)
EXTENDS Naturals, Sequences, FiniteSets

CONSTANTS
  Producers,       \* the threads that emplace
  Observers,       \* the threads that ask for the size
  Values,          \* what they emplace
  Unread,          \* recorded for an entry popped without its value
  Stale,           \* an entry's value before it is complete, or moved from
  Depth,           \* entries in the ring (queue_->size())
  Builds,          \* may the build keep the order of the source, may it not?
  MaxEmplace       \* bound: emplace calls in a behaviour

ASSUME MpscAssumption ==
  /\ Depth \in Nat \ {0}
  /\ Builds \subseteq BOOLEAN
  /\ MaxEmplace \in Nat
  /\ Unread \notin Values
  /\ Stale \notin Values

VARIABLES
  in_order,       \* the build stores the value before the flag
  tail_, head_,   \* the atomics: next ticket to hand out, next to consume
  slots,          \* the ring: [flag, val] at 0..Depth-1
  pc, arg, seen, tkt,   \* each producer: step, value, loaded head, ticket
  cpc, call, chead, got, \* the consumer: step, call, loaded head, moved value
  sizeTail,       \* each observer: the tail GetSize has loaded, or Idle
  log,            \* history: the value of every ticket handed out, in order
  popped          \* history: what the consumer removed, in order

queueVars == <<tail_, head_, slots>>
producerVars == <<pc, arg, seen, tkt>>
consumerVars == <<cpc, call, chead, got>>
vars == <<queueVars, producerVars, consumerVars, sizeTail, log, popped>>
allVars == <<in_order, vars>>

Idle == Depth + MaxEmplace + 1   \* no GetSize in progress: not a tail value

Slot(k) == slots[k % Depth]
SetSlot(k, entry) == slots' = [slots EXCEPT ![k % Depth] = entry]

TypeOK ==
  /\ tail_ \in Nat /\ head_ \in Nat
  /\ slots \in [0..(Depth - 1) -> [flag : {0, 1}, val : Values \cup {Stale}]]
  /\ pc \in [Producers -> {"idle", "take", "wait", "prepare", "store",
                           "publish", "late"}]
  /\ arg \in [Producers -> Values \cup {Stale}]
  /\ seen \in [Producers -> Nat]
  /\ tkt \in [Producers -> Nat]
  /\ cpc \in {"idle", "tail", "check", "move", "clear", "advance"}
  /\ call \in {"pop", "drop", "peek"}
  /\ chead \in Nat
  /\ got \in Values \cup {Stale, Unread}
  /\ sizeTail \in [Observers -> Nat]
  /\ log \in Seq(Values)
  /\ popped \in Seq(Values \cup {Stale, Unread})

(* The constructor: depth default-constructed entries, then SetNull.        *)
Init ==
  /\ in_order \in Builds
  /\ tail_ = 0 /\ head_ = 0
  /\ slots = [i \in 0..(Depth - 1) |-> [flag |-> 0, val |-> Stale]]
  /\ pc = [p \in Producers |-> "idle"]
  /\ arg = [p \in Producers |-> Stale]
  /\ seen = [p \in Producers |-> 0]
  /\ tkt = [p \in Producers |-> 0]
  /\ cpc = "idle" /\ call = "pop" /\ chead = 0 /\ got = Unread
  /\ sizeTail = [o \in Observers |-> Idle]
  /\ log = <<>> /\ popped = <<>>

-----------------------------------------------------------------------------
(* Producer p: emplace.                                                     *)

Goto(p, l) == pc' = [pc EXCEPT ![p] = l]

\* Faulty variant: the argument is not forwarded.
EmplaceBeginNoArg(p, v) ==
  /\ pc[p] = "idle"
  /\ Len(log) + Cardinality({q \in Producers : pc[q] = "take"}) < MaxEmplace
  /\ seen' = [seen EXCEPT ![p] = head_]
  /\ Goto(p, "take")
  /\ UNCHANGED <<queueVars, arg, tkt, consumerVars, sizeTail, log, popped>>

(* emplace(v) is called and loads head_.                                    *)
EmplaceBegin(p, v) ==
  /\ pc[p] = "idle"
  /\ Len(log) + Cardinality({q \in Producers : pc[q] = "take"}) < MaxEmplace
  /\ arg' = [arg EXCEPT ![p] = v]
  /\ seen' = [seen EXCEPT ![p] = head_]
  /\ Goto(p, "take")
  /\ UNCHANGED <<queueVars, tkt, consumerVars, sizeTail, log, popped>>

\* Faulty variant: space is tested with "size > depth + 1".
FitsOneMore(t, head) == t - head + 1 <= Depth + 1

(* The entry of ticket t is free once head_ is past ticket t - Depth.       *)
Fits(t, head) == t - head + 1 <= Depth

\* Faulty variant: the ticket is read and advanced in two accesses, so that
\* the increment is based on the tail the producer has already seen.
TakeTicketTorn(p) ==
  /\ pc[p] = "take"
  /\ tkt' = [tkt EXCEPT ![p] = tail_]
  /\ \/ tail_' = tail_ + 1
     \/ tail_' = seen[p] + 1
  /\ log' = Append(log, arg[p])
  /\ Goto(p, IF Fits(tail_, seen[p]) THEN "prepare" ELSE "wait")
  /\ UNCHANGED <<head_, slots, arg, seen, consumerVars, sizeTail, popped>>

(* tail = tail_.fetch_add(1), compared with the head loaded before it.      *)
TakeTicket(p) ==
  /\ pc[p] = "take"
  /\ tkt' = [tkt EXCEPT ![p] = tail_]
  /\ tail_' = tail_ + 1
  /\ log' = Append(log, arg[p])
  /\ Goto(p, IF Fits(tail_, seen[p]) THEN "prepare" ELSE "wait")
  /\ UNCHANGED <<head_, slots, arg, seen, consumerVars, sizeTail, popped>>

\* Faulty variant: the loop tests the head loaded at the start again.
WaitForSpaceStale(p) ==
  /\ pc[p] = "wait"
  /\ Fits(tkt[p], seen[p])
  /\ Goto(p, "prepare")
  /\ UNCHANGED <<queueVars, arg, seen, tkt, consumerVars, sizeTail, log, popped>>

(* The loop of a producer that found the ring full: it reloads head_ and    *)
(* yields until its ticket fits (a round that fails changes nothing).       *)
WaitForSpace(p) ==
  /\ pc[p] = "wait"
  /\ Fits(tkt[p], head_)
  /\ Goto(p, "prepare")
  /\ UNCHANGED <<queueVars, arg, seen, tkt, consumerVars, sizeTail, log, popped>>

(* replace(): destroy the old entry, construct its flags (0).               *)
PrepareEntry(p) ==
  /\ pc[p] = "prepare"
  /\ SetSlot(tkt[p], [flag |-> 0, val |-> Stale])
  /\ Goto(p, "store")
  /\ UNCHANGED <<tail_, head_, arg, seen, tkt, consumerVars, sizeTail, log, popped>>

(* replace(): construct the value.                                          *)
StoreValue(p) ==
  /\ pc[p] = "store"
  /\ SetSlot(tkt[p], [Slot(tkt[p]) EXCEPT !.val = arg[p]])
  /\ Goto(p, "publish")
  /\ UNCHANGED <<tail_, head_, arg, seen, tkt, consumerVars, sizeTail, log, popped>>

(* SetBits(1), and the return of the ticket.                                *)
SetFlag(p) ==
  /\ pc[p] = "publish"
  /\ SetSlot(tkt[p], [Slot(tkt[p]) EXCEPT !.flag = 1])
  /\ Goto(p, "idle")
  /\ UNCHANGED <<tail_, head_, arg, seen, tkt, consumerVars, sizeTail, log, popped>>

(* The two stores in the other order, where the build may reorder them.     *)
SetFlagEarly(p) ==
  /\ ~in_order
  /\ pc[p] = "store"
  /\ SetSlot(tkt[p], [Slot(tkt[p]) EXCEPT !.flag = 1])
  /\ Goto(p, "late")
  /\ UNCHANGED <<tail_, head_, arg, seen, tkt, consumerVars, sizeTail, log, popped>>

StoreValueLate(p) ==
  /\ pc[p] = "late"
  /\ SetSlot(tkt[p], [Slot(tkt[p]) EXCEPT !.val = arg[p]])
  /\ Goto(p, "idle")
  /\ UNCHANGED <<tail_, head_, arg, seen, tkt, consumerVars, sizeTail, log, popped>>

InEmplace(p) ==
  \/ TakeTicket(p) \/ WaitForSpace(p) \/ PrepareEntry(p) \/ StoreValue(p)
  \/ SetFlag(p) \/ SetFlagEarly(p) \/ StoreValueLate(p)

-----------------------------------------------------------------------------
(* The consumer: pop(val) is "pop", pop() is "drop", peek(val, off) "peek". *)

(* A call of pop: head_ is loaded.                                          *)
PopBegin ==
  /\ cpc = "idle"
  /\ call' \in {"pop", "drop"}
  /\ chead' = head_
  /\ cpc' = "tail"
  /\ UNCHANGED <<queueVars, producerVars, got, sizeTail, log, popped>>

(* peek(val, off), called with an offset inside of the ring.                *)
PeekBegin ==
  /\ cpc = "idle"
  /\ call' = "peek"
  /\ \E off \in 0..(Depth - 1) : chead' = head_ + off
  /\ cpc' = "tail"
  /\ UNCHANGED <<queueVars, producerVars, got, sizeTail, log, popped>>

(* tail_ is loaded: no entry, the call returns the null token.              *)
LoadTail ==
  /\ cpc = "tail"
  /\ cpc' = IF chead >= tail_ THEN "idle" ELSE "check"
  /\ UNCHANGED <<queueVars, producerVars, call, chead, got, sizeTail, log, popped>>

(* What a call does with an entry that is marked valid.                     *)
AfterCheck == CASE call = "pop"  -> "move"
                [] call = "drop" -> "clear"
                [] call = "peek" -> "idle"

\* Faulty variant: the flag is not looked at.
CheckFlagAlways ==
  /\ cpc = "check"
  /\ cpc' = AfterCheck
  /\ got' = Unread
  /\ UNCHANGED <<queueVars, producerVars, call, chead, sizeTail, log, popped>>

(* Any(1) on the entry: not set, the call returns the null token.           *)
CheckFlag ==
  /\ cpc = "check"
  /\ cpc' = IF Slot(chead).flag = 1 THEN AfterCheck ELSE "idle"
  /\ got' = Unread
  /\ UNCHANGED <<queueVars, producerVars, call, chead, sizeTail, log, popped>>

(* val = std::move(entry.GetSecond()).                                      *)
MoveValue ==
  /\ cpc = "move"
  /\ got' = Slot(chead).val
  /\ SetSlot(chead, [Slot(chead) EXCEPT !.val = Stale])
  /\ cpc' = "clear"
  /\ UNCHANGED <<tail_, head_, producerVars, call, chead, sizeTail, log, popped>>

\* Faulty variant: the flag of a consumed entry stays set.
ClearFlagForgotten ==
  /\ cpc = "clear"
  /\ cpc' = "advance"
  /\ UNCHANGED <<queueVars, producerVars, call, chead, got, sizeTail, log, popped>>

(* entry.GetFirst().Clear().                                                *)
ClearFlag ==
  /\ cpc = "clear"
  /\ SetSlot(chead, [Slot(chead) EXCEPT !.flag = 0])
  /\ cpc' = "advance"
  /\ UNCHANGED <<tail_, head_, producerVars, call, chead, got, sizeTail, log, popped>>

(* head_.fetch_add(1): the entry is given back to the producers.            *)
AdvanceHead ==
  /\ cpc = "advance"
  /\ head_' = head_ + 1
  /\ popped' = Append(popped, got)
  /\ cpc' = "idle"
  /\ UNCHANGED <<tail_, slots, producerVars, call, chead, got, sizeTail, log>>

InConsumer ==
  LoadTail \/ CheckFlag \/ MoveValue \/ ClearFlag \/ AdvanceHead

-----------------------------------------------------------------------------
(* Observer o: GetSize loads tail_, then head_.                             *)

\* Faulty variant: counts like emplace does, "tail - head + 1".
GetSizeTailInclusive(o) ==
  /\ sizeTail[o] = Idle
  /\ sizeTail' = [sizeTail EXCEPT ![o] = tail_ + 1]
  /\ UNCHANGED <<queueVars, producerVars, consumerVars, log, popped>>

GetSizeTail(o) ==
  /\ sizeTail[o] = Idle
  /\ sizeTail' = [sizeTail EXCEPT ![o] = tail_]
  /\ UNCHANGED <<queueVars, producerVars, consumerVars, log, popped>>

(* The result when head_ is loaded now.                                     *)
SizeResult(o) == IF sizeTail[o] < head_ THEN 0 ELSE sizeTail[o] - head_

GetSizeHead(o) ==
  /\ sizeTail[o] # Idle
  /\ sizeTail' = [sizeTail EXCEPT ![o] = Idle]
  /\ UNCHANGED <<queueVars, producerVars, consumerVars, log, popped>>

-----------------------------------------------------------------------------
Next ==
  /\ \/ \E p \in Producers : (\E v \in Values : EmplaceBegin(p, v)) \/ InEmplace(p)
     \/ PopBegin \/ PeekBegin \/ InConsumer
     \/ \E o \in Observers : GetSizeTail(o) \/ GetSizeHead(o)
  /\ UNCHANGED in_order

Spec == Init /\ [][Next]_allVars

(* Threads inside a call keep running.  The consumer may peek between two    *)
(* calls of pop but never stops calling pop: the callers' polling loop.     *)
Fairness ==
  /\ \A p \in Producers : WF_vars(InEmplace(p))
  /\ WF_vars(InConsumer)
  /\ SF_vars(PopBegin)

FairSpec == Spec /\ Fairness

-----------------------------------------------------------------------------
(* The producers that hold a ticket they have not published, and those of   *)
(* them that may write to the ring.                                         *)
HasTicket == {p \in Producers : pc[p] \notin {"idle", "take"}}
Writing == {p \in Producers : pc[p] \in {"prepare", "store", "publish", "late"}}

(* Only one thread at a time touches an entry: two producers never write    *)
(* the same one, and none writes the one the consumer is taking.            *)
EntryExclusive ==
  /\ \A p, q \in Writing : tkt[p] % Depth = tkt[q] % Depth => p = q
  /\ cpc \in {"move", "clear", "advance"} =>
       \A p \in Writing : tkt[p] % Depth # chead % Depth

(* What the consumer removes is, in ticket order and without loss or        *)
(* repetition, what the producers put in: no half-stored, stale or          *)
(* overwritten value is delivered.                                          *)
DeliveredInOrder ==
  /\ Len(popped) <= Len(log)
  /\ \A i \in 1..Len(popped) : popped[i] \in {log[i], Unread}

(* An entry the consumer finds marked valid holds the complete value of the *)
(* ticket it looks for: also for a peek ahead of the front.                 *)
MarkedIsPrepared ==
  cpc = "check" /\ Slot(chead).flag = 1 =>
    chead < Len(log) /\ Slot(chead).val = log[chead + 1]

(* GetSize may be stale but never reports more entries than there are, and  *)
(* never wraps below zero.                                                  *)
SizeNeverOverstated ==
  \A o \in Observers : sizeTail[o] # Idle => SizeResult(o) <= tail_ - head_

(* The tickets that wait in the ring, with their values: a ticket's place   *)
(* is ready once its producer has set the flag.                             *)
Waiting == [i \in 1..(tail_ - head_) |->
              [val |-> log[head_ + i],
               ready |-> \A p \in HasTicket : tkt[p] # head_ + i - 1]]

(* The ring implements the ticket queue.                                    *)
Abs == INSTANCE TicketFifo WITH queue <- Waiting, out <- popped
ImplementsTicketFifo == Abs!Spec

(* With a consumer that keeps popping, emplace returns even when the ring   *)
(* was full.                                                                *)
EmplaceReturns == \A p \in Producers : pc[p] # "idle" ~> pc[p] = "idle"

(* Every ticket is consumed, whichever of its two stores is issued first;   *)
(* in a build that keeps their order, with the value its producer gave      *)
(* (unless pop() drops it), in a build that does not, perhaps with a stale  *)
(* one.                                                                     *)
EveryEntryDelivered ==
  \A n \in 1..MaxEmplace :
    Len(log) >= n ~>
      Len(popped) >= n /\ (in_order => popped[n] \in {log[n], Unread})
=============================================================================

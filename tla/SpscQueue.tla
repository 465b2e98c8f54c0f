------------------------------ MODULE SpscQueue ------------------------------
(***************************************************************************)
(* hipc::spsc_queue (data_structures/ipc/spsc_queue.h) and its private      *)
(* counterpart hshm::spsc_queue (data_structures/containers/spsc_queue.h),  *)
(* a ring of depth entries between threads that emplace and threads that   *)
(* pop.  Only the private one has Resize.                                  *)
(*                                                                         *)
(* Each access of head_, tail_ and of an entry is one action.  All of them *)
(* are plain memory: in_order says that the build keeps their order, and    *)
(* without it the store that hands an entry over may come before the       *)
(* access of the entry; "tail_ += 1" may add to the tail_ that was loaded   *)
(* at the start or to the current one.                                     *)
(***************************************************************************)
EXTENDS Naturals, Sequences, FiniteSets

CONSTANTS
  Threads,
  Producers,   \* those that emplace
  Consumers,   \* those that pop
  Values,      \* what they emplace
  Stale,       \* an entry before its first use, or moved from
  Depths,      \* the depths it is made with and Resize is called with
  CanResize,   \* the private queue, which has Resize
  Builds,      \* may the build keep the order of the source, may it not?
  MaxEmplace   \* bound: emplace calls that get an entry

ASSUME SpscAssumption ==
  /\ Producers \cup Consumers \subseteq Threads
  /\ Depths \subseteq Nat
  /\ CanResize \in BOOLEAN /\ Builds \subseteq BOOLEAN
  /\ MaxEmplace \in Nat
  /\ Stale \notin Values

VARIABLES
  in_order,  \* the build keeps the order of the source
  depth, tail_, head_, slots,  \* the ring
  pc,        \* each thread's step
  arg,       \* what it emplaces, or what it has moved out
  tok,       \* the token: tail_ for a producer, head_ for a consumer
  entered,   \* history: what got an entry, in the order of the calls' ends
  popped     \* history: what was popped

ringVars == <<depth, tail_, head_, slots>>
vars == <<in_order, ringVars, pc, arg, tok, entered, popped>>

(* What goes through the queue: stale entries only in a reordering build.   *)
Passed == IF in_order THEN Values ELSE Values \cup {Stale}

TypeOK ==
  /\ in_order \in Builds
  /\ depth \in Depths /\ tail_ \in Nat /\ head_ \in Nat
  /\ slots \in [0..(depth - 1) -> Values \cup {Stale}]
  /\ pc \in [Threads -> {"idle", "space", "store", "append", "late",
                         "tail", "move", "remove", "moveLate"}]
  /\ arg \in [Threads -> Values \cup {Stale}]
  /\ tok \in [Threads -> Nat]
  /\ entered \in Seq(Passed) /\ popped \in Seq(Passed)

Init ==
  /\ in_order \in Builds
  /\ depth \in Depths /\ tail_ = 0 /\ head_ = 0
  /\ slots = [i \in 0..(depth - 1) |-> Stale]
  /\ pc = [t \in Threads |-> "idle"]
  /\ arg = [t \in Threads |-> Stale]
  /\ tok = [t \in Threads |-> 0]
  /\ entered = <<>> /\ popped = <<>>

Goto(t, l) == pc' = [pc EXCEPT ![t] = l]
SetSlot(k, v) == slots' = [slots EXCEPT ![k % depth] = v]

-----------------------------------------------------------------------------
(* emplace.                                                                 *)

(* entry_tok = tail_.                                                       *)
EmplaceBegin(p, v) ==
  /\ pc[p] = "idle"
  /\ tok' = [tok EXCEPT ![p] = tail_]
  /\ arg' = [arg EXCEPT ![p] = v]
  /\ Goto(p, "space")
  /\ UNCHANGED <<in_order, ringVars, entered, popped>>

(* The difference is unsigned: a head_ beyond the tail is a full queue.     *)
Full(tail, head) == tail < head \/ tail - head >= depth

(* No room: the null token is returned.                                     *)
TestSpace(p) ==
  /\ pc[p] = "space"
  /\ Goto(p, IF Full(tok[p], head_) THEN "idle" ELSE "store")
  /\ UNCHANGED <<in_order, ringVars, arg, tok, entered, popped>>

StoreEntry(p) ==
  /\ pc[p] = "store"
  /\ SetSlot(tok[p], arg[p])
  /\ Goto(p, "append")
  /\ UNCHANGED <<in_order, depth, tail_, head_, arg, tok, entered, popped>>

(* tail_ += 1: a load and a store, and the load may be the first one.       *)
AdvanceTail(p) ==
  /\ \E from \in {tok[p], tail_} : tail_' = from + 1
  /\ entered' = Append(entered, arg[p])
  /\ UNCHANGED <<in_order, depth, head_, arg, tok, popped>>

AppendEntry(p) ==
  /\ pc[p] = "append"
  /\ AdvanceTail(p)
  /\ Goto(p, "idle")
  /\ UNCHANGED slots

(* The two stores in the other order.                                       *)
AppendEarly(p) ==
  /\ ~in_order
  /\ pc[p] = "store"
  /\ AdvanceTail(p)
  /\ Goto(p, "late")
  /\ UNCHANGED slots

StoreLate(p) ==
  /\ pc[p] = "late"
  /\ SetSlot(tok[p], arg[p])
  /\ Goto(p, "idle")
  /\ UNCHANGED <<in_order, depth, tail_, head_, arg, tok, entered, popped>>

InEmplace(p) ==
  \/ TestSpace(p) \/ StoreEntry(p) \/ AppendEntry(p)
  \/ AppendEarly(p) \/ StoreLate(p)

-----------------------------------------------------------------------------
(* pop.                                                                     *)

(* head = head_.                                                            *)
PopBegin(c) ==
  /\ pc[c] = "idle"
  /\ tok' = [tok EXCEPT ![c] = head_]
  /\ Goto(c, "tail")
  /\ UNCHANGED <<in_order, ringVars, arg, entered, popped>>

Empty(head, tail) == head >= tail

(* No entry: the null token is returned.                                    *)
TestEmpty(c) ==
  /\ pc[c] = "tail"
  /\ Goto(c, IF Empty(tok[c], tail_) THEN "idle" ELSE "move")
  /\ UNCHANGED <<in_order, ringVars, arg, tok, entered, popped>>

\* Faulty variant: the newest entry is taken, as from a stack.
MoveNewest(c) ==
  /\ pc[c] = "move"
  /\ arg' = [arg EXCEPT ![c] = slots[(tail_ - 1) % depth]]
  /\ SetSlot(tail_ - 1, Stale)
  /\ Goto(c, "remove")
  /\ UNCHANGED <<in_order, depth, tail_, head_, tok, entered, popped>>

(* val = std::move(entry).                                                  *)
MoveEntry(c) ==
  /\ pc[c] = "move"
  /\ arg' = [arg EXCEPT ![c] = slots[tok[c] % depth]]
  /\ SetSlot(tok[c], Stale)
  /\ Goto(c, "remove")
  /\ UNCHANGED <<in_order, depth, tail_, head_, tok, entered, popped>>

\* Faulty variant: the head is not advanced.
RemoveEntryForgotten(c) ==
  /\ pc[c] = "remove"
  /\ popped' = Append(popped, arg[c])
  /\ Goto(c, "idle")
  /\ UNCHANGED <<in_order, ringVars, arg, tok, entered>>

(* head_ += 1.                                                              *)
RemoveEntry(c) ==
  /\ pc[c] = "remove"
  /\ head_' = head_ + 1
  /\ popped' = Append(popped, arg[c])
  /\ Goto(c, "idle")
  /\ UNCHANGED <<in_order, depth, tail_, slots, arg, tok, entered>>

(* The two in the other order.                                              *)
RemoveEarly(c) ==
  /\ ~in_order
  /\ pc[c] = "move"
  /\ head_' = head_ + 1
  /\ Goto(c, "moveLate")
  /\ UNCHANGED <<in_order, depth, tail_, slots, arg, tok, entered, popped>>

MoveLate(c) ==
  /\ pc[c] = "moveLate"
  /\ arg' = [arg EXCEPT ![c] = slots[tok[c] % depth]]
  /\ popped' = Append(popped, slots[tok[c] % depth])
  /\ SetSlot(tok[c], Stale)
  /\ Goto(c, "idle")
  /\ UNCHANGED <<in_order, depth, tail_, head_, tok, entered>>

InPop(c) ==
  \/ TestEmpty(c) \/ MoveEntry(c) \/ RemoveEntry(c)
  \/ RemoveEarly(c) \/ MoveLate(c)

-----------------------------------------------------------------------------
(* The entries from the front to the back.                                  *)
Content == [i \in 1..(tail_ - head_) |-> slots[(head_ + i - 1) % depth]]

Least(a, b) == IF a < b THEN a ELSE b

\* Faulty variant: the new queue is given the newest entries.
ResizeKeepsNewest(n) ==
  /\ CanResize
  /\ \A t \in Threads : pc[t] = "idle"
  /\ LET k == Least(Len(Content), n)
     IN  /\ slots' = [i \in 0..(n - 1) |->
                        IF i < k THEN Content[Len(Content) - k + i + 1] ELSE Stale]
         /\ tail_' = k
  /\ depth' = n /\ head_' = 0
  /\ entered' = SubSeq(entered, 1, Least(Len(entered), Len(popped) + n))
  /\ UNCHANGED <<in_order, pc, arg, tok, popped>>

(* Resize, which is not thread safe: every entry is popped and emplaced in  *)
(* a new queue, which refuses those it has no room for; it replaces this.   *)
(* Refused are the last ones to have entered, and only those beyond the n   *)
(* oldest that are still to be popped.                                      *)
Resize(n) ==
  /\ CanResize
  /\ \A t \in Threads : pc[t] = "idle"
  /\ LET kept == SubSeq(Content, 1, Least(Len(Content), n))
     IN  /\ slots' = [i \in 0..(n - 1) |->
                        IF i < Len(kept) THEN kept[i + 1] ELSE Stale]
         /\ tail_' = Len(kept)
  /\ depth' = n /\ head_' = 0
  /\ entered' = SubSeq(entered, 1, Least(Len(entered), Len(popped) + n))
  /\ UNCHANGED <<in_order, pc, arg, tok, popped>>

Next ==
  \/ \E p \in Producers :
       \/ \E v \in Values : Len(entered) < MaxEmplace /\ EmplaceBegin(p, v)
       \/ InEmplace(p)
  \/ \E c \in Consumers : PopBegin(c) \/ InPop(c)
  \/ \E n \in Depths : Resize(n)

Spec == Init /\ [][Next]_vars

-----------------------------------------------------------------------------
(* What the ring holds: the item a consumer has moved out stays at the      *)
(* front until head_ passes it.                                             *)
Moved == {c \in Threads : pc[c] = "remove"}
Items == [i \in DOMAIN Content |->
            IF i = 1 /\ Moved # {} THEN arg[CHOOSE c \in Moved : TRUE]
                                   ELSE Content[i]]
Abs == INSTANCE BoundedFifo WITH
  Capacities <- Depths, capacity <- depth, out <- popped, items <- Items
=============================================================================

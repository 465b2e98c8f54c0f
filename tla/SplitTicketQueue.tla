-------------------------- MODULE SplitTicketQueue --------------------------
(***************************************************************************)
(* hipc::split_ticket_queue and hshm::split_ticket_queue: NumSplits ticket  *)
(* queues.  emplace and pop start at the split a 16-bit counter points to   *)
(* and try one split after the other.                                      *)
(*                                                                         *)
(* A split is what TicketQueue is shown to implement, a bounded queue       *)
(* (BoundedFifo) whose operations are atomic; the walk over the splits is   *)
(* not: other threads come in between.                                     *)
(***************************************************************************)
EXTENDS Naturals, Sequences, FiniteSets

CONSTANTS
  Producers,   \* the threads that emplace
  Consumers,   \* the threads that pop
  NumSplits,   \* splits_.size()
  Depth,       \* entries per split
  CounterMod,  \* 2^16: rr_tail_ and rr_head_ are uint16_t
  MaxItems     \* bound: tickets emplaced, 1..MaxItems

ASSUME SplitAssumption ==
  /\ Producers \cap Consumers = {}
  /\ NumSplits \in Nat \ {0} /\ CounterMod \in Nat \ {0}
  /\ Depth \in Nat /\ MaxItems \in Nat

VARIABLES
  splits,            \* the content of each split
  rr_tail_, rr_head_,
  left,              \* splits a thread still has to try; 0 outside of a call
  qid,               \* the next one
  tkt,               \* the ticket a producer has yet to emplace, or 0
  next,              \* the tickets are 1, 2, ...: the next one
  popped,            \* history: the tickets popped
  old                \* history: of a call in progress, the tickets (pop) or
                     \* the splits with room (emplace) that were there when
                     \* it began and have been there ever since

splitsVars == <<splits, rr_tail_, rr_head_, left, qid, tkt, next, popped, old>>

Splits == 0..(NumSplits - 1)
Callers == Producers \cup Consumers
Items == 1..MaxItems
Elements(seq) == {seq[i] : i \in DOMAIN seq}
Queued == UNION {Elements(splits[s]) : s \in Splits}
Roomy == {s \in Splits : Len(splits[s]) < Depth}

SplitsTypeOK ==
  /\ splits \in [Splits -> Seq(Items)]
  /\ rr_tail_ \in 0..(CounterMod - 1) /\ rr_head_ \in 0..(CounterMod - 1)
  /\ left \in [Callers -> 0..NumSplits]
  /\ qid \in [Callers -> Splits]
  /\ tkt \in [Producers -> Items \cup {0}]
  /\ next \in 1..(MaxItems + 1)
  /\ popped \subseteq Items

(* The private constructor leaves the counters as it found the memory.      *)
SplitsInit ==
  /\ splits = [s \in Splits |-> <<>>]
  /\ rr_tail_ \in 0..(CounterMod - 1) /\ rr_head_ \in 0..(CounterMod - 1)
  /\ left = [t \in Callers |-> 0]
  /\ qid = [t \in Callers |-> 0]
  /\ tkt = [p \in Producers |-> 0]
  /\ next = 1 /\ popped = {}
  /\ old = [t \in Callers |-> {}]

\* Faulty variant: the last split is not tried.
BeginWalkShort(t, rr) ==
  /\ qid' = [qid EXCEPT ![t] = rr % NumSplits]
  /\ left' = [left EXCEPT ![t] = IF NumSplits > 1 THEN NumSplits - 1 ELSE 1]

(* for (i = 0; i < num_splits; ++i), from qid_start = rr % num_splits.      *)
BeginWalk(t, rr) ==
  /\ qid' = [qid EXCEPT ![t] = rr % NumSplits]
  /\ left' = [left EXCEPT ![t] = NumSplits]

(* This split refused: the next one.  After the last one the null token is  *)
(* returned.                                                                *)
NextSplit(t) ==
  /\ qid' = [qid EXCEPT ![t] = (qid[t] + 1) % NumSplits]
  /\ left' = [left EXCEPT ![t] = left[t] - 1]

Return(t) == left' = [left EXCEPT ![t] = 0] /\ UNCHANGED qid

-----------------------------------------------------------------------------
(* emplace: a producer calls with its own ticket until it gets a token, as  *)
(* the callers' loops do.                                                   *)
EmplaceBegin(p) ==
  /\ left[p] = 0
  /\ \/ tkt[p] # 0 /\ UNCHANGED <<tkt, next>>
     \/ /\ tkt[p] = 0 /\ next \in Items
        /\ tkt' = [tkt EXCEPT ![p] = next]
        /\ next' = next + 1
  /\ rr_tail_' = (rr_tail_ + 1) % CounterMod
  /\ BeginWalk(p, rr_tail_)
  /\ old' = [old EXCEPT ![p] = Roomy]
  /\ UNCHANGED <<splits, rr_head_, popped>>

EmplaceAccepted(p) ==
  /\ left[p] > 0
  /\ Len(splits[qid[p]]) < Depth
  /\ splits' = [splits EXCEPT ![qid[p]] = Append(@, tkt[p])]
  /\ tkt' = [tkt EXCEPT ![p] = 0]
  /\ Return(p)
  /\ old' = [t \in Callers |-> IF t \in Producers
               THEN old[t] \ ({qid[p]} \cap (Splits \ Roomy')) ELSE old[t]]
  /\ UNCHANGED <<rr_tail_, rr_head_, next, popped>>

EmplaceRefused(p) ==
  /\ left[p] > 0
  /\ Len(splits[qid[p]]) >= Depth
  /\ NextSplit(p)
  /\ UNCHANGED <<splits, rr_tail_, rr_head_, tkt, next, popped, old>>

-----------------------------------------------------------------------------
(* pop.                                                                     *)
PopBegin(c) ==
  /\ left[c] = 0
  /\ rr_head_' = (rr_head_ + 1) % CounterMod
  /\ BeginWalk(c, rr_head_)
  /\ old' = [old EXCEPT ![c] = Queued]
  /\ UNCHANGED <<splits, rr_tail_, tkt, next, popped>>

\* Faulty variant: the ticket stays in its split.
PopAcceptedKeeps(c) ==
  /\ left[c] > 0
  /\ splits[qid[c]] # <<>>
  /\ popped' = popped \cup {Head(splits[qid[c]])}
  /\ Return(c)
  /\ UNCHANGED <<splits, rr_tail_, rr_head_, tkt, next, old>>

PopAccepted(c) ==
  /\ left[c] > 0
  /\ splits[qid[c]] # <<>>
  /\ splits' = [splits EXCEPT ![qid[c]] = Tail(@)]
  /\ popped' = popped \cup {Head(splits[qid[c]])}
  /\ Return(c)
  /\ old' = [t \in Callers |-> IF t \in Consumers
               THEN old[t] \ {Head(splits[qid[c]])} ELSE old[t]]
  /\ UNCHANGED <<rr_tail_, rr_head_, tkt, next>>

\* Faulty variant: the walk stays at an empty split until it has a ticket.
PopRefusedWaits(c) ==
  /\ left[c] > 0
  /\ splits[qid[c]] = <<>>
  /\ UNCHANGED splitsVars

PopRefused(c) ==
  /\ left[c] > 0
  /\ splits[qid[c]] = <<>>
  /\ NextSplit(c)
  /\ UNCHANGED <<splits, rr_tail_, rr_head_, tkt, next, popped, old>>

InEmplace(p) == EmplaceBegin(p) \/ EmplaceAccepted(p) \/ EmplaceRefused(p)
InPop(c) == PopBegin(c) \/ PopAccepted(c) \/ PopRefused(c)

SplitsNext == \/ \E p \in Producers : InEmplace(p)
        \/ \E c \in Consumers : InPop(c)

SplitsSpec == SplitsInit /\ [][SplitsNext]_splitsVars

(* A caller's step that takes the lock of split s.                          *)
EntersSplit(s) ==
  \/ \E p \in Producers : qid[p] = s /\ (EmplaceAccepted(p) \/ EmplaceRefused(p))
  \/ \E c \in Consumers : qid[c] = s /\ (PopAccepted(c) \/ PopRefused(c))

(* Consumers poll, as the callers' loops do.  The lock of a split is not    *)
(* left free for ever while somebody wants it (Mutex: LockNotLeftFree), but *)
(* it may always be somebody else who gets it: no caller of its own is sure *)
(* ever to get into a split.                                                *)
SplitsFairSpec ==
  /\ SplitsSpec
  /\ \A c \in Consumers : WF_splitsVars(PopBegin(c))
  /\ \A s \in Splits : WF_splitsVars(EntersSplit(s))

-----------------------------------------------------------------------------
(* Every ticket handed out is carried by one producer, in one place of one  *)
(* split, or popped: none is lost, none is in the queue twice.              *)
EveryTicketOnce ==
  /\ \A s \in Splits, i \in Items :
       Cardinality({k \in DOMAIN splits[s] : splits[s][k] = i}) <= 1
  /\ \A i \in 1..(next - 1) :
       Cardinality({s \in Splits : i \in Elements(splits[s])})
       + Cardinality({p \in Producers : tkt[p] = i})
       + (IF i \in popped THEN 1 ELSE 0) = 1

(* pop returns the null token although the walk is not atomic only when no  *)
(* ticket has been in the queue during the whole call, emplace only when no *)
(* split has had room during the whole call.                                *)
RefusalIsJustified ==
  [][\A t \in Callers : left[t] > 0 /\ left'[t] = 0 /\ splits' = splits =>
       old[t] = {}]_splitsVars

(* Consumers that keep polling empty every split once the producers have    *)
(* put in their last ticket, although each walk starts at another split,    *)
(* others may be faster and any one of them may starve at a lock.  While    *)
(* producers and consumers still compete for the locks nothing is promised. *)
EveryTicketPopped ==
  next > MaxItems /\ (\A p \in Producers : tkt[p] = 0) ~> popped = Items
=============================================================================

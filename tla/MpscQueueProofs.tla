--------------------------- MODULE MpscQueueProofs ---------------------------
(***************************************************************************)
(* The ring of hipc::mpsc_queue delivers what was put in, in ticket order, *)
(* for every number of producers, every depth and every set of values,     *)
(* provided that the build stores a value before its flag.                 *)
(***************************************************************************)
EXTENDS MpscQueue, SequenceTheorems, TLAPS

-----------------------------------------------------------------------------
(* Ring arithmetic: the tickets of a window of Depth consecutive numbers    *)
(* fall on different entries.                                               *)

(* A ticket has an entry of the ring.                                       *)
LEMMA EntryIndex ==
  ASSUME NEW k \in Nat
  PROVE  k % Depth \in 0..(Depth - 1)
  BY MpscAssumption, SMT

(* A ticket and the one a whole round later have the same entry.            *)
LEMMA EntryReused ==
  ASSUME NEW k \in Nat
  PROVE  (k + Depth) % Depth = k % Depth
<1> DEFINE q == k \div Depth
           r == k % Depth
<1>1. q \in Nat /\ r \in 0..(Depth - 1) /\ k = Depth * q + r
  BY MpscAssumption, SMT
<1>2. k + Depth = Depth * (q + 1) + r
  BY <1>1, MpscAssumption, SMT
<1> HIDE DEF q, r
<1>3. (Depth * (q + 1) + r) % Depth = r
  BY <1>1, MpscAssumption, SMT
<1> QED
  BY <1>2, <1>3 DEF r

(* Tickets less than a round apart with the same entry are the same ticket. *)
LEMMA EntryDistinct ==
  ASSUME NEW j \in Nat, NEW k \in Nat, j < k + Depth, k < j + Depth,
         j % Depth = k % Depth
  PROVE  j = k
<1> DEFINE a == j \div Depth
           b == k \div Depth
           r == k % Depth
<1>1. /\ a \in Nat /\ b \in Nat /\ r \in 0..(Depth - 1)
      /\ j = Depth * a + r /\ k = Depth * b + r
  BY MpscAssumption, SMT
<1> HIDE DEF a, b, r
<1>2. ASSUME NEW x \in Nat, NEW y \in Nat, x < y
      PROVE  Depth * x + Depth <= Depth * y
  <2>1. PICK d \in Nat : y = x + 1 + d
    BY <1>2, SMT
  <2>2. Depth * y = Depth * x + Depth + Depth * d /\ Depth * d >= 0
    BY <2>1, MpscAssumption, SMT
  <2> QED
    BY <2>2, MpscAssumption, SMT
<1>3. ~(a < b) /\ ~(b < a)
  BY <1>1, <1>2, MpscAssumption, SMT
<1> QED
  BY <1>1, <1>3, SMT

-----------------------------------------------------------------------------
(* The inductive invariant.                                                 *)

Held(k) == \E p \in HasTicket : tkt[p] = k

(* The ticket k is in the ring, complete, and not yet cleared.              *)
Available(k) == k < tail_ /\ ~Held(k) /\ ~(cpc = "advance" /\ k = head_)

(* Tickets lie between head_ and tail_, each with at most one holder, and   *)
(* those that do not fit in the ring yet have one.                          *)
TicketsInv ==
  /\ tail_ = Len(log) /\ head_ = Len(popped) /\ head_ <= tail_
  /\ \A p \in Producers : pc[p] # "late"
  /\ \A p \in Producers : pc[p] # "idle" => arg[p] \in Values
  /\ \A p \in Producers : pc[p] = "take" => seen[p] <= head_
  /\ \A p \in HasTicket : /\ head_ <= tkt[p] /\ tkt[p] < tail_
                          /\ arg[p] = log[tkt[p] + 1]
  /\ \A p, q \in HasTicket : tkt[p] = tkt[q] => p = q
  /\ \A k \in (head_ + Depth)..(tail_ - 1) : Held(k)

(* The flags of the window that starts at head_ say which tickets are       *)
(* available, and those entries hold their values.                          *)
RingInv ==
  /\ \A p \in Writing : tkt[p] < head_ + Depth
  /\ \A p \in Producers : pc[p] = "publish" => Slot(tkt[p]).val = arg[p]
  /\ \A k \in head_..(head_ + Depth - 1) :
       /\ Slot(k).flag = 1 <=> Available(k)
       /\ Available(k) /\ ~(cpc = "clear" /\ k = head_)
            => Slot(k).val = log[k + 1]

(* Where the consumer is, and what it holds.                                *)
ConsumerInv ==
  /\ cpc # "idle" => head_ <= chead /\ chead < head_ + Depth
  /\ cpc # "idle" /\ call # "peek" => chead = head_
  /\ cpc = "check" => chead < tail_
  /\ cpc \in {"move", "clear", "advance"} =>
       call # "peek" /\ head_ < tail_ /\ ~Held(head_)
  /\ cpc \in {"clear", "advance"} => got \in {log[head_ + 1], Unread}

SizeInv == \A o \in Observers : sizeTail[o] # Idle => sizeTail[o] <= tail_

IInv ==
  /\ TypeOK
  /\ TicketsInv
  /\ RingInv
  /\ ConsumerInv
  /\ DeliveredInOrder
  /\ SizeInv

-----------------------------------------------------------------------------

(* A write to the entry of ticket j changes no other ticket of its window.  *)
LEMMA EntryWrite ==
  ASSUME TypeOK, NEW j \in Nat, NEW e, SetSlot(j, e)
  PROVE  /\ Slot(j)' = e
         /\ \A k \in Nat : k < j + Depth /\ j < k + Depth /\ k # j
              => Slot(k)' = Slot(k)
<1>1. j % Depth \in 0..(Depth - 1)
  BY EntryIndex
<1>2. Slot(j)' = e
  BY <1>1 DEF TypeOK, SetSlot, Slot
<1>3. ASSUME NEW k \in Nat, k < j + Depth, j < k + Depth, k # j
      PROVE  Slot(k)' = Slot(k)
  <2>1. k % Depth \in 0..(Depth - 1) /\ k % Depth # j % Depth
    BY <1>3, EntryIndex, EntryDistinct
  <2> QED
    BY <2>1 DEF TypeOK, SetSlot, Slot
<1> QED
  BY <1>2, <1>3

(* Writing a flag and a value into an entry keeps the ring one of flags and *)
(* values.                                                                  *)
LEMMA EntryType ==
  ASSUME TypeOK, NEW k \in Nat
  PROVE  /\ Slot(k) \in [flag : {0, 1}, val : Values \cup {Stale}]
         /\ \A e \in [flag : {0, 1}, val : Values \cup {Stale}] :
              SetSlot(k, e) =>
                slots' \in [0..(Depth - 1) ->
                              [flag : {0, 1}, val : Values \cup {Stale}]]
  BY EntryIndex DEF TypeOK, Slot, SetSlot

(* The empty ring satisfies the invariant.                                  *)
LEMMA InitInvariant == Init => IInv
<1> SUFFICES ASSUME Init PROVE IInv
  OBVIOUS
<1> USE MpscAssumption DEF Init
<1>1. TypeOK
  BY DEF TypeOK, Idle
<1>2. HasTicket = {} /\ Writing = {}
  BY DEF HasTicket, Writing
<1>3. TicketsInv
  BY <1>2 DEF TicketsInv
<1>4. RingInv
  <2>1. \A k \in Nat : Slot(k).flag = 0
    BY EntryIndex DEF Slot
  <2> QED
    BY <1>2, <2>1 DEF RingInv, Available
<1>5. ConsumerInv /\ DeliveredInOrder /\ SizeInv
  BY DEF ConsumerInv, DeliveredInOrder, SizeInv
<1> QED
  BY <1>1, <1>3, <1>4, <1>5 DEF IInv

-----------------------------------------------------------------------------
(* Producer steps.                                                          *)

(* emplace counts itself and takes its argument: no ticket or entry         *)
(* changes.                                                                 *)
LEMMA EmplaceBeginInvariant ==
  ASSUME IInv, NEW p \in Producers, NEW v \in Values, EmplaceBegin(p, v)
  PROVE  IInv'
<1> USE MpscAssumption DEF IInv, EmplaceBegin, Goto, queueVars, consumerVars
<1>1. TypeOK'
  BY DEF TypeOK
<1>2. HasTicket' = HasTicket /\ Writing' = Writing
  BY DEF TypeOK, HasTicket, Writing
<1>3. \A k : Held(k)' <=> Held(k)
  BY <1>2 DEF Held
<1>4. TicketsInv'
  BY <1>2, <1>3 DEF TypeOK, TicketsInv, HasTicket
<1>5. RingInv'
  BY <1>2, <1>3 DEF TypeOK, RingInv, Available, Slot
<1>6. ConsumerInv' /\ DeliveredInOrder' /\ SizeInv'
  BY <1>3 DEF TypeOK, ConsumerInv, DeliveredInOrder, SizeInv, Idle
<1> QED
  BY <1>1, <1>4, <1>5, <1>6

(* fetch_add of tail_: the new last ticket is held by its producer and its  *)
(* entry is not available.                                                  *)
LEMMA TakeTicketInvariant ==
  ASSUME IInv, NEW p \in Producers, TakeTicket(p)
  PROVE  IInv'
<1> USE MpscAssumption DEF IInv, TakeTicket, consumerVars
<1>1. arg[p] \in Values /\ seen[p] \in Nat /\ seen[p] <= head_
  BY DEF TypeOK, TicketsInv
<1>2. log' = Append(log, arg[p]) /\ log \in Seq(Values) /\ tail_ = Len(log)
  BY DEF TypeOK, TicketsInv
<1>3. /\ log' \in Seq(Values) /\ Len(log') = tail_ + 1
      /\ log'[tail_ + 1] = arg[p]
      /\ \A i \in 1..tail_ : log'[i] = log[i]
  BY <1>1, <1>2
<1>4. TypeOK'
  BY <1>3 DEF TypeOK, Goto
<1>5. Fits(tail_, seen[p]) => tail_ < head_ + Depth
  BY <1>1 DEF TypeOK, Fits
<1>6. /\ HasTicket' = HasTicket \cup {p} /\ p \notin HasTicket
      /\ Writing' = IF Fits(tail_, seen[p]) THEN Writing \cup {p} ELSE Writing
  BY DEF TypeOK, HasTicket, Writing, Goto
<1>7. \A k : Held(k)' <=> Held(k) \/ k = tail_
  BY <1>6 DEF TypeOK, Held, HasTicket
<1>8. TicketsInv'
  <2>1. \A q \in HasTicket' :
          /\ head_' <= tkt'[q] /\ tkt'[q] < tail_'
          /\ arg'[q] = log'[tkt'[q] + 1]
    BY <1>3, <1>6 DEF TypeOK, TicketsInv, HasTicket
  <2>2. \A q, r \in HasTicket' : tkt'[q] = tkt'[r] => q = r
    BY <1>6 DEF TypeOK, TicketsInv, HasTicket
  <2>3. \A k \in (head_' + Depth)..(tail_' - 1) : Held(k)'
    BY <1>7 DEF TypeOK, TicketsInv
  <2>4. \A q \in Producers :
          /\ pc'[q] # "late"
          /\ pc'[q] # "idle" => arg'[q] \in Values
          /\ pc'[q] = "take" => seen'[q] <= head_'
    BY DEF TypeOK, TicketsInv, Goto
  <2>5. tail_' = Len(log') /\ head_' = Len(popped') /\ head_' <= tail_'
    BY <1>3 DEF TypeOK, TicketsInv
  <2> QED
    BY <2>1, <2>2, <2>3, <2>4, <2>5 DEF TicketsInv
<1>9. \A k \in Nat : Available(k)' <=> Available(k)
  BY <1>7 DEF TypeOK, Available
<1>10. RingInv'
  <2>1. \A q \in Writing' : tkt'[q] < head_' + Depth
    <3>1. \A q \in Writing : tkt'[q] = tkt[q] /\ tkt[q] < head_ + Depth
      BY <1>6 DEF TypeOK, RingInv, Writing, HasTicket
    <3>2. tkt'[p] = tail_ /\ head_' = head_
      BY DEF TypeOK
    <3> QED
      BY <1>5, <1>6, <3>1, <3>2
  <2>2. (\A q \in Producers : pc[q] = "publish" => Slot(tkt[q]).val = arg[q])'
    BY DEF TypeOK, RingInv, Slot, Goto
  <2>3. ASSUME NEW k \in head_..(head_ + Depth - 1)
        PROVE  /\ Slot(k)'.flag = 1 <=> Available(k)'
               /\ Available(k)' /\ ~(cpc' = "clear" /\ k = head_')
                     => Slot(k)'.val = log'[k + 1]
    <3>1. k \in Nat /\ Slot(k)' = Slot(k)
      BY DEF TypeOK, Slot
    <3>2. Available(k) => k + 1 \in 1..tail_
      BY <3>1 DEF TypeOK, Available
    <3> QED
      BY <1>3, <1>9, <3>1, <3>2 DEF RingInv
  <2> QED
    BY <2>1, <2>2, <2>3 DEF RingInv
<1>11. ConsumerInv'
  BY <1>3, <1>7 DEF TypeOK, ConsumerInv
<1>12. DeliveredInOrder'
  BY <1>2, <1>3 DEF TypeOK, DeliveredInOrder
<1>13. SizeInv'
  BY DEF TypeOK, SizeInv, Idle
<1> QED
  BY <1>4, <1>8, <1>10, <1>11, <1>12, <1>13

(* A producer leaves the wait only when its ticket lies in the window of    *)
(* the ring.                                                                *)
LEMMA WaitForSpaceInvariant ==
  ASSUME IInv, NEW p \in Producers, WaitForSpace(p)
  PROVE  IInv'
<1> USE MpscAssumption DEF IInv, WaitForSpace, Goto, queueVars, consumerVars
<1>1. TypeOK'
  BY DEF TypeOK
<1>2. HasTicket' = HasTicket /\ Writing' = Writing \cup {p}
  BY DEF TypeOK, HasTicket, Writing
<1>3. \A k : Held(k)' <=> Held(k)
  BY <1>2 DEF Held
<1>4. tkt[p] < head_ + Depth
  BY DEF TypeOK, Fits
<1>5. TicketsInv'
  BY <1>2, <1>3 DEF TypeOK, TicketsInv, HasTicket
<1>6. RingInv'
  BY <1>2, <1>3, <1>4 DEF TypeOK, RingInv, Available, Slot
<1>7. ConsumerInv' /\ DeliveredInOrder' /\ SizeInv'
  BY <1>3 DEF TypeOK, ConsumerInv, DeliveredInOrder, SizeInv, Idle
<1> QED
  BY <1>1, <1>5, <1>6, <1>7

(* The facts shared by the steps that write the entry of p's ticket.        *)
LEMMA WriterFacts ==
  ASSUME IInv, NEW p \in Writing
  PROVE  /\ p \in HasTicket /\ tkt[p] \in Nat
         /\ tkt[p] \in head_..(head_ + Depth - 1)
         /\ Held(tkt[p]) /\ ~Available(tkt[p])
         /\ tkt[p] < tail_ /\ arg[p] = log[tkt[p] + 1] /\ arg[p] \in Values
         /\ cpc \in {"move", "clear", "advance"} => tkt[p] # head_
<1> USE MpscAssumption DEF IInv
<1>1. p \in HasTicket /\ p \in Producers /\ pc[p] # "idle"
  BY DEF Writing, HasTicket
<1>2. tkt[p] \in Nat /\ head_ \in Nat
  BY <1>1 DEF TypeOK
<1>3. tkt[p] \in head_..(head_ + Depth - 1)
  BY <1>1, <1>2 DEF TicketsInv, RingInv
<1>4. Held(tkt[p]) /\ ~Available(tkt[p])
  BY <1>1 DEF Held, Available
<1>5. cpc \in {"move", "clear", "advance"} => tkt[p] # head_
  BY <1>4 DEF ConsumerInv
<1> QED
  BY <1>1, <1>2, <1>3, <1>4, <1>5 DEF TicketsInv

(* A writer that changes its entry without making it available.             *)
LEMMA UnpublishedWrite ==
  ASSUME IInv, NEW p \in Writing, NEW l \in {"store", "publish"},
         NEW e \in [flag : {0, 1}, val : Values \cup {Stale}],
         e.flag = 0, l = "publish" => e.val = arg[p],
         SetSlot(tkt[p], e), pc' = [pc EXCEPT ![p] = l],
         UNCHANGED <<tail_, head_, arg, seen, tkt, consumerVars, sizeTail,
                     log, popped>>
  PROVE  IInv'
<1> USE MpscAssumption DEF IInv, consumerVars
<1>1. p \in Producers /\ tkt[p] \in Nat
  BY WriterFacts DEF Writing
<1>2. TypeOK'
  BY <1>1, EntryType DEF TypeOK
<1>3. HasTicket' = HasTicket /\ Writing' = Writing
  BY <1>1 DEF TypeOK, HasTicket, Writing
<1>4. \A k : (Held(k)' <=> Held(k)) /\ (Available(k)' <=> Available(k))
  BY <1>3 DEF Held, Available
<1>5. TicketsInv'
  BY <1>1, <1>3, <1>4 DEF TypeOK, TicketsInv, HasTicket
<1>6. Slot(tkt[p])' = e
  <2>1. ASSUME NEW j \in Nat, j = tkt[p] PROVE Slot(j)' = e
    BY <2>1, EntryWrite
  <2> QED
    BY <1>1, <2>1 DEF Slot
<1>7. \A k \in head_..(head_ + Depth - 1) : k # tkt[p] => Slot(k)' = Slot(k)
  <2>1. head_ \in Nat /\ tkt[p] \in head_..(head_ + Depth - 1)
    BY WriterFacts DEF TypeOK
  <2> QED
    BY <1>1, <2>1, EntryWrite
<1>8. RingInv'
  <2>1. \A q \in Writing' : tkt'[q] < head_' + Depth
    BY <1>3 DEF RingInv
  <2>2. ASSUME NEW q \in Producers, pc'[q] = "publish"
        PROVE  (Slot(tkt[q]).val = arg[q])'
    <3>1. CASE q = p
      BY <1>1, <1>6, <2>2, <3>1 DEF TypeOK, Slot
    <3>2. CASE q # p
      <4>1. pc[q] = "publish" /\ q \in Writing
        BY <1>1, <2>2, <3>2 DEF TypeOK, Writing
      <4>2. tkt[q] # tkt[p] /\ tkt[q] \in head_..(head_ + Depth - 1)
        BY <3>2, <4>1, WriterFacts DEF TicketsInv
      <4>3. Slot(tkt[q])' = Slot(tkt[q])
        BY <1>7, <4>2 DEF Slot
      <4> QED
        BY <4>1, <4>3 DEF RingInv, Slot
    <3> QED
      BY <3>1, <3>2
  <2>3. ASSUME NEW k \in head_..(head_ + Depth - 1)
        PROVE  /\ Slot(k)'.flag = 1 <=> Available(k)'
               /\ Available(k)' /\ ~(cpc' = "clear" /\ k = head_')
                     => Slot(k)'.val = log'[k + 1]
    <3>1. CASE k = tkt[p]
      BY <1>4, <1>6, <3>1, WriterFacts DEF Slot
    <3>2. CASE k # tkt[p]
      BY <1>4, <1>7, <3>2 DEF RingInv
    <3> QED
      BY <3>1, <3>2
  <2> QED
    BY <2>1, <2>2, <2>3 DEF RingInv
<1>9. ConsumerInv' /\ DeliveredInOrder' /\ SizeInv'
  BY <1>4 DEF TypeOK, ConsumerInv, DeliveredInOrder, SizeInv, Idle
<1> QED
  BY <1>2, <1>5, <1>8, <1>9

(* The first access to the entry keeps it unavailable.                      *)
LEMMA PrepareEntryInvariant ==
  ASSUME IInv, NEW p \in Producers, PrepareEntry(p)
  PROVE  IInv'
<1>1. p \in Writing
  BY DEF PrepareEntry, Writing
<1>2. [flag |-> 0, val |-> Stale] \in [flag : {0, 1}, val : Values \cup {Stale}]
  OBVIOUS
<1> QED
  BY <1>1, <1>2, UnpublishedWrite DEF PrepareEntry, Goto

(* The value lies in the entry before the flag does.                        *)
LEMMA StoreValueInvariant ==
  ASSUME IInv, NEW p \in Producers, StoreValue(p)
  PROVE  IInv'
<1> DEFINE e == [Slot(tkt[p]) EXCEPT !.val = arg[p]]
<1>1. p \in Writing
  BY DEF StoreValue, Writing
<1>2. tkt[p] \in Nat /\ arg[p] \in Values /\ ~Available(tkt[p])
      /\ tkt[p] \in head_..(head_ + Depth - 1)
  BY <1>1, WriterFacts
<1>3. Slot(tkt[p]) \in [flag : {0, 1}, val : Values \cup {Stale}]
  BY <1>2, EntryType DEF IInv
<1>4. Slot(tkt[p]).flag = 0
  BY <1>2, <1>3 DEF IInv, RingInv
<1>5. /\ e \in [flag : {0, 1}, val : Values \cup {Stale}]
      /\ e.flag = 0 /\ e.val = arg[p]
  BY <1>2, <1>3, <1>4
<1> HIDE DEF e
<1> QED
  BY <1>1, <1>5, UnpublishedWrite DEF StoreValue, Goto, e

(* The flag makes one ticket available, and the producer lets go of it.     *)
LEMMA SetFlagInvariant ==
  ASSUME IInv, NEW p \in Producers, SetFlag(p)
  PROVE  IInv'
<1> DEFINE e == [Slot(tkt[p]) EXCEPT !.flag = 1]
<1> USE MpscAssumption DEF IInv, consumerVars
<1>1. p \in Writing /\ pc[p] = "publish"
  BY DEF SetFlag, Writing
<1>2. /\ p \in HasTicket /\ tkt[p] \in Nat /\ tkt[p] < tail_
      /\ tkt[p] \in head_..(head_ + Depth - 1)
      /\ arg[p] = log[tkt[p] + 1]
      /\ cpc \in {"move", "clear", "advance"} => tkt[p] # head_
  BY <1>1, WriterFacts
<1>3. Slot(tkt[p]) \in [flag : {0, 1}, val : Values \cup {Stale}]
  BY <1>2, EntryType
<1>4. /\ e \in [flag : {0, 1}, val : Values \cup {Stale}]
      /\ e.flag = 1 /\ e.val = arg[p]
  BY <1>1, <1>3 DEF RingInv
<1>5. SetSlot(tkt[p], e)
  BY DEF SetFlag
<1> HIDE DEF e
<1>6. TypeOK'
  BY <1>2, <1>4, <1>5, EntryType DEF TypeOK, SetFlag, Goto
<1>7. HasTicket' = HasTicket \ {p} /\ Writing' = Writing \ {p}
  BY DEF TypeOK, HasTicket, Writing, SetFlag, Goto
<1>8. \A k : Held(k)' <=> Held(k) /\ k # tkt[p]
  BY <1>2, <1>7 DEF TicketsInv, Held, SetFlag
<1>9. \A k : Available(k)' <=> Available(k) \/ k = tkt[p]
  BY <1>2, <1>8 DEF Available, SetFlag
<1>10. TicketsInv'
  <2>1. \A k \in (head_' + Depth)..(tail_' - 1) : Held(k)'
    <3>1. head_ \in Nat /\ head_' = head_ /\ tail_' = tail_ /\ tkt[p] < head_ + Depth
      BY <1>2, MpscAssumption DEF TypeOK, SetFlag
    <3>2. \A k \in (head_ + Depth)..(tail_ - 1) : Held(k)
      BY DEF TicketsInv
    <3> QED
      BY <1>2, <1>8, <3>1, <3>2
  <2> QED
    BY <1>7, <2>1 DEF TypeOK, TicketsInv, HasTicket, SetFlag, Goto
<1>11. \A k \in Nat : k = tkt[p] => Slot(k)' = e
  BY <1>2, <1>5, EntryWrite
<1>12. \A k \in head_..(head_ + Depth - 1) : k # tkt[p] => Slot(k)' = Slot(k)
  <2>1. head_ \in Nat
    BY DEF TypeOK
  <2> QED
    BY <1>2, <1>5, <2>1, EntryWrite
<1>13. RingInv'
  <2>1. \A q \in Writing' : tkt'[q] < head_' + Depth
    BY <1>7 DEF RingInv, SetFlag
  <2>2. ASSUME NEW q \in Producers, pc'[q] = "publish"
        PROVE  (Slot(tkt[q]).val = arg[q])'
    <3>1. q # p /\ pc[q] = "publish" /\ q \in Writing
      BY <2>2 DEF TypeOK, Writing, SetFlag, Goto
    <3>2. tkt[q] # tkt[p] /\ tkt[q] \in head_..(head_ + Depth - 1)
      BY <1>2, <3>1, WriterFacts DEF TicketsInv
    <3>3. Slot(tkt[q])' = Slot(tkt[q])
      BY <1>12, <3>2 DEF Slot, SetFlag
    <3> QED
      BY <3>1, <3>3 DEF RingInv, Slot, SetFlag
  <2>3. ASSUME NEW k \in head_..(head_ + Depth - 1)
        PROVE  /\ Slot(k)'.flag = 1 <=> Available(k)'
               /\ Available(k)' /\ ~(cpc' = "clear" /\ k = head_')
                     => Slot(k)'.val = log'[k + 1]
    <3>0. k \in Nat
      BY DEF TypeOK
    <3>1. CASE k = tkt[p]
      BY <1>2, <1>4, <1>9, <1>11, <3>0, <3>1 DEF SetFlag
    <3>2. CASE k # tkt[p]
      BY <1>9, <1>12, <3>2 DEF RingInv, SetFlag
    <3> QED
      BY <3>1, <3>2
  <2>4. head_' = head_
    BY DEF SetFlag
  <2> QED
    BY <2>1, <2>2, <2>3, <2>4 DEF RingInv
<1>14. ConsumerInv' /\ DeliveredInOrder' /\ SizeInv'
  BY <1>8 DEF TypeOK, ConsumerInv, DeliveredInOrder, SizeInv, Idle, SetFlag
<1> QED
  BY <1>6, <1>10, <1>13, <1>14

-----------------------------------------------------------------------------
(* Consumer and observer steps.                                             *)

(* A consumer step that only moves the consumer.                            *)
LEMMA ConsumerMoves ==
  ASSUME IInv, ConsumerInv', UNCHANGED <<queueVars, producerVars, log, popped>>,
         cpc' \notin {"clear", "advance"}, cpc \notin {"clear", "advance"},
         cpc' \in {"idle", "tail", "check", "move"},
         call' \in {"pop", "drop", "peek"}, chead' \in Nat,
         got' \in Values \cup {Stale, Unread},
         sizeTail' = sizeTail
  PROVE  IInv'
<1> USE MpscAssumption DEF IInv, queueVars, producerVars
<1>1. TypeOK'
  BY DEF TypeOK
<1>2. HasTicket' = HasTicket /\ Writing' = Writing
  BY DEF HasTicket, Writing
<1>3. \A k : (Held(k)' <=> Held(k)) /\ (Available(k)' <=> Available(k))
  BY <1>2 DEF Held, Available
<1>4. TicketsInv'
  BY <1>2, <1>3 DEF TicketsInv
<1>5. RingInv'
  BY <1>2, <1>3 DEF RingInv, Slot
<1>6. DeliveredInOrder' /\ SizeInv'
  BY DEF DeliveredInOrder, SizeInv, Idle
<1> QED
  BY <1>1, <1>4, <1>5, <1>6

(* The beginning of pop and peek and the load of the tail change only what  *)
(* the consumer knows.                                                      *)
LEMMA ConsumerQuietInvariant ==
  ASSUME IInv, PopBegin \/ PeekBegin \/ LoadTail
  PROVE  IInv'
<1> USE MpscAssumption DEF IInv
<1>1. head_ \in Nat /\ tail_ \in Nat /\ chead \in Nat
  BY DEF TypeOK
<1>2. got \in Values \cup {Stale, Unread}
  BY DEF TypeOK
<1>3. CASE PopBegin
  <2>1. ConsumerInv'
    BY <1>1, <1>3 DEF ConsumerInv, PopBegin, queueVars
  <2> QED
    BY <1>1, <1>2, <1>3, <2>1, ConsumerMoves DEF PopBegin
<1>4. CASE PeekBegin
  <2>1. PICK off \in 0..(Depth - 1) : chead' = head_ + off
    BY <1>4 DEF PeekBegin
  <2>2. chead' \in Nat /\ head_ <= chead' /\ chead' < head_ + Depth
    BY <1>1, <2>1
  <2>3. ConsumerInv'
    BY <1>4, <2>2 DEF ConsumerInv, PeekBegin, queueVars
  <2> QED
    BY <1>2, <1>4, <2>2, <2>3, ConsumerMoves DEF PeekBegin
<1>5. CASE LoadTail
  <2>1. ConsumerInv'
    BY <1>1, <1>5 DEF ConsumerInv, LoadTail, queueVars
  <2>2. call \in {"pop", "drop", "peek"}
    BY DEF TypeOK
  <2> QED
    BY <1>1, <1>2, <1>5, <2>1, <2>2, ConsumerMoves DEF LoadTail
<1> QED
  BY <1>3, <1>4, <1>5

(* What a set flag tells the consumer about the ticket it looks for.        *)
LEMMA MarkedFacts ==
  ASSUME IInv, cpc = "check", Slot(chead).flag = 1
  PROVE  Available(chead) /\ Slot(chead).val = log[chead + 1]
<1>1. chead \in head_..(head_ + Depth - 1)
  BY MpscAssumption DEF IInv, TypeOK, ConsumerInv
<1> QED
  BY <1>1 DEF IInv, RingInv

(* A set flag at the front means that the front ticket is complete.         *)
LEMMA CheckFlagInvariant ==
  ASSUME IInv, CheckFlag
  PROVE  IInv'
<1> USE MpscAssumption DEF IInv, CheckFlag
<1>1. HasTicket' = HasTicket /\ (\A k : Held(k)' <=> Held(k))
  BY DEF HasTicket, Held, producerVars
<1>2. CASE Slot(chead).flag = 1 /\ call # "peek"
  <2>1. chead = head_ /\ head_ < tail_ /\ ~Held(head_)
    BY <1>2, MarkedFacts DEF ConsumerInv, Available
  <2>2. CASE call = "drop"
    <3>1. cpc' = "clear"
      BY <1>2, <2>2 DEF AfterCheck
    <3>2. TypeOK'
      BY <3>1 DEF TypeOK, queueVars, producerVars
    <3>3. Writing' = Writing
      BY DEF Writing, producerVars
    <3>4. \A k : Available(k)' <=> Available(k)
      BY <1>1, <3>1 DEF Available, queueVars
    <3>5. TicketsInv' /\ DeliveredInOrder' /\ SizeInv'
      BY <1>1 DEF TicketsInv, DeliveredInOrder, SizeInv, Idle, queueVars,
                  producerVars
    <3>6. RingInv'
      BY <3>3, <3>4 DEF RingInv, Slot, queueVars, producerVars
    <3>7. ConsumerInv'
      BY <1>1, <2>1, <2>2, <3>1 DEF TypeOK, ConsumerInv, queueVars
    <3> QED
      BY <3>2, <3>5, <3>6, <3>7
  <2>3. CASE call = "pop"
    <3>1. cpc' = "move"
      BY <1>2, <2>3 DEF AfterCheck
    <3>2. ConsumerInv'
      BY <1>1, <2>1, <2>3, <3>1 DEF TypeOK, ConsumerInv, queueVars
    <3> QED
      BY <3>1, <3>2, ConsumerMoves DEF TypeOK
  <2> QED
    BY <1>2, <2>2, <2>3 DEF TypeOK
<1>3. CASE ~(Slot(chead).flag = 1 /\ call # "peek")
  <2>1. cpc' = "idle"
    BY <1>3 DEF AfterCheck
  <2>2. ConsumerInv'
    BY <2>1 DEF ConsumerInv
  <2> QED
    BY <2>1, <2>2, ConsumerMoves DEF TypeOK
<1> QED
  BY <1>2, <1>3

(* The facts of a consumer that is taking the front entry.                  *)
LEMMA TakingFacts ==
  ASSUME IInv, cpc \in {"move", "clear", "advance"}
  PROVE  /\ chead = head_ /\ head_ \in Nat /\ head_ < tail_ /\ ~Held(head_)
         /\ \A p \in Writing : tkt[p] # head_
         /\ Slot(head_) \in [flag : {0, 1}, val : Values \cup {Stale}]
<1>1. chead = head_ /\ head_ \in Nat /\ head_ < tail_ /\ ~Held(head_)
  BY DEF IInv, TypeOK, ConsumerInv
<1> QED
  BY <1>1, WriterFacts, EntryType DEF IInv

(* The consumer moves the front value out and remembers it.                 *)
LEMMA MoveValueInvariant ==
  ASSUME IInv, MoveValue
  PROVE  IInv'
<1> DEFINE e == [Slot(head_) EXCEPT !.val = Stale]
<1> USE MpscAssumption DEF IInv, MoveValue, producerVars
<1>1. /\ chead = head_ /\ head_ \in Nat /\ head_ < tail_ /\ ~Held(head_)
      /\ \A p \in Writing : tkt[p] # head_
      /\ Slot(head_) \in [flag : {0, 1}, val : Values \cup {Stale}]
  BY TakingFacts
<1>2. /\ e \in [flag : {0, 1}, val : Values \cup {Stale}]
      /\ e.flag = Slot(head_).flag
  BY <1>1
<1>3. SetSlot(head_, e)
  BY <1>1
<1> HIDE DEF e
<1>4. Available(head_) /\ got' = log[head_ + 1]
  BY <1>1 DEF Available, RingInv
<1>5. TypeOK'
  <2>1. got' \in Values
    BY <1>1, <1>4 DEF TypeOK, TicketsInv
  <2> QED
    BY <1>1, <1>2, <1>3, <2>1, EntryType DEF TypeOK
<1>6. HasTicket' = HasTicket /\ Writing' = Writing
  BY DEF HasTicket, Writing
<1>7. \A k : (Held(k)' <=> Held(k)) /\ (Available(k)' <=> Available(k))
  BY <1>6 DEF Held, Available
<1>8. TicketsInv' /\ DeliveredInOrder' /\ SizeInv'
  BY <1>6, <1>7 DEF TicketsInv, DeliveredInOrder, SizeInv, Idle
<1>9. \A k \in Nat : k = head_ => Slot(k)' = e
  BY <1>1, <1>3, EntryWrite
<1>10. \A k \in head_..(head_ + Depth - 1) : k # head_ => Slot(k)' = Slot(k)
  BY <1>1, <1>3, EntryWrite
<1>11. RingInv'
  <2>1. ASSUME NEW q \in Producers, pc'[q] = "publish"
        PROVE  (Slot(tkt[q]).val = arg[q])'
    <3>1. q \in Writing /\ pc[q] = "publish"
      BY <2>1 DEF Writing
    <3>2. tkt[q] # head_ /\ tkt[q] \in head_..(head_ + Depth - 1)
      BY <1>1, <3>1, WriterFacts
    <3>3. Slot(tkt[q])' = Slot(tkt[q])
      BY <1>10, <3>2 DEF Slot
    <3> QED
      BY <3>1, <3>3 DEF RingInv, Slot
  <2>2. ASSUME NEW k \in head_..(head_ + Depth - 1)
        PROVE  /\ Slot(k)'.flag = 1 <=> Available(k)'
               /\ Available(k)' /\ ~(cpc' = "clear" /\ k = head_')
                     => Slot(k)'.val = log'[k + 1]
    <3>1. CASE k = head_
      BY <1>1, <1>2, <1>7, <1>9, <3>1 DEF RingInv
    <3>2. CASE k # head_
      BY <1>7, <1>10, <3>2 DEF RingInv
    <3> QED
      BY <3>1, <3>2
  <2> QED
    BY <1>6, <2>1, <2>2 DEF RingInv
<1>12. ConsumerInv'
  BY <1>1, <1>4, <1>7 DEF ConsumerInv
<1> QED
  BY <1>5, <1>8, <1>11, <1>12

(* Clearing the flag takes the front ticket out of the available ones;      *)
(* nobody writes there yet.                                                 *)
LEMMA ClearFlagInvariant ==
  ASSUME IInv, ClearFlag
  PROVE  IInv'
<1> DEFINE e == [Slot(head_) EXCEPT !.flag = 0]
<1> USE MpscAssumption DEF IInv, ClearFlag, producerVars
<1>1. /\ chead = head_ /\ head_ \in Nat /\ head_ < tail_ /\ ~Held(head_)
      /\ \A p \in Writing : tkt[p] # head_
      /\ Slot(head_) \in [flag : {0, 1}, val : Values \cup {Stale}]
  BY TakingFacts
<1>2. e \in [flag : {0, 1}, val : Values \cup {Stale}] /\ e.flag = 0
  BY <1>1
<1>3. SetSlot(head_, e)
  BY <1>1
<1> HIDE DEF e
<1>4. TypeOK'
  BY <1>1, <1>2, <1>3, EntryType DEF TypeOK
<1>5. HasTicket' = HasTicket /\ Writing' = Writing
  BY DEF HasTicket, Writing
<1>6. \A k : Held(k)' <=> Held(k)
  BY <1>5 DEF Held
<1>7. \A k : Available(k)' <=> Available(k) /\ k # head_
  BY <1>6 DEF Available
<1>8. TicketsInv' /\ DeliveredInOrder' /\ SizeInv'
  BY <1>5, <1>6 DEF TicketsInv, DeliveredInOrder, SizeInv, Idle
<1>9. \A k \in Nat : k = head_ => Slot(k)' = e
  BY <1>1, <1>3, EntryWrite
<1>10. \A k \in head_..(head_ + Depth - 1) : k # head_ => Slot(k)' = Slot(k)
  BY <1>1, <1>3, EntryWrite
<1>11. RingInv'
  <2>1. ASSUME NEW q \in Producers, pc'[q] = "publish"
        PROVE  (Slot(tkt[q]).val = arg[q])'
    <3>1. q \in Writing /\ pc[q] = "publish"
      BY <2>1 DEF Writing
    <3>2. tkt[q] # head_ /\ tkt[q] \in head_..(head_ + Depth - 1)
      BY <1>1, <3>1, WriterFacts
    <3>3. Slot(tkt[q])' = Slot(tkt[q])
      BY <1>10, <3>2 DEF Slot
    <3> QED
      BY <3>1, <3>3 DEF RingInv, Slot
  <2>2. ASSUME NEW k \in head_..(head_ + Depth - 1)
        PROVE  /\ Slot(k)'.flag = 1 <=> Available(k)'
               /\ Available(k)' /\ ~(cpc' = "clear" /\ k = head_')
                     => Slot(k)'.val = log'[k + 1]
    <3>1. CASE k = head_
      BY <1>1, <1>2, <1>7, <1>9, <3>1
    <3>2. CASE k # head_
      BY <1>7, <1>10, <3>2 DEF RingInv
    <3> QED
      BY <3>1, <3>2
  <2> QED
    BY <1>5, <2>1, <2>2 DEF RingInv
<1>12. ConsumerInv'
  BY <1>1, <1>6 DEF ConsumerInv
<1> QED
  BY <1>4, <1>8, <1>11, <1>12

(* A ticket that does not fit in the ring yet has a holder.                 *)
LEMMA WaitingHeld ==
  ASSUME IInv, NEW k \in Nat, head_ + Depth <= k, k < tail_
  PROVE  Held(k)
<1>1. head_ \in Nat /\ tail_ \in Nat /\ Depth \in Nat
  BY MpscAssumption DEF IInv, TypeOK
<1>2. k \in (head_ + Depth)..(tail_ - 1)
  BY <1>1
<1> QED
  BY <1>2 DEF IInv, TicketsInv

(* head_ moves by one: the window gains one ticket, whose entry is the one  *)
(* just cleared.                                                            *)
LEMMA AdvanceHeadInvariant ==
  ASSUME IInv, AdvanceHead
  PROVE  IInv'
<1> USE MpscAssumption DEF IInv, AdvanceHead, producerVars
<1>1. /\ chead = head_ /\ head_ \in Nat /\ head_ < tail_ /\ ~Held(head_)
      /\ \A p \in Writing : tkt[p] # head_
  BY TakingFacts
<1>2. /\ popped \in Seq(Values \cup {Stale, Unread}) /\ Len(popped) = head_
      /\ got \in Values \cup {Stale, Unread}
      /\ got \in {log[head_ + 1], Unread}
  BY DEF TypeOK, TicketsInv, ConsumerInv
<1>3. /\ popped' \in Seq(Values \cup {Stale, Unread})
      /\ Len(popped') = head_ + 1 /\ popped'[head_ + 1] = got
      /\ \A i \in 1..head_ : popped'[i] = popped[i]
  BY <1>1, <1>2
<1>4. TypeOK'
  BY <1>1, <1>3 DEF TypeOK
<1>5. HasTicket' = HasTicket /\ Writing' = Writing
  BY DEF HasTicket, Writing
<1>6. \A k : Held(k)' <=> Held(k)
  BY <1>5 DEF Held
<1>7. TicketsInv'
  <2>1. \A p \in HasTicket : head_ + 1 <= tkt[p]
    BY <1>1 DEF TypeOK, TicketsInv, Held, HasTicket
  <2>2. ASSUME NEW k \in (head_' + Depth)..(tail_' - 1) PROVE Held(k)'
    <3>1. k \in Nat /\ head_ + Depth <= k /\ k < tail_
      BY <1>1 DEF TypeOK
    <3> QED
      BY <1>6, <3>1, WaitingHeld
  <2>3. head_' = Len(popped') /\ head_' <= tail_'
    BY <1>1, <1>3 DEF TypeOK
  <2>4. \A p \in Producers : pc[p] = "take" => seen[p] <= head_ + 1
    BY <1>1 DEF TypeOK, TicketsInv
  <2> QED
    BY <1>5, <2>1, <2>2, <2>3, <2>4 DEF TicketsInv
<1>8. RingInv'
  <2>1. \A p \in Writing' : tkt'[p] < head_' + Depth
    BY <1>1, <1>5 DEF TypeOK, RingInv, Writing
  <2>2. (\A p \in Producers : pc[p] = "publish" => Slot(tkt[p]).val = arg[p])'
    BY DEF RingInv, Slot
  <2>3. ASSUME NEW k \in head_'..(head_' + Depth - 1)
        PROVE  /\ Slot(k)'.flag = 1 <=> Available(k)'
               /\ Available(k)' /\ ~(cpc' = "clear" /\ k = head_')
                     => Slot(k)'.val = log'[k + 1]
    <3>1. k \in Nat /\ Slot(k)' = Slot(k) /\ k # head_
      BY <1>1 DEF Slot
    <3>2. CASE k < head_ + Depth
      <4>1. k \in head_..(head_ + Depth - 1)
        BY <1>1, <3>1, <3>2
      <4>2. Available(k)' <=> Available(k)
        BY <1>6, <3>1 DEF Available
      <4> QED
        BY <3>1, <4>1, <4>2 DEF RingInv
    <3>3. CASE k = head_ + Depth
      <4>1. Slot(k) = Slot(head_)
        BY <1>1, <3>3, EntryReused DEF Slot
      <4>2. Slot(head_).flag # 1
        BY <1>1 DEF RingInv, Available
      <4>3. k < tail_ => Held(k)
        BY <3>1, <3>3, WaitingHeld
      <4> QED
        BY <1>6, <3>1, <4>1, <4>2, <4>3 DEF Available
    <3> QED
      BY <1>1, <3>1, <3>2, <3>3
  <2> QED
    BY <2>1, <2>2, <2>3 DEF RingInv
<1>9. ConsumerInv'
  BY DEF ConsumerInv
<1>10. DeliveredInOrder'
  BY <1>1, <1>2, <1>3 DEF TypeOK, TicketsInv, DeliveredInOrder
<1>11. SizeInv'
  BY DEF SizeInv, Idle
<1> QED
  BY <1>4, <1>7, <1>8, <1>9, <1>10, <1>11

(* An observer loads the tail and the head and changes nothing.             *)
LEMMA GetSizeInvariant ==
  ASSUME IInv, NEW o \in Observers, GetSizeTail(o) \/ GetSizeHead(o)
  PROVE  IInv'
<1> USE MpscAssumption
    DEF IInv, GetSizeTail, GetSizeHead, queueVars, producerVars, consumerVars
<1>1. Idle \in Nat
  BY DEF Idle
<1>2. TypeOK'
  BY <1>1 DEF TypeOK
<1>3. HasTicket' = HasTicket /\ Writing' = Writing
  BY DEF HasTicket, Writing
<1>4. \A k : (Held(k)' <=> Held(k)) /\ (Available(k)' <=> Available(k))
  BY <1>3 DEF Held, Available
<1>5. TicketsInv' /\ ConsumerInv' /\ DeliveredInOrder'
  <2>1. TicketsInv'
    BY <1>3, <1>4 DEF TicketsInv
  <2>2. ConsumerInv'
    BY <1>4 DEF ConsumerInv
  <2>3. DeliveredInOrder'
    BY DEF DeliveredInOrder
  <2> QED
    BY <2>1, <2>2, <2>3
<1>6. RingInv'
  BY <1>3, <1>4 DEF RingInv, Slot
<1>7. SizeInv'
  <2>1. CASE GetSizeTail(o)
    BY <2>1 DEF TypeOK, SizeInv, Idle
  <2>2. CASE GetSizeHead(o)
    BY <2>2 DEF TypeOK, SizeInv, Idle
  <2> QED
    BY <2>1, <2>2
<1> QED
  BY <1>2, <1>5, <1>6, <1>7

-----------------------------------------------------------------------------

(* Every step of producers, consumer and observers preserves the invariant. *)
LEMMA NextInvariant ==
  ASSUME in_order, IInv, [Next]_allVars
  PROVE  in_order' /\ IInv'
<1>1. ASSUME UNCHANGED allVars PROVE IInv'
  <2> USE <1>1 DEF allVars, vars, queueVars, producerVars, consumerVars, IInv
  <2>1. HasTicket' = HasTicket /\ Writing' = Writing
    BY DEF HasTicket, Writing
  <2>2. \A k : (Held(k)' <=> Held(k)) /\ (Available(k)' <=> Available(k))
    BY <2>1 DEF Held, Available
  <2>3. TypeOK' /\ DeliveredInOrder' /\ SizeInv'
    BY DEF TypeOK, DeliveredInOrder, SizeInv, Idle
  <2>4. TicketsInv' /\ ConsumerInv'
    BY <2>1, <2>2 DEF TicketsInv, ConsumerInv
  <2>5. RingInv'
    BY <2>1, <2>2 DEF RingInv, Slot
  <2> QED
    BY <2>3, <2>4, <2>5, Zenon
<1>2. ASSUME NEW p \in Producers, NEW v \in Values, EmplaceBegin(p, v)
      PROVE  IInv'
  BY <1>2, EmplaceBeginInvariant
<1>3. ASSUME NEW p \in Producers, InEmplace(p) PROVE IInv'
  <2>1. ~SetFlagEarly(p)
    BY DEF SetFlagEarly
  <2>2. ~StoreValueLate(p)
    BY DEF StoreValueLate, IInv, TicketsInv
  <2> QED
    BY <1>3, <2>1, <2>2, TakeTicketInvariant, WaitForSpaceInvariant,
       PrepareEntryInvariant, StoreValueInvariant, SetFlagInvariant
    DEF InEmplace
<1>4. ASSUME PopBegin \/ PeekBegin \/ InConsumer PROVE IInv'
  BY <1>4, ConsumerQuietInvariant, CheckFlagInvariant, MoveValueInvariant,
     ClearFlagInvariant, AdvanceHeadInvariant DEF InConsumer
<1>5. ASSUME NEW o \in Observers, GetSizeTail(o) \/ GetSizeHead(o) PROVE IInv'
  BY <1>5, GetSizeInvariant
<1>6. IInv'
  BY <1>1, <1>2, <1>3, <1>4, <1>5 DEF Next
<1>7. in_order' = in_order
  BY DEF Next, allVars
<1> QED
  BY <1>6, <1>7

(* Every reachable state of a build that keeps the order of the stores      *)
(* satisfies the inductive invariant.                                       *)
THEOREM MpscInvariant ==
  ASSUME Builds = {TRUE}
  PROVE  Spec => [](in_order /\ IInv)
<1>1. Init => in_order /\ IInv
  BY InitInvariant DEF Init
<1>2. (in_order /\ IInv) /\ [Next]_allVars => (in_order /\ IInv)'
  BY NextInvariant
<1> QED
  BY <1>1, <1>2, PTL DEF Spec

(* The consumer removes what was emplaced, in ticket order: nothing is      *)
(* lost, repeated, overtaken or torn (mpsc_queue::emplace and pop).         *)
THEOREM MpscDelivery ==
  ASSUME Builds = {TRUE}
  PROVE  Spec => []DeliveredInOrder
<1>1. IInv => DeliveredInOrder
  BY DEF IInv
<1> QED
  BY <1>1, MpscInvariant, PTL

(* Two producers never write one entry, and none writes the entry being     *)
(* popped (the data races the flag and the two counters must prevent).      *)
THEOREM MpscExclusion ==
  ASSUME Builds = {TRUE}
  PROVE  Spec => []EntryExclusive
<1>1. IInv => EntryExclusive
  <2> SUFFICES ASSUME IInv PROVE EntryExclusive
    OBVIOUS
  <2>1. ASSUME NEW p \in Writing, NEW q \in Writing,
               tkt[p] % Depth = tkt[q] % Depth
        PROVE  p = q
    <3>1. /\ tkt[p] \in Nat /\ tkt[q] \in Nat /\ head_ \in Nat
          /\ tkt[p] \in head_..(head_ + Depth - 1)
          /\ tkt[q] \in head_..(head_ + Depth - 1)
      BY WriterFacts DEF IInv, TypeOK
    <3>2. tkt[p] < tkt[q] + Depth /\ tkt[q] < tkt[p] + Depth
      BY <3>1, MpscAssumption
    <3>3. tkt[p] = tkt[q]
      BY <2>1, <3>1, <3>2, EntryDistinct
    <3> QED
      BY <3>3, WriterFacts DEF IInv, TicketsInv
  <2>2. ASSUME cpc \in {"move", "clear", "advance"}, NEW p \in Writing
        PROVE  tkt[p] % Depth # chead % Depth
    <3>1. /\ tkt[p] \in Nat /\ chead = head_ /\ head_ \in Nat
          /\ tkt[p] \in head_..(head_ + Depth - 1) /\ tkt[p] # head_
      BY <2>2, WriterFacts, TakingFacts
    <3> QED
      BY <3>1, EntryDistinct, MpscAssumption
  <2> QED
    BY <2>1, <2>2 DEF EntryExclusive
<1> QED
  BY <1>1, MpscInvariant, PTL

(* An entry found marked valid by pop or peek holds the whole value of the  *)
(* ticket that the consumer looks for.                                      *)
THEOREM MpscMarked ==
  ASSUME Builds = {TRUE}
  PROVE  Spec => []MarkedIsPrepared
<1>1. IInv => MarkedIsPrepared
  BY MarkedFacts DEF IInv, MarkedIsPrepared, Available, TicketsInv
<1> QED
  BY <1>1, MpscInvariant, PTL

(* The counters, the entries and the steps of the threads stay in range.    *)
THEOREM MpscTypeCorrect ==
  ASSUME Builds = {TRUE}
  PROVE  Spec => []TypeOK
<1>1. IInv => TypeOK
  BY DEF IInv
<1> QED
  BY <1>1, MpscInvariant, PTL

(* GetSize loads the tail before the head: what it returns is never more    *)
(* than what is in the queue when it returns.                               *)
THEOREM MpscSizeNeverOverstated ==
  ASSUME Builds = {TRUE}
  PROVE  Spec => []SizeNeverOverstated
<1>1. IInv => SizeNeverOverstated
  <2> SUFFICES ASSUME IInv, NEW o \in Observers, sizeTail[o] # Idle
               PROVE  SizeResult(o) <= tail_ - head_
    BY DEF SizeNeverOverstated
  <2>1. sizeTail[o] \in Nat /\ head_ \in Nat /\ tail_ \in Nat
    BY DEF IInv, TypeOK
  <2>2. head_ <= tail_ /\ sizeTail[o] <= tail_
    BY DEF IInv, TicketsInv, SizeInv
  <2> QED
    BY <2>1, <2>2 DEF SizeResult
<1> QED
  BY <1>1, MpscInvariant, PTL

-----------------------------------------------------------------------------
(* The ring implements TicketFifo: every step of it is a step of the        *)
(* abstract queue, whose content is Waiting, or changes nothing there.      *)

Places == [val : Values, ready : BOOLEAN]

WaitingOk ==
  /\ tail_ - head_ \in Nat /\ head_ \in Nat /\ tail_ \in Nat
  /\ Waiting \in Seq(Places) /\ Len(Waiting) = tail_ - head_
  /\ \A i \in 1..(tail_ - head_) :
       /\ Waiting[i].val = log[head_ + i]
       /\ Waiting[i].ready <=> ~Held(head_ + i - 1)

(* A function on an interval is a sequence.                                 *)
LEMMA PlacesSeq ==
  ASSUME NEW n \in Nat, NEW s \in [1..n -> Places]
  PROVE  s \in Seq(Places) /\ Len(s) = n
OBVIOUS

(* The fields of a place.                                                   *)
LEMMA PlaceFields ==
  ASSUME NEW v, NEW b
  PROVE  [val |-> v, ready |-> b].val = v /\ [val |-> v, ready |-> b].ready = b
OBVIOUS

(* Places with the same fields are the same.                                *)
LEMMA PlaceEqual ==
  ASSUME NEW x \in Places, NEW y \in Places, x.val = y.val, x.ready <=> y.ready
  PROVE  x = y
<1>1. x = [val |-> x.val, ready |-> x.ready] /\ y = [val |-> y.val, ready |-> y.ready]
  BY DEF Places
<1>2. x.ready \in BOOLEAN /\ y.ready \in BOOLEAN
  BY DEF Places
<1>3. x.ready = y.ready
  BY <1>2, Zenon
<1> QED
  BY <1>1, <1>3, Zenon

(* A place that becomes ready.                                              *)
LEMMA PlaceReady ==
  ASSUME NEW V, NEW x \in [val : V, ready : BOOLEAN], NEW b \in BOOLEAN
  PROVE  [x EXCEPT !.ready = b] = [val |-> x.val, ready |-> b]
OBVIOUS

(* What waits, ticket by ticket.                                            *)
LEMMA WaitingFacts == IInv => WaitingOk
<1> SUFFICES ASSUME IInv PROVE WaitingOk
  OBVIOUS
<1>1. head_ \in Nat /\ tail_ \in Nat /\ head_ <= tail_ /\ tail_ = Len(log)
      /\ log \in Seq(Values)
  BY DEF IInv, TypeOK, TicketsInv
<1>2. tail_ - head_ \in Nat
  BY <1>1
<1>3. ASSUME NEW i \in 1..(tail_ - head_) PROVE log[head_ + i] \in Values
  <2>1. head_ + i \in 1..Len(log)
    BY <1>1
  <2> QED
    BY <1>1, <2>1
<1>4. ASSUME NEW i \in 1..(tail_ - head_)
      PROVE  (\A p \in HasTicket : tkt[p] # head_ + i - 1) \in BOOLEAN
  OBVIOUS
<1>5. Waiting \in [1..(tail_ - head_) -> Places]
  BY <1>3, <1>4, Zenon DEF Waiting, Places
<1>6. ASSUME NEW i \in 1..(tail_ - head_)
      PROVE  /\ Waiting[i].val = log[head_ + i]
             /\ Waiting[i].ready <=> ~Held(head_ + i - 1)
  <2> DEFINE b == \A p \in HasTicket : tkt[p] # head_ + i - 1
  <2>1. Waiting[i] = [val |-> log[head_ + i], ready |-> b]
    BY DEF Waiting
  <2>2. b <=> ~Held(head_ + i - 1)
    BY DEF Held
  <2> HIDE DEF b
  <2>3. Waiting[i].val = log[head_ + i] /\ Waiting[i].ready = b
    BY <2>1, PlaceFields
  <2> QED
    BY <2>2, <2>3, Zenon
<1> QED
  BY <1>1, <1>2, <1>5, <1>6, PlacesSeq DEF WaitingOk

(* What waits after a step, once its places are known.                      *)
LEMMA WaitingIs ==
  ASSUME WaitingOk', NEW s \in Seq(Places), Len(s) = tail_' - head_',
         \A i \in 1..(tail_' - head_') :
            s[i].val = log'[head_' + i] /\ (s[i].ready <=> ~Held(head_ + i - 1)')
  PROVE  Waiting' = s
<1> DEFINE w == Waiting'
<1>1. w \in Seq(Places) /\ Len(w) = tail_' - head_'
      /\ \A i \in 1..(tail_' - head_') : w[i].val = log'[head_' + i]
  BY DEF WaitingOk
<1>4. \A i \in 1..(tail_' - head_') : w[i].ready <=> ~Held(head_ + i - 1)'
  BY Zenon DEF WaitingOk
<1> HIDE DEF w
<1>2. ASSUME NEW i \in 1..Len(w) PROVE w[i] = s[i]
  <2>1. w[i] \in Places /\ s[i] \in Places
    BY <1>1
  <2>2. w[i].val = s[i].val
    BY <1>1
  <2>3. i \in 1..(tail_' - head_')
    BY <1>1
  <2>4. w[i].ready <=> s[i].ready
    BY <1>4, <2>3, Zenon
  <2> QED
    BY <2>1, <2>2, <2>4, PlaceEqual
<1>3. w = s
  BY <1>1, <1>2, SeqEqual
<1> QED
  BY <1>3 DEF w

(* Steps that leave tickets with their producers.                           *)
LEMMA WaitingSame ==
  ASSUME IInv, IInv', UNCHANGED <<tail_, head_, log>>, HasTicket' = HasTicket,
         \A p \in HasTicket : tkt'[p] = tkt[p]
  PROVE  Waiting' = Waiting
<1>1. WaitingOk /\ WaitingOk'
  BY WaitingFacts, PTL
<1>3. Waiting \in Seq(Places) /\ Len(Waiting) = tail_' - head_'
  BY <1>1 DEF WaitingOk
<1>4. ASSUME NEW i \in 1..(tail_' - head_')
      PROVE  Waiting[i].val = log'[head_' + i] /\ (Waiting[i].ready <=> ~Held(head_ + i - 1)')
  <2>1. Waiting[i].val = log'[head_' + i]
    BY <1>1 DEF WaitingOk
  <2>2. i \in 1..(tail_ - head_)
    OBVIOUS
  <2>3. Waiting[i].ready <=> ~Held(head_ + i - 1)
    BY <1>1, <2>2, Zenon DEF WaitingOk
  <2>4. Held(head_ + i - 1)' <=> Held(head_ + i - 1)
    BY DEF Held
  <2> QED
    BY <2>1, <2>3, <2>4, Zenon
<1> QED
  BY <1>1, <1>3, <1>4, WaitingIs

(* fetch_add of the tail is Reserve.                                        *)
LEMMA TakeTicketReserves ==
  ASSUME IInv, IInv', NEW p \in Producers, TakeTicket(p)
  PROVE  arg[p] \in Values /\ Abs!Reserve(arg[p])
<1> DEFINE e == [val |-> arg[p], ready |-> FALSE]
           s == Append(Waiting, e)
<1>1. WaitingOk /\ WaitingOk'
  BY WaitingFacts, PTL
<1>2. arg[p] \in Values /\ e \in Places
  BY DEF IInv, TicketsInv, TakeTicket, Places
<1>3. /\ tail_' = tail_ + 1 /\ head_' = head_ /\ log' = Append(log, arg[p])
      /\ HasTicket' = HasTicket \cup {p} /\ p \notin HasTicket
      /\ tkt'[p] = tail_ /\ \A q \in HasTicket : tkt'[q] = tkt[q]
      /\ popped' = popped
  BY DEF TakeTicket, Goto, HasTicket, IInv, TypeOK
<1>4. \A k : Held(k)' <=> Held(k) \/ k = tail_
  BY <1>3 DEF Held
<1>5. \A q \in HasTicket : tkt[q] < tail_ /\ tkt[q] \in Nat
  BY DEF IInv, TicketsInv, TypeOK, HasTicket
<1>6. ~Held(tail_) /\ tail_ \in Nat /\ head_ \in Nat /\ tail_ - head_ \in Nat
      /\ tail_ = Len(log) /\ log \in Seq(Values)
  <2>1. tail_ \in Nat /\ head_ \in Nat /\ tail_ - head_ \in Nat
    BY <1>1 DEF WaitingOk
  <2>2. tail_ = Len(log) /\ log \in Seq(Values)
    BY DEF IInv, TypeOK, TicketsInv
  <2>3. ~Held(tail_)
    BY <1>5, <2>1 DEF Held
  <2> QED
    BY <2>1, <2>2, <2>3
<1>7. /\ s \in Seq(Places) /\ Len(s) = tail_' - head_'
      /\ s[tail_ - head_ + 1] = e
      /\ \A i \in 1..(tail_ - head_) : s[i] = Waiting[i]
  <2>1. Waiting \in Seq(Places) /\ Len(Waiting) = tail_ - head_
    BY <1>1 DEF WaitingOk
  <2> HIDE DEF e
  <2> QED
    BY <1>2, <1>3, <1>6, <2>1
<1>8. e.val = arg[p] /\ ~e.ready
  BY PlaceFields
<1> HIDE DEF e, s
<1>9. ASSUME NEW i \in 1..(tail_' - head_')
      PROVE  s[i].val = log'[head_' + i] /\ (s[i].ready <=> ~Held(head_ + i - 1)')
  <2>1. CASE i = tail_ - head_ + 1
    <3>1. log'[head_' + i] = arg[p] /\ head_ + i - 1 = tail_
      BY <1>2, <1>3, <1>6, <2>1
    <3>2. (head_ + i - 1)' = tail_
      BY <1>3, <3>1
    <3>3. Held(head_ + i - 1)'
      BY <1>4, <3>1, <1>3
    <3> QED
      BY <1>7, <1>8, <2>1, <3>1, <3>3, Zenon
  <2>2. CASE i # tail_ - head_ + 1
    <3>1. i \in 1..(tail_ - head_) /\ head_ + i - 1 # tail_ /\ head_ + i \in 1..Len(log)
      BY <1>3, <1>6, <2>2
    <3>2. log'[head_' + i] = log[head_ + i]
      BY <1>2, <1>3, <1>6, <3>1
    <3>3. Waiting[i].val = log[head_ + i]
      BY <1>1, <3>1 DEF WaitingOk
    <3>4. Waiting[i].ready <=> ~Held(head_ + i - 1)
      BY <1>1, <3>1, Zenon DEF WaitingOk
    <3>5. Held(head_ + i - 1)' <=> Held(head_ + i - 1)
      BY <1>3, <1>4, <3>1
    <3> QED
      BY <1>7, <3>1, <3>2, <3>3, <3>4, <3>5, Zenon
  <2> QED
    BY <2>1, <2>2
<1>10. Waiting' = s
  BY <1>1, <1>7, <1>9, WaitingIs
<1> QED
  BY <1>2, <1>3, <1>10 DEF s, e, Abs!Reserve

(* SetBits(1) is Publish, of the place of the producer's ticket.            *)
LEMMA SetFlagPublishes ==
  ASSUME IInv, IInv', NEW p \in Producers, SetFlag(p)
  PROVE  \E n \in DOMAIN Waiting : Abs!Publish(n)
<1> DEFINE n == tkt[p] - head_ + 1
           s == [Waiting EXCEPT ![n].ready = TRUE]
           e == [val |-> Waiting[n].val, ready |-> TRUE]
<1>1. WaitingOk /\ WaitingOk'
  BY WaitingFacts, PTL
<1>2. /\ tail_' = tail_ /\ head_' = head_ /\ log' = log /\ popped' = popped
      /\ p \in HasTicket /\ HasTicket' = HasTicket \ {p} /\ tkt' = tkt
  BY DEF SetFlag, Goto, HasTicket, IInv, TypeOK
<1>3. /\ tkt[p] \in Nat /\ head_ <= tkt[p] /\ tkt[p] < tail_
      /\ \A q \in HasTicket : tkt[q] = tkt[p] => q = p
  BY <1>2 DEF IInv, TicketsInv, TypeOK, HasTicket
<1>4. \A k : Held(k)' <=> Held(k) /\ k # tkt[p]
  BY <1>2, <1>3 DEF Held
<1>5. /\ Waiting \in Seq(Places) /\ Len(Waiting) = tail_ - head_
      /\ head_ \in Nat /\ tail_ \in Nat /\ tail_ - head_ \in Nat
  BY <1>1 DEF WaitingOk
<1>6. n \in 1..Len(Waiting) /\ head_ + n - 1 = tkt[p]
  BY <1>3, <1>5
<1>7. Held(tkt[p])
  BY <1>2 DEF Held
<1> HIDE DEF n
<1>8. Waiting[n] \in Places /\ (Waiting[n].ready <=> ~Held(head_ + n - 1))
  <2>1. n \in 1..(tail_ - head_)
    BY <1>5, <1>6
  <2>2. Waiting[n].ready <=> ~Held(head_ + n - 1)
    BY <1>1, <2>1, Zenon DEF WaitingOk
  <2> QED
    BY <1>5, <1>6, <2>2
<1>9. ~Waiting[n].ready
  BY <1>6, <1>7, <1>8, Zenon
<1>10. e \in Places /\ e.val = Waiting[n].val /\ e.ready
  BY <1>8 DEF Places
<1>11. [Waiting[n] EXCEPT !.ready = TRUE] = e
  BY <1>8, PlaceReady, Zenon DEF Places
<1>12. s = [Waiting EXCEPT ![n] = e]
  BY <1>11
<1> HIDE DEF e, s
<1>13. s \in Seq(Places) /\ Len(s) = Len(Waiting)
       /\ \A i \in 1..Len(Waiting) : s[i] = IF i = n THEN e ELSE Waiting[i]
  BY <1>5, <1>6, <1>10, <1>12, ExceptSeq
<1>14. ASSUME NEW i \in 1..(tail_' - head_')
       PROVE  s[i].val = log'[head_' + i] /\ (s[i].ready <=> ~Held(head_ + i - 1)')
  <2>1. i \in 1..(tail_ - head_) /\ i \in 1..Len(Waiting)
    BY <1>2, <1>5
  <2>2. Waiting[i].val = log'[head_' + i]
    BY <1>1, <1>2, <2>1 DEF WaitingOk
  <2>3. Waiting[i].ready <=> ~Held(head_ + i - 1)
    BY <1>1, <2>1, Zenon DEF WaitingOk
  <2>4. Held(head_ + i - 1)' <=> Held(head_ + i - 1) /\ head_ + i - 1 # tkt[p]
    BY <1>2, <1>4
  <2>5. CASE i = n
    BY <1>6, <1>10, <1>13, <2>1, <2>2, <2>4, <2>5, Zenon
  <2>6. CASE i # n
    <3>1. head_ + i - 1 # tkt[p]
      BY <1>5, <1>6, <2>6
    <3>2. s[i] = Waiting[i]
      BY <1>13, <2>1, <2>6
    <3> QED
      BY <2>2, <2>3, <2>4, <3>1, <3>2, Zenon
  <2> QED
    BY <2>5, <2>6
<1>15. Waiting' = s
  BY <1>1, <1>2, <1>5, <1>13, <1>14, WaitingIs
<1>16. n \in DOMAIN Waiting
  BY <1>5, <1>6
<1>17. Abs!Publish(n)
  BY <1>2, <1>9, <1>15 DEF s, Abs!Publish
<1> QED
  BY <1>16, <1>17

(* fetch_add of the head is Remove, with the value that pop moved out or    *)
(* without it.                                                              *)
LEMMA AdvanceHeadRemoves ==
  ASSUME IInv, IInv', AdvanceHead
  PROVE  Abs!Remove
<1> DEFINE s == Tail(Waiting)
<1>1. WaitingOk /\ WaitingOk'
  BY WaitingFacts, PTL
<1>2. /\ tail_' = tail_ /\ head_' = head_ + 1 /\ log' = log
      /\ popped' = Append(popped, got)
      /\ HasTicket' = HasTicket /\ tkt' = tkt
  BY DEF AdvanceHead, HasTicket, producerVars
<1>3. head_ < tail_ /\ ~Held(head_) /\ got \in {log[head_ + 1], Unread}
  BY DEF IInv, ConsumerInv, AdvanceHead
<1>4. \A k : Held(k)' <=> Held(k)
  BY <1>2 DEF Held
<1>5. /\ Waiting \in Seq(Places) /\ Len(Waiting) = tail_ - head_
      /\ head_ \in Nat /\ tail_ \in Nat /\ tail_ - head_ \in Nat
  BY <1>1 DEF WaitingOk
<1>6. 1 \in 1..(tail_ - head_) /\ Waiting # <<>> /\ Head(Waiting) = Waiting[1]
  BY <1>3, <1>5
<1>7. Waiting[1].val = log[head_ + 1]
  BY <1>1, <1>6 DEF WaitingOk
<1>8. Waiting[1].ready
  <2>1. Waiting[1].ready <=> ~Held(head_ + 1 - 1)
    BY <1>1, <1>6, Zenon DEF WaitingOk
  <2>2. head_ + 1 - 1 = head_
    BY <1>5
  <2> QED
    BY <1>3, <2>1, <2>2, Zenon
<1>9. s \in Seq(Places) /\ Len(s) = tail_' - head_'
      /\ \A i \in 1..(tail_' - head_') : i + 1 \in 1..(tail_ - head_) /\ s[i] = Waiting[i + 1]
  BY <1>2, <1>5, <1>6
<1> HIDE DEF s
<1>10. ASSUME NEW i \in 1..(tail_' - head_')
       PROVE  s[i].val = log'[head_' + i] /\ (s[i].ready <=> ~Held(head_ + i - 1)')
  <2>1. i + 1 \in 1..(tail_ - head_) /\ s[i] = Waiting[i + 1]
    BY <1>9
  <2>2. head_' + i = head_ + (i + 1) /\ (head_ + i - 1)' = head_ + (i + 1) - 1
    BY <1>2, <1>5
  <2>3. Waiting[i + 1].val = log[head_ + (i + 1)]
    BY <1>1, <2>1, Zenon DEF WaitingOk
  <2>4. Waiting[i + 1].ready <=> ~Held(head_ + (i + 1) - 1)
    BY <1>1, <2>1, Zenon DEF WaitingOk
  <2>5. Held(head_ + i - 1)' <=> Held(head_ + (i + 1) - 1)
    BY <1>4, <2>2
  <2> QED
    BY <1>2, <2>1, <2>2, <2>3, <2>4, <2>5, Zenon
<1>11. Waiting' = s
  BY <1>1, <1>9, <1>10, WaitingIs
<1> QED
  BY <1>2, <1>3, <1>6, <1>7, <1>8, <1>11 DEF s, Abs!Remove

(* mpsc_queue implements TicketFifo: producers reserve and publish places   *)
(* in any order, the consumer removes the front one, and pops, peeks and    *)
(* calls of GetSize that find nothing leave it alone.                       *)
THEOREM MpscRefinement ==
  ASSUME Builds = {TRUE}
  PROVE  Spec => ImplementsTicketFifo
<1>1. Init => Abs!Init
  <2> SUFFICES ASSUME Init PROVE Abs!Init
    OBVIOUS
  <2>1. tail_ - head_ = 0 /\ 1..(tail_ - head_) = {}
    BY DEF Init
  <2>2. Waiting = <<>>
    BY <2>1 DEF Waiting
  <2> QED
    BY <2>2 DEF Init, Abs!Init
<1>2. in_order /\ IInv /\ IInv' /\ [Next]_allVars => [Abs!Next]_<<Waiting, popped>>
  <2> SUFFICES ASSUME in_order, IInv, IInv', [Next]_allVars
               PROVE  Abs!Next \/ UNCHANGED <<Waiting, popped>>
    BY DEF Abs!Next
  <2>1. ASSUME NEW p \in Producers, TakeTicket(p) PROVE Abs!Next
    BY <2>1, TakeTicketReserves DEF Abs!Next
  <2>2. ASSUME NEW p \in Producers, SetFlag(p) PROVE Abs!Next
    BY <2>2, SetFlagPublishes DEF Abs!Next
  <2>3. CASE AdvanceHead
    BY <2>3, AdvanceHeadRemoves DEF Abs!Next
  <2>4. ASSUME UNCHANGED <<tail_, head_, log, popped>>, HasTicket' = HasTicket,
               \A p \in HasTicket : tkt'[p] = tkt[p]
        PROVE  UNCHANGED <<Waiting, popped>>
    BY <2>4, WaitingSame
  <2>5. ASSUME NEW p \in Producers, NEW v \in Values, EmplaceBegin(p, v)
        PROVE  UNCHANGED <<Waiting, popped>>
    BY <2>4, <2>5 DEF EmplaceBegin, Goto, HasTicket, IInv, TypeOK, queueVars
  <2>6. ASSUME NEW p \in Producers, WaitForSpace(p) \/ PrepareEntry(p) \/ StoreValue(p)
        PROVE  UNCHANGED <<Waiting, popped>>
    BY <2>4, <2>6 DEF WaitForSpace, PrepareEntry, StoreValue, Goto, HasTicket, IInv,
                      TypeOK, queueVars
  <2>7. ASSUME NEW p \in Producers, SetFlagEarly(p) \/ StoreValueLate(p)
        PROVE  FALSE
    BY <2>7 DEF SetFlagEarly, StoreValueLate, IInv, TicketsInv
  <2>8. ASSUME UNCHANGED <<tail_, head_, log, popped, pc, tkt>>
        PROVE  UNCHANGED <<Waiting, popped>>
    BY <2>4, <2>8 DEF HasTicket
  <2>9. CASE PopBegin \/ PeekBegin \/ LoadTail \/ CheckFlag \/ MoveValue \/ ClearFlag
    BY <2>8, <2>9 DEF PopBegin, PeekBegin, LoadTail, CheckFlag, MoveValue, ClearFlag,
                      queueVars, producerVars
  <2>10. ASSUME NEW o \in Observers, GetSizeTail(o) \/ GetSizeHead(o)
         PROVE  UNCHANGED <<Waiting, popped>>
    BY <2>8, <2>10 DEF GetSizeTail, GetSizeHead, queueVars, producerVars
  <2>11. CASE UNCHANGED allVars
    BY <2>8, <2>11 DEF allVars, vars, queueVars, producerVars
  <2>12. ASSUME NEW p \in Producers, InEmplace(p)
         PROVE  Abs!Next \/ UNCHANGED <<Waiting, popped>>
    BY <2>1, <2>2, <2>6, <2>7, <2>12 DEF InEmplace
  <2> QED
    BY <2>3, <2>5, <2>9, <2>10, <2>11, <2>12 DEF Next, InConsumer
<1> QED
  BY <1>1, <1>2, MpscInvariant, PTL DEF Spec, ImplementsTicketFifo, Abs!Spec
=============================================================================

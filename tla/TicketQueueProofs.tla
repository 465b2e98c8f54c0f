-------------------------- MODULE TicketQueueProofs --------------------------
(***************************************************************************)
(* spsc_queue and ticket_queue keep what they are given and hand it out in *)
(* order, for every depth, every number of threads and builds that keep or *)
(* do not keep the order of the ring's plain accesses.  The ring needs one *)
(* thread that emplaces and one that pops, or the lock around each call.   *)
(***************************************************************************)
EXTENDS TicketQueue, SequenceTheorems, FiniteSetTheorems, TLAPS

(* What an spsc_queue asks of its callers.                                  *)
OnePair ==
  /\ \A s, t \in Producers : s = t
  /\ \A s, t \in Consumers : s = t

Exclusive == locked \/ OnePair

-----------------------------------------------------------------------------
(* The inductive invariant.                                                 *)

Emplacing == {"space", "store", "append", "late"}
Popping == {"tail", "move", "remove", "moveLate"}

(* The lock is held from the entry to the end of a call.                    *)
LockInv ==
  /\ \A s, t \in owners : s = t
  /\ \A t \in Threads : step[t] \in {"inside", "unlock"} <=> t \in owners
  /\ \A t \in Threads : locked /\ pc[t] # "idle" => step[t] = "unlock"
  /\ ~locked => \A t \in Threads : step[t] = "outside"

(* One thread at most emplaces and one pops; under the lock one of the two. *)
CallersInv ==
  /\ \A s, t \in Threads : pc[s] \in Emplacing /\ pc[t] \in Emplacing => s = t
  /\ \A s, t \in Threads : pc[s] \in Popping /\ pc[t] \in Popping => s = t
  /\ \A s, t \in Threads : locked /\ pc[s] # "idle" /\ pc[t] # "idle" => s = t
  /\ \A t \in Threads : ~locked /\ pc[t] \in Emplacing => t \in Producers
  /\ \A t \in Threads : ~locked /\ pc[t] \in Popping => t \in Consumers

(* Where each token stands between head_ and tail_.                         *)
TokensInv ==
  /\ head_ <= tail_ /\ tail_ <= head_ + depth
  /\ \A t \in Threads :
       /\ pc[t] \in {"space", "store", "append"} => tok[t] = tail_
       /\ pc[t] \in {"store", "append"} => tail_ < head_ + depth
       /\ pc[t] = "late" => tok[t] + 1 = tail_
       /\ pc[t] \in {"tail", "move", "remove"} => tok[t] = head_
       /\ pc[t] \in {"move", "remove"} => head_ < tail_
       /\ pc[t] = "moveLate" => tok[t] + 1 = head_
       /\ pc[t] \in {"late", "moveLate"} => ~in_order /\ depth > 0

(* An entry handed over holds what was stored; only in a build that keeps   *)
(* the order, or under the lock.                                            *)
EntriesInv ==
  /\ \A t \in Threads : pc[t] \in Emplacing => arg[t] \in Values
  /\ \A t \in Threads : pc[t] = "append" /\ (in_order \/ locked)
                          => slots[tail_ % depth] = arg[t]
  /\ in_order => /\ \A t \in Threads : pc[t] = "remove" => arg[t] \in Values
                 /\ \A k \in head_..(tail_ - 1) :
                      (k = head_ => Moved = {}) => slots[k % depth] \in Values

(* The entries of the tickets from .. to - 1 in a ring s of d entries.      *)
Entries(s, d, from, to) == [i \in 1..(to - from) |-> s[(from + i - 1) % d]]
Window(from, to) == Entries(slots, depth, from, to)

(* A sequence with another first value.                                     *)
WithFirst(e, x) == [e EXCEPT ![1] = x]

(* How far the call inside the lock has changed the queue it found.         *)
InsideInv(t) ==
  /\ pc[t] # "idle" => popped = out
  /\ pc[t] \in {"space", "store", "append", "tail", "move"}
       => content = Window(head_, tail_)
  /\ pc[t] = "late" => head_ < tail_ /\ content = Window(head_, tail_ - 1)
  /\ pc[t] = "remove" => content = WithFirst(Window(head_, tail_), arg[t])
  /\ pc[t] = "moveLate" => tail_ < head_ + depth /\ content = Window(head_ - 1, tail_)
  /\ pc[t] = "idle" =>
       \/ Window(head_, tail_) = content /\ popped = out
       \/ \E v \in Values : /\ Len(content) < depth
                            /\ Window(head_, tail_) = Append(content, v)
                            /\ popped = out
       \/ /\ content # <<>>
          /\ Window(head_, tail_) = Tail(content)
          /\ popped = Append(out, Head(content))

(* What has entered when the call inside the lock has come this far.        *)
EnteredInside(t) ==
  /\ pc[t] \in {"space", "store", "append", "tail", "move", "remove", "moveLate"}
       => entered = out \o content
  /\ pc[t] = "late" => entered = Append(out \o content, arg[t])
  /\ pc[t] = "idle" => entered = popped \o Window(head_, tail_)

HistoryInv ==
  /\ locked => \A t \in Threads :
                 step[t] = "unlock" => InsideInv(t) /\ EnteredInside(t)
  /\ locked /\ (\A t \in Threads : step[t] # "unlock")
       => /\ content = Window(head_, tail_) /\ out = popped
          /\ entered = out \o content

RingInv ==
  /\ TypeOK
  /\ CallersInv
  /\ TokensInv
  /\ EntriesInv

IInv ==
  /\ LockInv
  /\ TicketTypeOK
  /\ Exclusive => RingInv
  /\ HistoryInv

-----------------------------------------------------------------------------
(* Ring arithmetic.                                                         *)

(* A ticket has an entry of the ring.                                       *)
LEMMA EntryIndex ==
  ASSUME NEW k \in Nat, NEW d \in Nat, d > 0
  PROVE  k % d \in 0..(d - 1)
  BY SMT

(* A ticket smaller than the depth has the entry of its own number.         *)
LEMMA SmallIndex ==
  ASSUME NEW d \in Nat, NEW k \in 0..(d - 1)
  PROVE  k % d = k
  BY SMT

(* Tickets less than a round apart with the same entry are the same ticket. *)
LEMMA EntryDistinct ==
  ASSUME NEW d \in Nat, d > 0, NEW j \in Nat, NEW k \in Nat,
         j < k + d, k < j + d, j % d = k % d
  PROVE  j = k
<1> DEFINE a == j \div d
           b == k \div d
           r == k % d
<1>1. /\ a \in Nat /\ b \in Nat /\ r \in 0..(d - 1)
      /\ j = d * a + r /\ k = d * b + r
  BY SMT
<1> HIDE DEF a, b, r
<1>2. ASSUME NEW x \in Nat, NEW y \in Nat, x < y
      PROVE  d * x + d <= d * y
  <2>1. PICK e \in Nat : y = x + 1 + e
    BY <1>2, SMT
  <2>2. d * y = d * x + d + d * e /\ d * e >= 0
    BY <2>1, SMT
  <2> QED
    BY <2>2, SMT
<1>3. ~(a < b) /\ ~(b < a)
  BY <1>1, <1>2, SMT
<1> QED
  BY <1>1, <1>3, SMT

(* A write to the entry of ticket k.                                        *)
LEMMA EntryWrite ==
  ASSUME TypeOK, NEW k \in Nat, NEW v, SetSlot(k, v), depth > 0
  PROVE  slots'[k % depth] = v
<1>1. depth \in Nat
  BY SpscAssumption DEF TypeOK
<1>2. k % depth \in DOMAIN slots
  BY <1>1, EntryIndex DEF TypeOK
<1> QED
  BY <1>2 DEF SetSlot

(* The entries of the tickets around it are left alone.                     *)
LEMMA OtherEntries ==
  ASSUME TypeOK, NEW k \in Nat, NEW v, SetSlot(k, v), depth > 0
  PROVE  \A j \in Nat : j < k + depth /\ k < j + depth /\ j # k
                         => slots'[j % depth] = slots[j % depth]
<1>1. depth \in Nat
  BY SpscAssumption DEF TypeOK
<1>2. slots' = [slots EXCEPT ![k % depth] = v]
  BY DEF SetSlot
<1>3. ASSUME NEW j \in Nat, j < k + depth, k < j + depth, j # k
      PROVE  slots'[j % depth] = slots[j % depth]
  <2>1. j % depth # k % depth
    BY <1>1, <1>3, EntryDistinct
  <2>2. j % depth \in DOMAIN slots
    BY <1>1, EntryIndex DEF TypeOK
  <2> QED
    BY <1>2, <2>1, <2>2
<1> QED
  BY <1>3

(* Entries is a sequence of as many values as there are tickets.            *)
LEMMA EntriesSeq ==
  ASSUME NEW V, NEW s, NEW d, NEW from \in Nat, NEW to \in Nat, from <= to,
         \A k \in from..(to - 1) : s[k % d] \in V
  PROVE  Entries(s, d, from, to) \in Seq(V)
<1>1. \A i \in 1..(to - from) : from + i - 1 \in from..(to - 1)
  BY SMT
<1>2. to - from \in Nat
  BY SMT
<1> DEFINE n == to - from
<1>3. Entries(s, d, from, to) \in [1..n -> V]
  BY <1>1 DEF Entries
<1> QED
  BY <1>2, <1>3, SeqDef

LEMMA EntriesLen ==
  ASSUME NEW s, NEW d, NEW from \in Nat, NEW to \in Nat, from <= to
  PROVE  Len(Entries(s, d, from, to)) = to - from
  BY DEF Entries

(* The window up to the next ticket ends with that ticket's entry.          *)
LEMMA EntriesAppend ==
  ASSUME NEW s, NEW d, NEW from \in Nat, NEW to \in Nat, from <= to
  PROVE  Entries(s, d, from, to + 1) = Append(Entries(s, d, from, to), s[to % d])
<1> DEFINE e == Entries(s, d, from, to)
           x == s[to % d]
           V == {e[i] : i \in 1..(to - from)} \cup {x}
<1>1. e \in Seq(V) /\ Len(e) = to - from
  <2>1. to - from \in Nat /\ e \in [1..(to - from) -> V]
    BY DEF Entries
  <2> HIDE DEF e, V
  <2> QED
    BY <2>1, SeqDef
<1>2. \A i \in 1..(to - from) : e[i] = s[(from + i - 1) % d]
  BY DEF Entries
<1> HIDE DEF e
<1>3. x \in V
  OBVIOUS
<1> HIDE DEF V
<1>4. /\ Append(e, x) \in Seq(V) /\ Len(Append(e, x)) = to + 1 - from
      /\ \A i \in 1..(to - from) : Append(e, x)[i] = e[i]
      /\ Append(e, x)[to + 1 - from] = x
  BY <1>1, <1>3, AppendProperties
<1>5. Append(e, x) = [i \in 1..(to + 1 - from) |-> Append(e, x)[i]]
  BY <1>4, LenProperties
<1>6. \A i \in 1..(to + 1 - from) : Append(e, x)[i] = s[(from + i - 1) % d]
  <2>1. ASSUME NEW i \in 1..(to + 1 - from)
        PROVE  Append(e, x)[i] = s[(from + i - 1) % d]
    <3>1. CASE i \in 1..(to - from)
      BY <1>2, <1>4, <3>1
    <3>2. CASE i = to + 1 - from
      <4>1. from + i - 1 = to
        BY <3>2
      <4>2. s[(from + i - 1) % d] = x
        BY <4>1
      <4> HIDE DEF x
      <4> QED
        BY <1>4, <3>2, <4>2
    <3>3. i \in 1..(to - from) \/ i = to + 1 - from
      OBVIOUS
    <3> QED
      BY <3>1, <3>2, <3>3, Zenon
  <2> QED
    BY <2>1
<1> QED
  BY <1>5, <1>6 DEF Entries, e, x

(* A window that is not empty, with its first entry replaced by x: it       *)
(* begins with x, and what follows is the next window.                      *)
LEMMA EntriesSome ==
  ASSUME NEW s, NEW d, NEW from \in Nat, NEW to \in Nat, NEW x, NEW e,
         e = WithFirst(Entries(s, d, from, to), x), from < to
  PROVE  e # <<>> /\ e[1] = x
<1>1. DOMAIN e = 1..(to - from) /\ 1 \in 1..(to - from) /\ e[1] = x
  BY DEF Entries, WithFirst
<1> QED
  BY <1>1

LEMMA EntriesTail ==
  ASSUME NEW s, NEW d, NEW from \in Nat, NEW to \in Nat, NEW x, NEW next,
         NEW V, NEW e \in Seq(V), NEW f, next = from + 1, f = Tail(e),
         e = WithFirst(Entries(s, d, from, to), x), from < to
  PROVE  f = Entries(s, d, next, to)
<1>1. /\ DOMAIN e = 1..(to - from)
      /\ \A i \in 2..(to - from) : e[i] = s[(from + i - 1) % d]
  BY DEF Entries, WithFirst
<1>2. Len(e) = to - from /\ e # <<>>
  BY <1>1, LenProperties
<1>3. /\ f \in Seq(V) /\ Len(f) = to - from - 1
      /\ \A i \in 1..(to - from - 1) : f[i] = e[i + 1]
  BY <1>2, HeadTailProperties
<1>4. f = [i \in 1..(to - from - 1) |-> f[i]]
  BY <1>3, LenProperties
<1>5. \A i \in 1..(to - from - 1) : f[i] = s[(from + i) % d]
  <2>1. ASSUME NEW i \in 1..(to - from - 1)
        PROVE  f[i] = s[(from + i) % d]
    <3>1. i + 1 \in 2..(to - from) /\ from + (i + 1) - 1 = from + i
      OBVIOUS
    <3> QED
      BY <1>1, <1>3, <3>1
  <2> QED
    BY <2>1
<1>6. Entries(s, d, next, to) = [i \in 1..(to - from - 1) |-> s[(from + i) % d]]
  <2>1. to - next = to - from - 1 /\ \A i \in Nat : next + i - 1 = from + i
    OBVIOUS
  <2> QED
    BY <2>1 DEF Entries
<1> QED
  BY <1>4, <1>5, <1>6

(* Windows over the same entries are equal.                                 *)
LEMMA EntriesSame ==
  ASSUME NEW s, NEW z, NEW d, NEW from \in Nat, NEW to \in Nat,
         \A k \in from..(to - 1) : z[k % d] = s[k % d]
  PROVE  Entries(z, d, from, to) = Entries(s, d, from, to)
<1>1. \A i \in 1..(to - from) : from + i - 1 \in from..(to - 1)
  OBVIOUS
<1> QED
  BY <1>1 DEF Entries

(* When only the first entry differs, replacing it makes them equal.        *)
LEMMA EntriesFirst ==
  ASSUME NEW s, NEW z, NEW d, NEW from \in Nat, NEW to \in Nat, NEW x, from < to,
         s[from % d] = x, \A k \in (from + 1)..(to - 1) : z[k % d] = s[k % d]
  PROVE  Entries(s, d, from, to) = WithFirst(Entries(z, d, from, to), x)
<1>1. \A i \in 2..(to - from) : from + i - 1 \in (from + 1)..(to - 1)
  OBVIOUS
<1>2. from + 1 - 1 = from
  OBVIOUS
<1> DEFINE e == Entries(s, d, from, to)
           f == WithFirst(Entries(z, d, from, to), x)
<1>3. e = [i \in 1..(to - from) |-> s[(from + i - 1) % d]]
  BY DEF Entries
<1>4. /\ DOMAIN f = 1..(to - from)
      /\ f[1] = x
      /\ \A i \in 2..(to - from) : f[i] = z[(from + i - 1) % d]
      /\ f = [i \in DOMAIN f |-> f[i]]
  <2> DEFINE g == Entries(z, d, from, to)
  <2>1. /\ DOMAIN g = 1..(to - from) /\ 1 \in 1..(to - from)
        /\ \A i \in 2..(to - from) : g[i] = z[(from + i - 1) % d]
    BY DEF Entries
  <2> HIDE DEF g
  <2>2. f = [i \in DOMAIN g |-> IF i = 1 THEN x ELSE g[i]]
    BY DEF g, WithFirst
  <2> HIDE DEF f
  <2> QED
    BY <2>1, <2>2
<1> HIDE DEF e, f
<1>5. \A i \in 1..(to - from) : f[i] = s[(from + i - 1) % d]
  BY <1>1, <1>2, <1>4
<1>6. f = [i \in 1..(to - from) |-> s[(from + i - 1) % d]]
  BY <1>4, <1>5
<1> QED
  BY <1>3, <1>6 DEF e, f

-----------------------------------------------------------------------------
(* The ring: each step of emplace and pop keeps its invariant.              *)

(* Depths are natural numbers, and nothing is at an entry of a ring of none. *)
LEMMA RingTypes ==
  ASSUME RingInv
  PROVE  /\ depth \in Nat /\ tail_ \in Nat /\ head_ \in Nat
         /\ \A k \in Nat : depth > 0 => slots[k % depth] \in Values \cup {Stale}
         /\ \A t \in Threads : pc[t] \in {"store", "append", "late", "move", "remove",
                                          "moveLate"} => depth > 0
<1>1. depth \in Nat /\ tail_ \in Nat /\ head_ \in Nat
  BY SpscAssumption DEF RingInv, TypeOK
<1>2. \A k \in Nat : depth > 0 => slots[k % depth] \in Values \cup {Stale}
  BY <1>1, EntryIndex DEF RingInv, TypeOK
<1>3. \A t \in Threads : pc[t] \in {"store", "append", "late", "move", "remove",
                                    "moveLate"} => depth > 0
  BY <1>1 DEF RingInv, TokensInv
<1> QED
  BY <1>1, <1>2, <1>3

LEMMA EmplaceBeginKeeps ==
  ASSUME RingInv, NEW p \in Threads, NEW v \in Values, EmplaceBegin(p, v),
         CallersInv', UNCHANGED locked
  PROVE  RingInv'
<1> USE DEF EmplaceBegin, Goto, ringVars
<1>1. TypeOK'
  BY DEF RingInv, TypeOK, Passed
<1>2. TokensInv'
  BY RingTypes DEF RingInv, TypeOK, TokensInv
<1>3. EntriesInv'
  <2>1. Moved' = Moved
    BY DEF RingInv, TypeOK, Moved
  <2> QED
    BY <2>1 DEF RingInv, TypeOK, EntriesInv, Emplacing
<1> QED
  BY <1>1, <1>2, <1>3 DEF RingInv

LEMMA TestSpaceKeeps ==
  ASSUME RingInv, NEW p \in Threads, TestSpace(p), CallersInv', UNCHANGED locked
  PROVE  RingInv'
<1> USE DEF TestSpace, Goto, ringVars
<1>1. TypeOK'
  BY DEF RingInv, TypeOK, Passed
<1>2. TokensInv'
  BY RingTypes DEF RingInv, TypeOK, TokensInv, Full
<1>3. EntriesInv'
  <2>1. Moved' = Moved
    BY DEF RingInv, TypeOK, Moved
  <2> QED
    BY <2>1 DEF RingInv, TypeOK, EntriesInv, Emplacing
<1> QED
  BY <1>1, <1>2, <1>3 DEF RingInv

LEMMA StoreEntryKeeps ==
  ASSUME RingInv, NEW p \in Threads, StoreEntry(p), CallersInv', UNCHANGED locked
  PROVE  RingInv'
<1> USE DEF StoreEntry, Goto
<1>0. /\ tok[p] = tail_ /\ depth > 0 /\ arg[p] \in Values /\ tail_ < head_ + depth
      /\ depth \in Nat /\ tail_ \in Nat /\ head_ \in Nat
  BY RingTypes DEF RingInv, TokensInv, EntriesInv, Emplacing
<1>1. TypeOK'
  BY <1>0, EntryIndex DEF RingInv, TypeOK, Passed, SetSlot
<1>2. TokensInv'
  BY <1>0 DEF RingInv, TypeOK, TokensInv
<1>3. EntriesInv'
  <2>1. Moved' = Moved
    BY DEF RingInv, TypeOK, Moved
  <2>2. /\ slots'[tail_ % depth] = arg[p]
        /\ \A k \in head_..(tail_ - 1) : slots'[k % depth] = slots[k % depth]
    <3>1. SetSlot(tail_, arg[p])
      BY <1>0
    <3>2. \A j \in Nat : j < tail_ + depth /\ tail_ < j + depth /\ j # tail_
                          => slots'[j % depth] = slots[j % depth]
      BY <1>0, <3>1, OtherEntries DEF RingInv
    <3>3. slots'[tail_ % depth] = arg[p]
      BY <1>0, <3>1, EntryWrite DEF RingInv
    <3>4. head_ <= tail_
      BY DEF RingInv, TokensInv
    <3>5. \A k \in head_..(tail_ - 1) : k \in Nat /\ k < tail_ + depth /\ tail_ < k + depth
                                      /\ k # tail_
      BY <1>0, <3>4
    <3> QED
      BY <3>2, <3>3, <3>5
  <2>3. \A t \in Threads : pc'[t] = "append" => t = p
    BY DEF RingInv, TypeOK, CallersInv, Emplacing
  <2> QED
    BY <1>0, <2>1, <2>2, <2>3 DEF RingInv, TypeOK, EntriesInv, Emplacing
<1> QED
  BY <1>1, <1>2, <1>3 DEF RingInv

LEMMA AppendKeeps ==
  ASSUME RingInv, NEW p \in Threads, CallersInv', UNCHANGED locked,
         \/ AppendEntry(p)
         \/ AppendEarly(p)
  PROVE  RingInv'
<1> USE DEF AppendEntry, AppendEarly, AdvanceTail, Goto
<1>0. /\ tok[p] = tail_ /\ depth > 0 /\ arg[p] \in Values /\ tail_ < head_ + depth
      /\ depth \in Nat /\ tail_ \in Nat /\ head_ \in Nat /\ head_ <= tail_
      /\ tail_' = tail_ + 1
  BY RingTypes DEF RingInv, TokensInv, EntriesInv, Emplacing
<1>1. TypeOK'
  <2>1. Passed' = Passed /\ arg[p] \in Passed
    BY <1>0 DEF Passed
  <2>2. entered' = Append(entered, arg[p]) /\ entered \in Seq(Passed)
    BY DEF RingInv, TypeOK
  <2>3. entered' \in Seq(Passed)
    BY <2>1, <2>2, AppendProperties
  <2>4. pc' \in [Threads -> {"idle", "space", "store", "append", "late",
                            "tail", "move", "remove", "moveLate"}]
    BY DEF RingInv, TypeOK
  <2>5. UNCHANGED <<in_order, depth, head_, slots, arg, tok, popped>>
    OBVIOUS
  <2>6. tail_' \in Nat
    BY <1>0
  <2> QED
    BY <2>1, <2>3, <2>4, <2>5, <2>6 DEF RingInv, TypeOK
<1>2. TokensInv'
  <2>1. \A t \in Threads : pc'[t] \in {"space", "store", "append"} => FALSE
    BY DEF RingInv, TypeOK, CallersInv, Emplacing
  <2>2. \A t \in Threads : pc'[t] = "late" => t = p /\ ~in_order
    BY DEF RingInv, TypeOK, CallersInv, Emplacing
  <2> QED
    BY <1>0, <2>1, <2>2 DEF RingInv, TypeOK, TokensInv
<1>3. EntriesInv'
  <2>1. Moved' = Moved
    BY DEF RingInv, TypeOK, Moved
  <2>2. \A t \in Threads : pc'[t] # "append"
    BY DEF RingInv, TypeOK, CallersInv, Emplacing
  <2>3. in_order => slots[tail_ % depth] = arg[p]
    BY <1>0 DEF RingInv, EntriesInv
  <2>4. \A k \in head_..tail_ : k \in head_..(tail_ - 1) \/ k = tail_
    BY <1>0
  <2>5. \A t \in Threads : pc[t] = "remove" => head_ < tail_
    BY DEF RingInv, TokensInv
  <2>6. \A t \in Threads : pc'[t] \in Emplacing => arg'[t] \in Values
    BY DEF RingInv, TypeOK, EntriesInv, Emplacing
  <2>7. \A t \in Threads : in_order /\ pc'[t] = "remove" => arg'[t] \in Values
    BY DEF RingInv, TypeOK, EntriesInv, Emplacing
  <2>8. \A k \in head_'..(tail_' - 1) :
          in_order /\ (k = head_' => Moved' = {}) => slots'[k % depth'] \in Values
    BY <1>0, <2>1, <2>3, <2>4 DEF RingInv, EntriesInv
  <2> QED
    BY <2>2, <2>6, <2>7, <2>8 DEF EntriesInv
<1> QED
  BY <1>1, <1>2, <1>3 DEF RingInv

LEMMA StoreLateKeeps ==
  ASSUME RingInv, NEW p \in Threads, StoreLate(p), CallersInv', UNCHANGED locked
  PROVE  RingInv'
<1> USE DEF StoreLate, Goto
<1>0. /\ depth > 0 /\ depth \in Nat /\ tok[p] \in Nat /\ arg[p] \in Values /\ ~in_order
  BY RingTypes DEF RingInv, TypeOK, TokensInv, EntriesInv, Emplacing
<1>1. TypeOK'
  BY <1>0, EntryIndex DEF RingInv, TypeOK, Passed, SetSlot
<1>2. TokensInv'
  BY <1>0 DEF RingInv, TypeOK, TokensInv
<1>3. EntriesInv'
  <2>1. \A t \in Threads : pc'[t] \notin Emplacing
    BY DEF RingInv, TypeOK, CallersInv, Emplacing
  <2> QED
    BY <1>0, <2>1 DEF RingInv, EntriesInv, Emplacing
<1> QED
  BY <1>1, <1>2, <1>3 DEF RingInv

LEMMA PopBeginKeeps ==
  ASSUME RingInv, NEW c \in Threads, PopBegin(c), CallersInv', UNCHANGED locked
  PROVE  RingInv'
<1> USE DEF PopBegin, Goto, ringVars
<1>1. TypeOK'
  BY DEF RingInv, TypeOK, Passed
<1>2. TokensInv'
  BY RingTypes DEF RingInv, TypeOK, TokensInv
<1>3. EntriesInv'
  <2>1. Moved' = Moved
    BY DEF RingInv, TypeOK, Moved
  <2> QED
    BY <2>1 DEF RingInv, TypeOK, EntriesInv, Emplacing
<1> QED
  BY <1>1, <1>2, <1>3 DEF RingInv

LEMMA TestEmptyKeeps ==
  ASSUME RingInv, NEW c \in Threads, TestEmpty(c), CallersInv', UNCHANGED locked
  PROVE  RingInv'
<1> USE DEF TestEmpty, Goto, ringVars
<1>1. TypeOK'
  BY DEF RingInv, TypeOK, Passed
<1>2. TokensInv'
  BY RingTypes DEF RingInv, TypeOK, TokensInv, Empty
<1>3. EntriesInv'
  <2>1. Moved' = Moved
    BY DEF RingInv, TypeOK, Moved
  <2> QED
    BY <2>1 DEF RingInv, TypeOK, EntriesInv, Emplacing
<1> QED
  BY <1>1, <1>2, <1>3 DEF RingInv

LEMMA MoveEntryKeeps ==
  ASSUME RingInv, NEW c \in Threads, MoveEntry(c), CallersInv', UNCHANGED locked
  PROVE  RingInv'
<1> USE DEF MoveEntry, Goto
<1>0. /\ tok[c] = head_ /\ depth > 0 /\ head_ < tail_ /\ tail_ <= head_ + depth
      /\ depth \in Nat /\ tail_ \in Nat /\ head_ \in Nat
      /\ slots[head_ % depth] \in Values \cup {Stale}
  BY RingTypes DEF RingInv, TokensInv
<1>1. TypeOK'
  BY <1>0, EntryIndex DEF RingInv, TypeOK, Passed, SetSlot
<1>2. TokensInv'
  BY <1>0 DEF RingInv, TypeOK, TokensInv
<1>3. EntriesInv'
  <2>1. Moved = {} /\ Moved' # {}
    BY DEF RingInv, TypeOK, Moved, CallersInv, Popping
  <2>2. \A j \in Nat : j < head_ + depth /\ head_ < j + depth /\ j # head_
                        => slots'[j % depth] = slots[j % depth]
    <3>1. SetSlot(head_, Stale)
      BY <1>0
    <3> QED
      BY <1>0, <3>1, OtherEntries DEF RingInv
  <2>3. in_order => slots[head_ % depth] \in Values
    BY <1>0, <2>1 DEF RingInv, EntriesInv
  <2>4. \A t \in Threads : pc[t] = "append" => slots'[tail_ % depth] = slots[tail_ % depth]
    BY <1>0, <2>2 DEF RingInv, TokensInv
  <2>5. \A k \in (head_ + 1)..(tail_ - 1) : slots'[k % depth] = slots[k % depth]
    BY <1>0, <2>2
  <2>6. \A t \in Threads : pc'[t] \in Emplacing => arg'[t] \in Values
    BY DEF RingInv, TypeOK, EntriesInv, Emplacing
  <2>7. \A t \in Threads : pc'[t] = "append" /\ (in_order' \/ locked')
                             => slots'[tail_' % depth'] = arg'[t]
    BY <2>4 DEF RingInv, TypeOK, EntriesInv
  <2>8. \A t \in Threads : in_order /\ pc'[t] = "remove" => arg'[t] \in Values
    BY <1>0, <2>3 DEF RingInv, TypeOK, EntriesInv
  <2>9. \A k \in head_'..(tail_' - 1) :
          in_order /\ (k = head_' => Moved' = {}) => slots'[k % depth'] \in Values
    BY <1>0, <2>1, <2>5 DEF RingInv, EntriesInv
  <2> QED
    BY <2>6, <2>7, <2>8, <2>9 DEF EntriesInv
<1> QED
  BY <1>1, <1>2, <1>3 DEF RingInv

LEMMA RemoveEntryKeeps ==
  ASSUME RingInv, NEW c \in Threads, RemoveEntry(c), CallersInv', UNCHANGED locked
  PROVE  RingInv'
<1> USE DEF RemoveEntry, Goto
<1>0. /\ tok[c] = head_ /\ depth > 0 /\ head_ < tail_ /\ tail_ <= head_ + depth
      /\ depth \in Nat /\ tail_ \in Nat /\ head_ \in Nat
  BY RingTypes DEF RingInv, TokensInv
<1>1. TypeOK'
  <2>1. popped' \in Seq(Passed')
    BY DEF RingInv, TypeOK, EntriesInv, Passed
  <2> QED
    BY <1>0, <2>1 DEF RingInv, TypeOK, Passed
<1>2. TokensInv'
  <2>1. \A t \in Threads : pc'[t] \notin Popping
    BY DEF RingInv, TypeOK, CallersInv, Popping
  <2> QED
    BY <1>0, <2>1 DEF RingInv, TypeOK, TokensInv, Popping
<1>3. EntriesInv'
  <2>1. Moved' = {}
    BY DEF RingInv, TypeOK, Moved, CallersInv, Popping
  <2>2. \A k \in head_'..(tail_' - 1) : k \in head_..(tail_ - 1) /\ k # head_
    BY <1>0
  <2> QED
    BY <2>1, <2>2 DEF RingInv, TypeOK, EntriesInv, Emplacing, Moved
<1> QED
  BY <1>1, <1>2, <1>3 DEF RingInv

LEMMA RemoveEarlyKeeps ==
  ASSUME RingInv, NEW c \in Threads, RemoveEarly(c), CallersInv', UNCHANGED locked
  PROVE  RingInv'
<1> USE DEF RemoveEarly, Goto
<1>0. /\ tok[c] = head_ /\ depth > 0 /\ head_ < tail_ /\ tail_ <= head_ + depth
      /\ depth \in Nat /\ tail_ \in Nat /\ head_ \in Nat
  BY RingTypes DEF RingInv, TokensInv
<1>1. TypeOK'
  BY <1>0 DEF RingInv, TypeOK, Passed
<1>2. TokensInv'
  <2>1. \A t \in Threads : pc'[t] \in Popping => t = c /\ pc'[t] = "moveLate"
    BY DEF RingInv, TypeOK, CallersInv, Popping
  <2> QED
    BY <1>0, <2>1 DEF RingInv, TypeOK, TokensInv, Popping
<1>3. EntriesInv'
  BY DEF RingInv, TypeOK, EntriesInv, Emplacing
<1> QED
  BY <1>1, <1>2, <1>3 DEF RingInv

LEMMA MoveLateKeeps ==
  ASSUME RingInv, NEW c \in Threads, MoveLate(c), CallersInv', UNCHANGED locked
  PROVE  RingInv'
<1> USE DEF MoveLate, Goto
<1>0. /\ tok[c] \in Nat /\ depth > 0 /\ depth \in Nat /\ ~in_order
      /\ slots[tok[c] % depth] \in Values \cup {Stale}
  BY RingTypes DEF RingInv, TypeOK, TokensInv
<1>1. TypeOK'
  <2>1. popped' \in Seq(Passed')
    BY <1>0 DEF RingInv, TypeOK, Passed
  <2> QED
    BY <1>0, <2>1, EntryIndex DEF RingInv, TypeOK, Passed, SetSlot
<1>2. TokensInv'
  BY <1>0 DEF RingInv, TypeOK, TokensInv
<1>3. EntriesInv'
  <2>1. \A t \in Threads : locked => pc'[t] # "append"
    BY DEF RingInv, TypeOK, CallersInv
  <2> QED
    BY <1>0, <2>1 DEF RingInv, TypeOK, EntriesInv, Emplacing
<1> QED
  BY <1>1, <1>2, <1>3 DEF RingInv

(* Resize keeps the oldest entries that the new ring has room for.          *)
LEMMA ResizeFacts ==
  ASSUME RingInv, NEW n \in Depths, Resize(n)
  PROVE  /\ n \in Nat /\ tail_' \in 0..n /\ head_' = 0 /\ depth' = n
         /\ tail_' = Least(Len(Content), n)
         /\ Content \in Seq(Values \cup {Stale}) /\ Len(Content) = tail_ - head_
         /\ slots' \in [0..(n - 1) -> Values \cup {Stale}]
         /\ \A i \in 0..(tail_' - 1) : slots'[i % n] \in Passed
         /\ Content' = SubSeq(Content, 1, tail_')
<1> DEFINE V == Values \cup {Stale}
           C == Content
           k == Least(Len(C), n)
           kept == SubSeq(C, 1, k)
<1>1. n \in Nat /\ depth \in Nat /\ tail_ \in Nat /\ head_ \in Nat /\ head_ <= tail_
      /\ tail_ <= head_ + depth
  BY RingTypes, SpscAssumption DEF RingInv, TokensInv
<1>2. Moved = {}
  BY DEF Moved, Resize
<1>3. Passed \subseteq V
  BY DEF Passed
<1>4. \A j \in head_..(tail_ - 1) : slots[j % depth] \in Passed
  <2>1. ASSUME NEW j \in head_..(tail_ - 1)
        PROVE  slots[j % depth] \in Passed
    <3>1. j \in Nat /\ depth > 0
      BY <1>1
    <3>2. slots[j % depth] \in V
      BY <3>1, RingTypes
    <3>3. CASE in_order
      BY <1>2, <3>3 DEF RingInv, EntriesInv, Passed
    <3>4. CASE ~in_order
      BY <3>2, <3>4 DEF Passed
    <3> QED
      BY <3>3, <3>4
  <2> QED
    BY <2>1
<1>5. C \in Seq(Passed) /\ Len(C) = tail_ - head_
  <2>1. C = Entries(slots, depth, head_, tail_)
    BY DEF Content, Entries
  <2> HIDE DEF C
  <2>2. Entries(slots, depth, head_, tail_) \in Seq(Passed)
    BY <1>1, <1>4, EntriesSeq
  <2>3. Len(Entries(slots, depth, head_, tail_)) = tail_ - head_
    BY <1>1, EntriesLen
  <2> QED
    BY <2>1, <2>2, <2>3
<1>6. C \in Seq(V)
  BY <1>3, <1>5, SeqMonotonic
<1>7. /\ slots' = [i \in 0..(n - 1) |-> IF i < Len(kept) THEN kept[i + 1] ELSE Stale]
      /\ tail_' = Len(kept)
      /\ depth' = n /\ head_' = 0
  BY DEF Resize
<1> HIDE DEF C
<1>8. /\ k \in 0..n /\ k <= Len(C)
      /\ kept \in Seq(Passed) /\ Len(kept) = k
      /\ \A i \in 1..k : kept[i] = C[i]
  <2>1. k \in 0..n /\ k <= Len(C) /\ k \in Nat
    BY <1>1, <1>5 DEF Least
  <2>2. \A i \in 1..k : C[i] \in Passed
    BY <1>5, <2>1, ElementOfSeq
  <2> HIDE DEF k
  <2>3. /\ SubSeq(C, 1, k) \in Seq(Passed)
        /\ Len(SubSeq(C, 1, k)) = IF 1 <= k THEN k - 1 + 1 ELSE 0
        /\ \A i \in 1..(k - 1 + 1) : SubSeq(C, 1, k)[i] = C[1 + i - 1]
    BY <2>1, <2>2, SubSeqProperties
  <2> QED
    BY <1>5, <2>1, <2>3
<1>9. \A i \in 1..k : kept[i] \in Passed
  BY <1>8, ElementOfSeq
<1>10. k \in Nat /\ tail_' = k
  BY <1>7, <1>8
<1> HIDE DEF k, kept
<1>11. slots' \in [0..(n - 1) -> V]
  BY <1>1, <1>3, <1>7, <1>8, <1>9, <1>10
<1>12. \A i \in 0..(k - 1) : slots'[i % n] = kept[i + 1]
  <2>1. \A i \in 0..(k - 1) : i \in 0..(n - 1) /\ i < k
    BY <1>1, <1>8, <1>10
  <2>2. \A i \in 0..(k - 1) : i % n = i
    BY <1>1, <2>1, SmallIndex
  <2> QED
    BY <1>7, <1>8, <2>1, <2>2
<1>13. Content' = kept
  <2>1. Content' = [i \in 1..k |-> slots'[(i - 1) % n]]
    BY <1>7, <1>10 DEF Content
  <2>2. \A i \in 1..k : slots'[(i - 1) % n] = kept[i]
    BY <1>10, <1>12
  <2>3. kept = [i \in 1..k |-> kept[i]]
    BY <1>8
  <2> QED
    BY <2>1, <2>2, <2>3
<1>14. \A i \in 0..(k - 1) : slots'[i % n] \in Passed
  BY <1>9, <1>10, <1>12
<1>15. kept = SubSeq(Content, 1, tail_')
  BY <1>10 DEF kept, C
<1> QED
  BY <1>1, <1>5, <1>6, <1>7, <1>8, <1>10, <1>11, <1>13, <1>14, <1>15 DEF k, C

LEMMA ResizeKeeps ==
  ASSUME RingInv, NEW n \in Depths, Resize(n), UNCHANGED locked
  PROVE  RingInv'
<1>0. /\ \A t \in Threads : pc[t] = "idle"
      /\ UNCHANGED <<in_order, pc, arg, tok, popped>>
  BY DEF Resize
<1>1. TypeOK'
  <2>1. Passed' = Passed
    BY <1>0 DEF Passed
  <2>2. entered' \in Seq(Passed)
    <3> DEFINE m == Least(Len(entered), Len(popped) + n)
    <3>1. /\ entered \in Seq(Passed) /\ popped \in Seq(Passed) /\ n \in Nat
          /\ entered' = SubSeq(entered, 1, m)
      BY ResizeFacts DEF RingInv, TypeOK, Resize
    <3>2. m \in 0..Len(entered)
      BY <3>1 DEF Least
    <3> HIDE DEF m
    <3>3. \A i \in 1..m : entered[i] \in Passed
      BY <3>1, <3>2, ElementOfSeq
    <3> QED
      BY <3>1, <3>2, <3>3, SubSeqProperties
  <2> QED
    BY <1>0, <2>1, <2>2, ResizeFacts DEF RingInv, TypeOK
<1>2. CallersInv'
  BY <1>0 DEF CallersInv, Emplacing, Popping
<1>3. TokensInv'
  BY <1>0, ResizeFacts DEF TokensInv
<1>4. EntriesInv'
  <2>1. Passed = Values \/ ~in_order
    BY DEF Passed
  <2>2. /\ head_' = 0 /\ depth' = n
        /\ \A i \in 0..(tail_' - 1) : slots'[i % n] \in Passed
    BY ResizeFacts
  <2>3. \A t \in Threads : pc'[t] = "idle"
    BY <1>0
  <2>4. ASSUME in_order, NEW k \in 0..(tail_' - 1)
        PROVE  slots'[k % depth'] \in Values
    <3>1. slots'[k % n] \in Passed
      BY <2>2
    <3> QED
      BY <2>1, <2>2, <2>4, <3>1
  <2> QED
    BY <1>0, <2>2, <2>3, <2>4 DEF EntriesInv, Emplacing
<1> QED
  BY <1>1, <1>2, <1>3, <1>4 DEF RingInv

-----------------------------------------------------------------------------
(* Who calls.                                                               *)

(* A step of a running call keeps it the only one of its kind.              *)
LEMMA RunningCallers ==
  ASSUME TypeOK, CallersInv, NEW t \in Threads, InEmplace(t) \/ InPop(t), UNCHANGED locked
  PROVE  CallersInv'
<1>1. /\ \A s \in Threads : s # t => pc'[s] = pc[s]
      /\ pc[t] # "idle"
      /\ pc'[t] \in Emplacing => pc[t] \in Emplacing
      /\ pc'[t] \in Popping => pc[t] \in Popping
  <2>1. CASE InEmplace(t)
    BY <2>1 DEF TypeOK, InEmplace, TestSpace, StoreEntry, AppendEntry, AppendEarly,
                StoreLate, Goto, Emplacing, Popping
  <2>2. CASE InPop(t)
    BY <2>2 DEF TypeOK, InPop, TestEmpty, MoveEntry, RemoveEntry, RemoveEarly,
                MoveLate, Goto, Emplacing, Popping
  <2> QED
    BY <2>1, <2>2
<1> QED
  BY <1>1 DEF CallersInv

(* A call begins when no other of its kind is running.                      *)
LEMMA BeginningCallers ==
  ASSUME TypeOK, CallersInv, NEW t \in Threads, UNCHANGED locked,
         locked => \A s \in Threads : pc[s] = "idle",
         \/ (\E v \in Values : EmplaceBegin(t, v)) /\ (~locked => OnePair /\ t \in Producers)
         \/ PopBegin(t) /\ (~locked => OnePair /\ t \in Consumers)
  PROVE  CallersInv'
<1>1. CASE (\E v \in Values : EmplaceBegin(t, v)) /\ (~locked => OnePair /\ t \in Producers)
  <2>1. pc[t] = "idle" /\ pc' = [pc EXCEPT ![t] = "space"]
    BY <1>1 DEF EmplaceBegin, Goto
  <2>2. \A s \in Threads : pc[s] \notin Emplacing
    BY <1>1, <2>1 DEF CallersInv, OnePair, Emplacing
  <2> QED
    BY <1>1, <2>1, <2>2 DEF TypeOK, CallersInv, Emplacing, Popping
<1>2. CASE PopBegin(t) /\ (~locked => OnePair /\ t \in Consumers)
  <2>1. pc[t] = "idle" /\ pc' = [pc EXCEPT ![t] = "tail"]
    BY <1>2 DEF PopBegin, Goto
  <2>2. \A s \in Threads : pc[s] \notin Popping
    BY <1>2, <2>1 DEF CallersInv, OnePair, Popping
  <2> QED
    BY <1>2, <2>1, <2>2 DEF TypeOK, CallersInv, Emplacing, Popping
<1> QED
  BY <1>1, <1>2

-----------------------------------------------------------------------------
(* The ring under its callers.                                              *)

(* Every step of a running call keeps the ring's invariant.                 *)
LEMMA RunningKeeps ==
  ASSUME RingInv, NEW t \in Threads, InEmplace(t) \/ InPop(t), UNCHANGED locked
  PROVE  RingInv'
<1>1. CallersInv'
  BY RunningCallers DEF RingInv
<1>2. CASE InEmplace(t)
  BY <1>1, <1>2, TestSpaceKeeps, StoreEntryKeeps, AppendKeeps, StoreLateKeeps DEF InEmplace
<1>3. CASE InPop(t)
  BY <1>1, <1>3, TestEmptyKeeps, MoveEntryKeeps, RemoveEntryKeeps, RemoveEarlyKeeps,
     MoveLateKeeps DEF InPop
<1> QED
  BY <1>2, <1>3

(* So does the start of a call, if its caller may call.                     *)
LEMMA BeginningKeeps ==
  ASSUME RingInv, NEW t \in Threads, UNCHANGED locked,
         locked => \A s \in Threads : pc[s] = "idle",
         \/ (\E v \in Values : EmplaceBegin(t, v)) /\ (~locked => OnePair /\ t \in Producers)
         \/ PopBegin(t) /\ (~locked => OnePair /\ t \in Consumers)
  PROVE  RingInv'
<1>1. CallersInv'
  BY BeginningCallers DEF RingInv
<1>2. CASE \E v \in Values : EmplaceBegin(t, v)
  BY <1>1, <1>2, EmplaceBeginKeeps
<1>3. CASE PopBegin(t)
  BY <1>1, <1>3, PopBeginKeeps
<1> QED
  BY <1>2, <1>3

(* Whoever has the lock and has not begun finds no call running.            *)
LEMMA AllIdle ==
  ASSUME LockInv, locked, NEW t \in Threads, step[t] # "unlock", t \in owners \/ owners = {}
  PROVE  \A s \in Threads : pc[s] = "idle" /\ step[s] # "unlock"
  BY DEF LockInv

(* The ring's invariant as long as its callers are exclusive.               *)
LEMMA RingInvKept ==
  ASSUME LockInv, RingInv, Exclusive, TicketNext
  PROVE  RingInv'
<1>1. ASSUME UNCHANGED <<vars, locked>>
      PROVE  RingInv'
  BY <1>1 DEF vars, ringVars, RingInv, TypeOK, Passed, CallersInv, TokensInv, EntriesInv,
              Moved
<1>2. ASSUME locked, NEW t \in Threads, Call(t) \/ Acquire(t) \/ Release(t)
      PROVE  RingInv'
  BY <1>1, <1>2 DEF Call, Acquire, Release
<1>3. ASSUME locked, NEW t \in Threads, EnterRing(t)
      PROVE  RingInv'
  <2>1. step[t] = "inside" /\ UNCHANGED locked
    BY <1>3 DEF EnterRing
  <2>2. \A s \in Threads : pc[s] = "idle"
    BY <1>3, <2>1, AllIdle DEF LockInv
  <2> QED
    BY <1>3, <2>1, <2>2, BeginningKeeps DEF EnterRing
<1>4. ASSUME locked, NEW t \in Threads, InRing(t)
      PROVE  RingInv'
  BY <1>4, RunningKeeps DEF InRing, ticketVars
<1>5. ASSUME ~locked, Next, UNCHANGED ticketVars
      PROVE  RingInv'
  <2>1. OnePair /\ UNCHANGED locked
    BY <1>5 DEF Exclusive, ticketVars
  <2>2. Producers \subseteq Threads /\ Consumers \subseteq Threads
    BY SpscAssumption
  <2>3. ASSUME NEW p \in Producers,
               (\E v \in Values : EmplaceBegin(p, v)) \/ InEmplace(p)
        PROVE  RingInv'
    BY <1>5, <2>1, <2>2, <2>3, BeginningKeeps, RunningKeeps
  <2>4. ASSUME NEW c \in Consumers, PopBegin(c) \/ InPop(c)
        PROVE  RingInv'
    BY <1>5, <2>1, <2>2, <2>4, BeginningKeeps, RunningKeeps
  <2>5. ASSUME NEW n \in Depths, Resize(n)
        PROVE  RingInv'
    BY <2>1, <2>5, ResizeKeeps
  <2> QED
    BY <1>5, <2>3, <2>4, <2>5 DEF Next
<1> QED
  BY <1>2, <1>3, <1>4, <1>5 DEF TicketNext

-----------------------------------------------------------------------------
(* The lock.                                                                *)

LEMMA LockInvKept ==
  ASSUME LockInv, TicketTypeOK, Exclusive => RingInv, TicketNext
  PROVE  LockInv'
<1> USE DEF Step
<1>1. locked => /\ pc \in [Threads -> {"idle", "space", "store", "append", "late",
                                       "tail", "move", "remove", "moveLate"}]
  BY DEF Exclusive, RingInv, TypeOK
<1>2. ASSUME locked, NEW t \in Threads, Call(t)
      PROVE  LockInv'
  BY <1>2 DEF Call, LockInv, TicketTypeOK, vars
<1>3. ASSUME locked, NEW t \in Threads, Acquire(t)
      PROVE  LockInv'
  <2>1. owners = {} /\ owners' = {t}
    BY <1>3 DEF Acquire, Lock!Acquire
  <2> QED
    BY <1>3, <2>1 DEF Acquire, LockInv, TicketTypeOK, vars
<1>4. ASSUME locked, NEW t \in Threads, EnterRing(t)
      PROVE  LockInv'
  <2>1. \A s \in Threads : s # t => pc'[s] = pc[s]
    BY <1>1, <1>4 DEF EnterRing, EmplaceBegin, PopBegin, Goto
  <2> QED
    BY <1>4, <2>1 DEF EnterRing, LockInv, TicketTypeOK
<1>5. ASSUME locked, NEW t \in Threads, InRing(t)
      PROVE  LockInv'
  <2>1. pc[t] # "idle" /\ \A s \in Threads : s # t => pc'[s] = pc[s]
    <3>1. CASE InEmplace(t)
      BY <1>1, <1>5, <3>1 DEF InEmplace, TestSpace, StoreEntry, AppendEntry, AppendEarly,
                              StoreLate, Goto
    <3>2. CASE InPop(t)
      BY <1>1, <1>5, <3>2 DEF InPop, TestEmpty, MoveEntry, RemoveEntry, RemoveEarly,
                              MoveLate, Goto
    <3> QED
      BY <1>5, <3>1, <3>2 DEF InRing
  <2>2. step[t] = "unlock"
    BY <1>5, <2>1 DEF LockInv
  <2> QED
    BY <1>5, <2>1, <2>2 DEF InRing, ticketVars, LockInv
<1>6. ASSUME locked, NEW t \in Threads, Release(t)
      PROVE  LockInv'
  <2>1. owners = {t} /\ owners' = {}
    BY <1>6 DEF Release, Lock!Release
  <2> QED
    BY <1>6, <2>1 DEF Release, LockInv, TicketTypeOK, vars
<1>7. ASSUME ~locked, UNCHANGED ticketVars
      PROVE  LockInv'
  BY <1>7 DEF ticketVars, LockInv
<1> QED
  BY <1>2, <1>3, <1>4, <1>5, <1>6, <1>7 DEF TicketNext

-----------------------------------------------------------------------------
(* What a call inside the lock has done so far.                             *)

(* A queue and what was removed from it, before and after a removal.        *)
LEMMA ConcatMove ==
  ASSUME NEW V, NEW r \in Seq(V), NEW q \in Seq(V), q # <<>>
  PROVE  r \o q = Append(r, Head(q)) \o Tail(q)
<1> DEFINE h == Head(q)
           f == Tail(q)
<1>1. h \in V /\ f \in Seq(V)
  BY HeadTailProperties
<1>2. q = <<h>> \o f
  <2>1. Len(q) \in Nat /\ Len(q) > 0
    BY LenProperties
  <2>2. Len(f) = Len(q) - 1 /\ \A i \in 1..Len(f) : f[i] = q[i + 1]
    BY HeadTailProperties
  <2> HIDE DEF f
  <2> DEFINE o == <<h>>
             b == o \o f
  <2>3. o \in Seq(V) /\ Len(o) = 1 /\ o[1] = q[1]
    BY <1>1
  <2> HIDE DEF o
  <2>4. /\ b \in Seq(V) /\ Len(b) = Len(o) + Len(f)
        /\ \A i \in 1..(Len(o) + Len(f)) :
             b[i] = IF i <= Len(o) THEN o[i] ELSE f[i - Len(o)]
    BY <1>1, <2>3, ConcatProperties
  <2> HIDE DEF b
  <2>5. ASSUME NEW i \in 1..Len(q)
        PROVE  q[i] = b[i]
    <3>1. CASE i = 1
      BY <2>1, <2>2, <2>3, <2>4, <3>1
    <3>2. CASE i # 1
      <4>1. i - 1 \in 1..Len(f) /\ i - 1 + 1 = i /\ i \in 1..(Len(o) + Len(f)) /\ i > Len(o)
        BY <2>1, <2>2, <2>3, <3>2
      <4>2. b[i] = f[i - 1]
        BY <2>3, <2>4, <4>1
      <4>3. f[i - 1] = q[i - 1 + 1]
        BY <2>2, <4>1
      <4> QED
        BY <4>1, <4>2, <4>3
    <3> QED
      BY <3>1, <3>2
  <2>6. Len(q) = Len(b)
    BY <2>1, <2>2, <2>3, <2>4
  <2>7. q = b
    BY <2>4, <2>5, <2>6, SeqEqual
  <2> QED
    BY <2>7 DEF b, o
<1> HIDE DEF h, f
<1>3. <<h>> \in Seq(V)
  BY <1>1
<1>4. r \o (<<h>> \o f) = (r \o <<h>>) \o f
  BY <1>1, <1>3, ConcatAssociative, SMTT(30)
<1>5. Append(r, h) = r \o <<h>>
  BY <1>1, AppendIsConcat
<1>6. r \o q = Append(r, h) \o f
  BY <1>2, <1>4, <1>5
<1> QED
  BY <1>6 DEF h, f

LEMMA EmplaceInside ==
  ASSUME RingInv, TicketTypeOK, locked, NEW t \in Threads, InsideInv(t),
         EnteredInside(t), InEmplace(t), UNCHANGED ticketVars
  PROVE  InsideInv(t)' /\ EnteredInside(t)'
<1> DEFINE W == Window(head_, tail_)
<1>1. /\ depth \in Nat /\ tail_ \in Nat /\ head_ \in Nat /\ head_ <= tail_
      /\ pc[t] # "idle" => popped = out
      /\ content' = content /\ out' = out
      /\ content \in Seq(Values) /\ out \in Seq(Values)
  BY RingTypes DEF RingInv, TokensInv, InsideInv, ticketVars, TicketTypeOK
<1>2. /\ DOMAIN pc = Threads
      /\ \A f, l : pc' = [pc EXCEPT ![t] = l] => pc'[t] = l
  BY DEF RingInv, TypeOK
<1>3. CASE TestSpace(t)
  <2>1. pc[t] = "space" /\ pc'[t] \in {"idle", "store"} /\ UNCHANGED <<ringVars, entered, popped>>
    BY <1>2, <1>3 DEF TestSpace, Goto
  <2>2. content = W
    BY <2>1 DEF InsideInv
  <2>3. InsideInv(t)'
    BY <1>1, <2>1, <2>2 DEF InsideInv, Window, ringVars
  <2>4. EnteredInside(t)'
    BY <1>1, <2>1, <2>2 DEF EnteredInside, Window, ringVars
  <2> QED
    BY <2>3, <2>4
<1>4. CASE StoreEntry(t)
  <2>1. /\ pc[t] = "store" /\ pc'[t] = "append"
        /\ UNCHANGED <<depth, tail_, head_, entered, popped>>
        /\ tok[t] = tail_ /\ tail_ < head_ + depth
    BY <1>2, <1>4 DEF StoreEntry, Goto, RingInv, TokensInv
  <2>2. content = W
    BY <2>1 DEF InsideInv
  <2>3. SetSlot(tail_, arg[t])
    BY <1>4, <2>1 DEF StoreEntry
  <2>4. \A j \in Nat : j < tail_ + depth /\ tail_ < j + depth /\ j # tail_
                       => slots'[j % depth] = slots[j % depth]
    BY <1>1, <2>1, <2>3, OtherEntries DEF RingInv
  <2>5. \A k \in head_..(tail_ - 1) : slots'[k % depth] = slots[k % depth]
    <3> SUFFICES ASSUME NEW k \in head_..(tail_ - 1)
                 PROVE  slots'[k % depth] = slots[k % depth]
      OBVIOUS
    <3>1. k \in Nat /\ k < tail_ /\ tail_ < k + depth
      BY <1>1, <2>1
    <3>2. k < tail_ + depth /\ k # tail_
      BY <1>1, <2>1, <3>1
    <3> QED
      BY <2>4, <3>1, <3>2, Zenon
  <2>6. Window(head_, tail_)' = W
    BY <1>1, <2>1, <2>5, EntriesSame DEF Window
  <2>7. InsideInv(t)'
    BY <1>1, <2>1, <2>2, <2>6 DEF InsideInv
  <2>8. EnteredInside(t)'
    BY <1>1, <2>1 DEF EnteredInside
  <2> QED
    BY <2>7, <2>8
<1>5. CASE AppendEntry(t)
  <2>1. /\ pc[t] = "append" /\ pc'[t] = "idle" /\ UNCHANGED <<depth, slots, head_, popped>>
        /\ tail_' = tail_ + 1 /\ entered' = Append(entered, arg[t])
        /\ tail_ < head_ + depth /\ arg[t] \in Values
        /\ slots[tail_ % depth] = arg[t]
    BY <1>2, <1>5 DEF AppendEntry, AdvanceTail, Goto, RingInv, TokensInv, EntriesInv,
                      Emplacing
  <2>2. content = W
    BY <2>1 DEF InsideInv
  <2>3. Window(head_, tail_)' = Append(content, arg[t])
    <3>1. Entries(slots, depth, head_, tail_ + 1)
            = Append(Entries(slots, depth, head_, tail_), slots[tail_ % depth])
      BY <1>1, EntriesAppend
    <3>2. Window(head_, tail_)' = Entries(slots, depth, head_, tail_ + 1)
      BY <2>1, Zenon DEF Window
    <3>3. content = Entries(slots, depth, head_, tail_)
      BY <2>2, Zenon DEF Window
    <3> QED
      BY <2>1, <3>1, <3>2, <3>3, Zenon
  <2>4. Len(content) < depth
    BY <1>1, <2>1, <2>2, EntriesLen DEF Window
  <2>5. InsideInv(t)'
    BY <1>1, <2>1, <2>3, <2>4 DEF InsideInv
  <2>6. EnteredInside(t)'
    <3>1. out \in Seq(Values) /\ content \in Seq(Values) /\ arg[t] \in Values
      BY <1>1, <2>1
    <3>2. Append(out \o content, arg[t]) = out \o Append(content, arg[t])
      <4> DEFINE v == arg[t]
      <4> HIDE DEF v
      <4>1. out \o content \in Seq(Values) /\ <<v>> \in Seq(Values)
        BY <3>1, ConcatProperties DEF v
      <4>2. /\ Append(out \o content, v) = (out \o content) \o <<v>>
            /\ Append(content, v) = content \o <<v>>
        BY <3>1, <4>1, AppendIsConcat DEF v
      <4>3. Append(out \o content, v) = out \o Append(content, v)
        BY <3>1, <4>1, <4>2, ConcatAssociative
      <4> QED
        BY <4>3 DEF v
    <3>3. entered = out \o content /\ popped' = out
      BY <1>1, <2>1 DEF EnteredInside
    <3>4. entered' = popped' \o Window(head_, tail_)'
      BY <2>1, <2>3, <3>2, <3>3, Zenon
    <3> QED
      BY <2>1, <3>4 DEF EnteredInside
  <2> QED
    BY <2>5, <2>6
<1>6. CASE AppendEarly(t)
  <2>1. /\ pc[t] = "store" /\ pc'[t] = "late" /\ UNCHANGED <<depth, slots, head_, popped>>
        /\ tail_' = tail_ + 1 /\ entered' = Append(entered, arg[t]) /\ arg' = arg
    BY <1>2, <1>6 DEF AppendEarly, AdvanceTail, Goto, RingInv, TokensInv
  <2>2. content = W
    BY <2>1 DEF InsideInv
  <2>3. Window(head_, tail_ - 1)' = W
    <3>1. tail_' - 1 = tail_
      BY <1>1, <2>1
    <3> QED
      BY <2>1, <3>1 DEF Window
  <2>4. InsideInv(t)'
    BY <1>1, <2>1, <2>2, <2>3 DEF InsideInv
  <2>5. EnteredInside(t)'
    BY <1>1, <2>1 DEF EnteredInside
  <2> QED
    BY <2>4, <2>5
<1>7. CASE StoreLate(t)
  <2>1. /\ pc[t] = "late" /\ pc'[t] = "idle" /\ UNCHANGED <<depth, tail_, head_, entered, popped>>
        /\ tok[t] + 1 = tail_ /\ tok[t] \in Nat /\ depth > 0 /\ arg[t] \in Values
        /\ tail_ <= head_ + depth
    BY <1>2, <1>7 DEF StoreLate, Goto, RingInv, TypeOK, TokensInv, EntriesInv, Emplacing
  <2>2. PICK k \in Nat : k = tok[t]
    BY <2>1
  <2>3. k + 1 = tail_ /\ tail_ - 1 = k
    BY <1>1, <2>1, <2>2
  <2>4. content = Entries(slots, depth, head_, k)
    BY <2>1, <2>3 DEF InsideInv, Window
  <2>5. SetSlot(k, arg[t])
    BY <1>7, <2>2 DEF StoreLate
  <2>6. /\ slots'[k % depth] = arg[t]
        /\ \A j \in Nat : j < k + depth /\ k < j + depth /\ j # k
                          => slots'[j % depth] = slots[j % depth]
    BY <1>1, <2>1, <2>5, EntryWrite, OtherEntries DEF RingInv
  <2>7. head_ <= k
    BY <1>1, <2>1, <2>3 DEF InsideInv
  <2>8. \A j \in head_..(k - 1) : slots'[j % depth] = slots[j % depth]
    <3> SUFFICES ASSUME NEW j \in head_..(k - 1)
                 PROVE  slots'[j % depth] = slots[j % depth]
      OBVIOUS
    <3>1. j \in Nat /\ j < k /\ k < j + depth
      BY <1>1, <2>1, <2>3, SMTT(30)
    <3>2. j < k + depth /\ j # k
      BY <1>1, <3>1
    <3> QED
      BY <2>6, <3>1, <3>2, Zenon
  <2>9. Entries(slots', depth, head_, k) = content
    BY <1>1, <2>4, <2>8, EntriesSame
  <2>10. Entries(slots', depth, head_, k + 1) = Append(content, arg[t])
    <3>1. Entries(slots', depth, head_, k + 1)
            = Append(Entries(slots', depth, head_, k), slots'[k % depth])
      BY <1>1, <2>7, EntriesAppend
    <3> QED
      BY <2>6, <2>9, <3>1
  <2>11. Window(head_, tail_)' = Append(content, arg[t])
    BY <2>1, <2>3, <2>10 DEF Window
  <2>12. Len(content) < depth
    BY <1>1, <2>1, <2>3, <2>4, <2>7, EntriesLen
  <2>13. InsideInv(t)'
    BY <1>1, <2>1, <2>11, <2>12 DEF InsideInv
  <2>14. EnteredInside(t)'
    <3>1. out \in Seq(Values) /\ content \in Seq(Values) /\ arg[t] \in Values
      BY <1>1, <2>1
    <3>2. Append(out \o content, arg[t]) = out \o Append(content, arg[t])
      <4> DEFINE v == arg[t]
      <4> HIDE DEF v
      <4>1. out \o content \in Seq(Values) /\ <<v>> \in Seq(Values)
        BY <3>1, ConcatProperties DEF v
      <4>2. /\ Append(out \o content, v) = (out \o content) \o <<v>>
            /\ Append(content, v) = content \o <<v>>
        BY <3>1, <4>1, AppendIsConcat DEF v
      <4>3. Append(out \o content, v) = out \o Append(content, v)
        BY <3>1, <4>1, <4>2, ConcatAssociative
      <4> QED
        BY <4>3 DEF v
    <3>3. entered = Append(out \o content, arg[t]) /\ popped' = out
      BY <1>1, <2>1 DEF EnteredInside
    <3>4. entered' = popped' \o Window(head_, tail_)'
      BY <2>1, <2>11, <3>2, <3>3, Zenon
    <3> QED
      BY <2>1, <3>4 DEF EnteredInside
  <2> QED
    BY <2>13, <2>14
<1> QED
  BY <1>3, <1>4, <1>5, <1>6, <1>7 DEF InEmplace

LEMMA PopInside ==
  ASSUME RingInv, TicketTypeOK, locked, NEW t \in Threads, InsideInv(t),
         EnteredInside(t), InPop(t), UNCHANGED ticketVars
  PROVE  InsideInv(t)' /\ EnteredInside(t)'
<1> DEFINE W == Window(head_, tail_)
<1>0. depth \in Nat /\ tail_ \in Nat /\ head_ \in Nat /\ head_ <= tail_
  BY RingTypes DEF RingInv, TokensInv
<1>1. /\ depth \in Nat /\ tail_ \in Nat /\ head_ \in Nat /\ head_ <= tail_
      /\ pc[t] # "idle" => popped = out
      /\ content' = content /\ out' = out
      /\ content \in Seq(Values) /\ out \in Seq(Values)
  BY RingTypes DEF RingInv, TokensInv, InsideInv, ticketVars, TicketTypeOK
<1>2. /\ DOMAIN pc = Threads
      /\ \A f, l : pc' = [pc EXCEPT ![t] = l] => pc'[t] = l
  BY DEF RingInv, TypeOK
<1>3. CASE TestEmpty(t)
  <2>1. pc[t] = "tail" /\ pc'[t] \in {"idle", "move"} /\ UNCHANGED <<ringVars, entered, popped>>
    BY <1>2, <1>3 DEF TestEmpty, Goto
  <2>2. content = W
    BY <2>1 DEF InsideInv
  <2>3. InsideInv(t)'
    BY <1>1, <2>1, <2>2 DEF InsideInv, Window, ringVars
  <2>4. EnteredInside(t)'
    BY <1>1, <2>1, <2>2 DEF EnteredInside, Window, ringVars
  <2> QED
    BY <2>3, <2>4
<1>4. CASE MoveEntry(t)
  <2>1. /\ pc[t] = "move" /\ pc'[t] = "remove" /\ UNCHANGED <<depth, tail_, head_, entered, popped>>
        /\ tok[t] = head_ /\ head_ < tail_ /\ tail_ <= head_ + depth /\ depth > 0
    BY <1>2, <1>4, RingTypes DEF MoveEntry, Goto, RingInv, TokensInv
  <2>2. content = W
    BY <2>1 DEF InsideInv
  <2>3. SetSlot(head_, Stale) /\ arg'[t] = slots[head_ % depth]
    BY <1>4, <2>1 DEF MoveEntry, RingInv, TypeOK
  <2>4. \A j \in Nat : j < head_ + depth /\ head_ < j + depth /\ j # head_
                       => slots'[j % depth] = slots[j % depth]
    BY <1>1, <2>1, <2>3, OtherEntries DEF RingInv
  <2>5. \A k \in (head_ + 1)..(tail_ - 1) : slots'[k % depth] = slots[k % depth]
    <3> SUFFICES ASSUME NEW k \in (head_ + 1)..(tail_ - 1)
                 PROVE  slots'[k % depth] = slots[k % depth]
      OBVIOUS
    <3>1. k \in Nat /\ head_ < k /\ k < head_ + depth
      BY <1>1, <2>1
    <3>2. head_ < k + depth /\ k # head_
      BY <1>1, <2>1, <3>1
    <3> QED
      BY <2>4, <3>1, <3>2, Zenon
  <2>6. W = WithFirst(Entries(slots', depth, head_, tail_), slots[head_ % depth])
    <3> DEFINE s == slots
               z == slots'
               d == depth
               h == head_
               l == tail_
               x == slots[head_ % depth]
    <3>1. /\ h \in Nat /\ l \in Nat /\ h < l /\ s[h % d] = x
          /\ \A k \in (h + 1)..(l - 1) : z[k % d] = s[k % d]
      BY <1>0, <2>1, <2>5
    <3> HIDE DEF s, z, d, h, l, x
    <3>2. Entries(s, d, h, l) = WithFirst(Entries(z, d, h, l), x)
      BY <3>1, EntriesFirst
    <3> QED
      BY <3>2 DEF Window, s, z, d, h, l, x
  <2>7. InsideInv(t)'
    BY <1>1, <2>1, <2>2, <2>3, <2>6 DEF InsideInv, Window
  <2>8. EnteredInside(t)'
    BY <1>1, <2>1 DEF EnteredInside
  <2> QED
    BY <2>7, <2>8
<1>5. CASE RemoveEntry(t)
  <2>1. /\ pc[t] = "remove" /\ pc'[t] = "idle" /\ UNCHANGED <<depth, slots, tail_, entered>>
        /\ head_' = head_ + 1 /\ popped' = Append(popped, arg[t]) /\ head_ < tail_
    BY <1>2, <1>5 DEF RemoveEntry, Goto, RingInv, TokensInv
  <2>2. content = WithFirst(Entries(slots, depth, head_, tail_), arg[t])
    BY <2>1 DEF InsideInv, Window
  <2>3. /\ content # <<>> /\ Head(content) = arg[t]
        /\ Tail(content) = Entries(slots, depth, head_ + 1, tail_)
    <3> DEFINE V == Values
               s == slots
               d == depth
               h == head_
               l == tail_
               x == arg[t]
               e == content
               f == Tail(content)
               n == head_ + 1
    <3>1. /\ h \in Nat /\ l \in Nat /\ h < l /\ e \in Seq(V)
          /\ e = WithFirst(Entries(s, d, h, l), x)
      BY <1>1, <2>1, <2>2
    <3>2. f = Tail(e) /\ n = h + 1
      OBVIOUS
    <3> HIDE DEF V, s, d, h, l, x, e, f, n
    <3>3. e # <<>> /\ e[1] = x
      BY <3>1, EntriesSome
    <3>4. f = Entries(s, d, n, l)
      BY <3>1, <3>2, EntriesTail
    <3>5. Head(e) = x
      BY <3>1, <3>3
    <3> QED
      BY <3>2, <3>3, <3>4, <3>5 DEF V, s, d, h, l, x, e, f, n
  <2>4. Window(head_, tail_)' = Tail(content)
    BY <2>1, <2>3 DEF Window
  <2>5. InsideInv(t)'
    BY <1>1, <2>1, <2>3, <2>4 DEF InsideInv
  <2>6. EnteredInside(t)'
    <3>1. out \o content = Append(out, Head(content)) \o Tail(content)
      BY <1>1, <2>3, ConcatMove
    <3>2. entered' = popped' \o Window(head_, tail_)'
      BY <1>1, <2>1, <2>3, <2>4, <3>1 DEF EnteredInside
    <3> QED
      BY <2>1, <3>2 DEF EnteredInside
  <2> QED
    BY <2>5, <2>6
<1>6. CASE RemoveEarly(t)
  <2>1. /\ pc[t] = "move" /\ pc'[t] = "moveLate"
        /\ UNCHANGED <<depth, slots, tail_, entered, popped>>
        /\ head_' = head_ + 1 /\ tail_ <= head_ + depth
    BY <1>2, <1>6 DEF RemoveEarly, Goto, RingInv, TokensInv
  <2>2. content = W
    BY <2>1 DEF InsideInv
  <2>3. Window(head_ - 1, tail_)' = W
    <3>1. head_' - 1 = head_
      BY <1>1, <2>1
    <3> QED
      BY <2>1, <3>1 DEF Window
  <2>4. InsideInv(t)'
    BY <1>1, <2>1, <2>2, <2>3 DEF InsideInv
  <2>5. EnteredInside(t)'
    BY <1>1, <2>1 DEF EnteredInside
  <2> QED
    BY <2>4, <2>5
<1>7. CASE MoveLate(t)
  <2>1. /\ pc[t] = "moveLate" /\ pc'[t] = "idle" /\ UNCHANGED <<depth, tail_, head_, entered>>
        /\ tok[t] + 1 = head_ /\ tok[t] \in Nat /\ depth > 0 /\ tail_ <= head_ + depth
    BY <1>2, <1>7 DEF MoveLate, Goto, RingInv, TypeOK, TokensInv
  <2>2. PICK k \in Nat : k = tok[t]
    BY <2>1
  <2>3. k + 1 = head_ /\ head_ - 1 = k /\ k < tail_
    BY <1>1, <2>1, <2>2
  <2>4. content = Entries(slots, depth, k, tail_)
    BY <2>1, <2>3 DEF InsideInv, Window
  <2>5. SetSlot(k, Stale) /\ popped' = Append(popped, slots[k % depth])
    BY <1>7, <2>2 DEF MoveLate
  <2>6. \A j \in Nat : j < k + depth /\ k < j + depth /\ j # k
                       => slots'[j % depth] = slots[j % depth]
    BY <1>1, <2>1, <2>5, OtherEntries DEF RingInv
  <2>7. content = WithFirst(Entries(slots, depth, k, tail_), slots[k % depth])
    <3> DEFINE s == slots
               d == depth
               l == tail_
               x == slots[k % depth]
    <3>1. l \in Nat /\ k < l /\ s[k % d] = x
      BY <1>0, <2>3
    <3> HIDE DEF s, d, l, x
    <3>2. Entries(s, d, k, l) = WithFirst(Entries(s, d, k, l), x)
      <4> DEFINE e == Entries(s, d, k, l)
      <4>1. k + 1 - 1 = k /\ 1 \in 1..(l - k)
        BY <3>1
      <4>2. e = [i \in DOMAIN e |-> e[i]] /\ e[1] = x
        BY <3>1, <4>1 DEF Entries
      <4> HIDE DEF e
      <4> QED
        BY <4>2 DEF WithFirst, e
    <3> QED
      BY <2>4, <3>2 DEF s, d, l, x
  <2>8. /\ content # <<>> /\ Head(content) = slots[k % depth]
        /\ Tail(content) = Entries(slots, depth, k + 1, tail_)
    <3> DEFINE s == slots
               d == depth
               l == tail_
               x == slots[k % depth]
               e == content
               f == Tail(content)
               n == k + 1
    <3>1. /\ l \in Nat /\ k < l /\ e \in Seq(Values)
          /\ e = WithFirst(Entries(s, d, k, l), x)
      BY <1>1, <2>3, <2>7
    <3>2. f = Tail(e) /\ n = k + 1
      OBVIOUS
    <3> HIDE DEF s, d, l, x, e, f, n
    <3>3. e # <<>> /\ e[1] = x
      BY <3>1, EntriesSome
    <3>4. f = Entries(s, d, n, l)
      BY <3>1, <3>2, EntriesTail
    <3>5. Head(e) = x
      BY <3>1, <3>3
    <3> QED
      BY <3>2, <3>3, <3>4, <3>5 DEF s, d, l, x, e, f, n
  <2>9. tail_ < k + 1 + depth
    BY <2>1, <2>3 DEF InsideInv
  <2>10. \A j \in head_..(tail_ - 1) : slots'[j % depth] = slots[j % depth]
    <3>1. \A j \in head_..(tail_ - 1) : j \in Nat /\ j < k + depth /\ k < j + depth /\ j # k
      <4>1. head_ = k + 1 /\ depth \in Nat /\ depth > 0 /\ tail_ \in Nat
        BY <1>0, <2>1, <2>3
      <4> QED
        BY <2>9, <4>1
    <3> QED
      BY <2>6, <3>1
  <2>11. Window(head_, tail_)' = Tail(content)
    <3>1. Entries(slots', depth, head_, tail_) = Entries(slots, depth, head_, tail_)
      BY <1>0, <2>10, EntriesSame
    <3> QED
      BY <2>1, <2>3, <2>8, <3>1 DEF Window
  <2>12. InsideInv(t)'
    BY <1>1, <2>1, <2>5, <2>8, <2>11 DEF InsideInv
  <2>13. EnteredInside(t)'
    <3>1. out \o content = Append(out, Head(content)) \o Tail(content)
      BY <1>1, <2>8, ConcatMove
    <3>2. entered' = popped' \o Window(head_, tail_)'
      BY <1>1, <2>1, <2>5, <2>8, <2>11, <3>1 DEF EnteredInside
    <3> QED
      BY <2>1, <3>2 DEF EnteredInside
  <2> QED
    BY <2>12, <2>13
<1> QED
  BY <1>3, <1>4, <1>5, <1>6, <1>7 DEF InPop

(* Steps that leave the ring alone leave every window alone.                *)
LEMMA SameRing ==
  ASSUME UNCHANGED <<vars, locked, content, out>>
  PROVE  \A t \in Threads : InsideInv(t) /\ EnteredInside(t)
                             => InsideInv(t)' /\ EnteredInside(t)'
<1>1. /\ Window(head_, tail_)' = Window(head_, tail_)
      /\ Window(head_ - 1, tail_)' = Window(head_ - 1, tail_)
      /\ Window(head_, tail_ - 1)' = Window(head_, tail_ - 1)
      /\ UNCHANGED <<depth, tail_, head_, pc, arg, popped, entered, content, out>>
  BY DEF vars, ringVars, Window
<1> QED
  BY <1>1 DEF InsideInv, EnteredInside

LEMMA ContentIsWindow ==
  Content = Window(head_, tail_)
  BY DEF Content, Window, Entries

(* A call that has returned leaves values in both histories.                *)
LEMMA ReturnTyped ==
  ASSUME TicketTypeOK, NEW t \in Threads, InsideInv(t), pc[t] = "idle"
  PROVE  Content \in Seq(Values) /\ popped \in Seq(Values)
<1>1. content \in Seq(Values) /\ out \in Seq(Values)
  BY DEF TicketTypeOK
<1>2. CASE Window(head_, tail_) = content /\ popped = out
  BY <1>1, <1>2, ContentIsWindow
<1>3. CASE \E v \in Values : /\ Window(head_, tail_) = Append(content, v)
                             /\ popped = out
  BY <1>1, <1>3, ContentIsWindow, AppendProperties
<1>4. CASE /\ content # <<>>
           /\ Window(head_, tail_) = Tail(content)
           /\ popped = Append(out, Head(content))
  <2>1. Head(content) \in Values /\ Tail(content) \in Seq(Values)
    BY <1>1, <1>4, HeadTailProperties
  <2> QED
    BY <1>1, <1>4, <2>1, ContentIsWindow, AppendProperties
<1> QED
  BY <1>2, <1>3, <1>4 DEF InsideInv

LEMMA TicketTypesKept ==
  ASSUME LockInv, TicketTypeOK, HistoryInv, TicketNext
  PROVE  TicketTypeOK'
<1> USE DEF Step
<1>1. ASSUME locked, NEW t \in Threads, Call(t) \/ EnterRing(t)
      PROVE  TicketTypeOK'
  <2>1. step' \in [Threads -> {"outside", "lock", "inside", "unlock"}]
    BY <1>1 DEF Call, EnterRing, TicketTypeOK
  <2>2. UNCHANGED <<locked, owners, content, out>>
    BY <1>1 DEF Call, EnterRing
  <2>3. calls' = calls + 1 \/ calls' = calls
    BY <1>1 DEF Call, EnterRing
  <2>4. calls' \in Nat
    BY <2>3 DEF TicketTypeOK
  <2> QED
    BY <2>1, <2>2, <2>4 DEF TicketTypeOK
<1>2. ASSUME locked, NEW t \in Threads, Acquire(t)
      PROVE  TicketTypeOK'
  BY <1>2 DEF Acquire, Lock!Acquire, TicketTypeOK
<1>3. ASSUME locked, NEW t \in Threads, Release(t)
      PROVE  TicketTypeOK'
  <2>1. step[t] = "unlock" /\ pc[t] = "idle" /\ content' = Content /\ out' = popped
    BY <1>3 DEF Release
  <2>2. content' \in Seq(Values) /\ out' \in Seq(Values)
    BY <1>3, <2>1, ReturnTyped DEF HistoryInv
  <2>3. owners' = {}
    BY <1>3 DEF Release, Lock!Release
  <2> QED
    BY <1>3, <2>2, <2>3 DEF Release, TicketTypeOK
<1>4. ASSUME UNCHANGED ticketVars
      PROVE  TicketTypeOK'
  BY <1>4 DEF ticketVars, TicketTypeOK
<1> QED
  BY <1>1, <1>2, <1>3, <1>4 DEF TicketNext, InRing

LEMMA HistoryKept ==
  ASSUME IInv, TicketNext
  PROVE  HistoryInv'
<1> USE DEF Step
<1>1. ASSUME locked, NEW t \in Threads, Call(t) \/ Acquire(t)
      PROVE  HistoryInv'
  <2>1. UNCHANGED <<vars, locked, content, out>>
    BY <1>1 DEF Call, Acquire
  <2>2. \A s \in Threads : step'[s] = "unlock" <=> step[s] = "unlock"
    BY <1>1 DEF Call, Acquire, IInv, TicketTypeOK
  <2>3. Window(head_, tail_)' = Window(head_, tail_) /\ UNCHANGED <<entered, popped>>
    BY <2>1 DEF Window, vars, ringVars
  <2> QED
    BY <1>1, <2>1, <2>2, <2>3, SameRing DEF IInv, HistoryInv
<1>2. ASSUME locked, NEW t \in Threads, EnterRing(t)
      PROVE  HistoryInv'
  <2>1. /\ step[t] = "inside" /\ UNCHANGED <<locked, content, out, ringVars, entered, popped>>
        /\ step' = [step EXCEPT ![t] = "unlock"]
    BY <1>2 DEF EnterRing, EmplaceBegin, PopBegin
  <2>2. t \in owners
    BY <2>1 DEF IInv, LockInv
  <2>3. \A s \in Threads : step[s] # "unlock"
    BY <1>2, <2>1, <2>2, AllIdle DEF IInv
  <2>4. content = Window(head_, tail_) /\ out = popped /\ entered = out \o content
    BY <1>2, <2>3 DEF IInv, HistoryInv
  <2>5. pc'[t] \in {"space", "tail"}
    BY <1>2 DEF EnterRing, EmplaceBegin, PopBegin, Goto, IInv, Exclusive, RingInv, TypeOK
  <2>6. InsideInv(t)' /\ EnteredInside(t)'
    BY <2>1, <2>4, <2>5 DEF InsideInv, EnteredInside, Window, ringVars
  <2>7. \A s \in Threads : step'[s] = "unlock" <=> s = t
    BY <2>1, <2>3 DEF IInv, TicketTypeOK
  <2> QED
    BY <2>6, <2>7 DEF HistoryInv
<1>3. ASSUME locked, NEW t \in Threads, InRing(t)
      PROVE  HistoryInv'
  <2>1. RingInv /\ TicketTypeOK /\ UNCHANGED ticketVars
    BY <1>3 DEF IInv, Exclusive, InRing
  <2>2. pc[t] # "idle"
    BY <1>3 DEF InRing, InEmplace, InPop, TestSpace, StoreEntry, AppendEntry, AppendEarly,
                StoreLate, TestEmpty, MoveEntry, RemoveEntry, RemoveEarly, MoveLate
  <2>3. step[t] = "unlock"
    BY <1>3, <2>2 DEF IInv, LockInv
  <2>4. \A s \in Threads : step[s] = "unlock" => s = t
    BY <2>3 DEF IInv, LockInv
  <2>5. InsideInv(t) /\ EnteredInside(t)
    BY <1>3, <2>3 DEF IInv, HistoryInv
  <2>6. InsideInv(t)' /\ EnteredInside(t)'
    BY <1>3, <2>1, <2>5, EmplaceInside, PopInside DEF InRing
  <2>7. UNCHANGED step
    BY <2>1 DEF ticketVars
  <2> QED
    BY <2>3, <2>4, <2>6, <2>7 DEF HistoryInv
<1>4. ASSUME locked, NEW t \in Threads, Release(t)
      PROVE  HistoryInv'
  <2>1. /\ step[t] = "unlock" /\ step' = [step EXCEPT ![t] = "outside"] /\ pc[t] = "idle"
        /\ UNCHANGED <<vars, locked>> /\ content' = Content /\ out' = popped
    BY <1>4 DEF Release
  <2>2. \A s \in Threads : step'[s] # "unlock"
    BY <2>1 DEF IInv, LockInv, TicketTypeOK
  <2>3. Window(head_, tail_)' = Window(head_, tail_) /\ UNCHANGED <<entered, popped>>
    BY <2>1 DEF Window, vars, ringVars
  <2>4. entered = popped \o Window(head_, tail_)
    BY <1>4, <2>1 DEF IInv, HistoryInv, EnteredInside
  <2>5. content' = Window(head_, tail_)' /\ out' = popped'
    BY <2>1, <2>3, ContentIsWindow
  <2>6. entered' = out' \o content'
    BY <2>1, <2>3, <2>4, <2>5
  <2>7. ~ \E s \in Threads : step'[s] = "unlock"
    BY <2>2
  <2> QED
    BY <2>5, <2>6, <2>7 DEF HistoryInv
<1>5. ASSUME ~locked, UNCHANGED ticketVars
      PROVE  HistoryInv'
  BY <1>5 DEF ticketVars, HistoryInv
<1> QED
  BY <1>1, <1>2, <1>3, <1>4, <1>5 DEF TicketNext

-----------------------------------------------------------------------------
(* The invariant holds.                                                     *)

LEMMA InitInv ==
  ASSUME TicketInit
  PROVE  IInv
<1> USE DEF TicketInit, Init
<1>1. LockInv
  BY DEF LockInv
<1>2. TicketTypeOK
  BY EmptySeq DEF TicketTypeOK
<1>3. RingInv
  <2>1. TypeOK
    BY EmptySeq DEF TypeOK
  <2>2. CallersInv
    BY DEF CallersInv, Emplacing, Popping
  <2>3. TokensInv
    BY SpscAssumption DEF TokensInv
  <2>4. EntriesInv
    BY DEF EntriesInv, Emplacing, Moved
  <2> QED
    BY <2>1, <2>2, <2>3, <2>4 DEF RingInv
<1>4. HistoryInv
  <2>1. Window(head_, tail_) = <<>>
    BY DEF Window, Entries
  <2>2. <<>> \o <<>> = <<>>
    OBVIOUS
  <2> QED
    BY <2>1, <2>2 DEF HistoryInv
<1> QED
  BY <1>1, <1>2, <1>3, <1>4 DEF IInv

LEMMA NextInv ==
  ASSUME IInv, [TicketNext]_allVars
  PROVE  IInv'
<1>1. CASE TicketNext
  <2>1. UNCHANGED locked
    BY <1>1 DEF TicketNext, Call, Acquire, EnterRing, InRing, Release, ticketVars
  <2>2. Exclusive' => Exclusive
    BY <2>1 DEF Exclusive
  <2> QED
    BY <1>1, <2>2, LockInvKept, TicketTypesKept, RingInvKept, HistoryKept DEF IInv
<1>2. CASE UNCHANGED allVars
  <2>1. UNCHANGED <<vars, locked, owners, step, calls, content, out>>
    BY <1>2 DEF allVars, ticketVars
  <2>2. LockInv' /\ TicketTypeOK'
    BY <2>1 DEF IInv, LockInv, TicketTypeOK, vars
  <2>3. Exclusive' => RingInv'
    BY <2>1 DEF IInv, Exclusive, vars, ringVars, RingInv, TypeOK, Passed, CallersInv,
                TokensInv, EntriesInv, Moved
  <2>4. HistoryInv'
    <3>1. Window(head_, tail_)' = Window(head_, tail_) /\ UNCHANGED <<entered, popped>>
      BY <2>1 DEF Window, vars, ringVars
    <3> QED
      BY <2>1, <3>1, SameRing DEF IInv, HistoryInv
  <2> QED
    BY <2>2, <2>3, <2>4 DEF IInv
<1> QED
  BY <1>1, <1>2

(* The inductive invariant of the ring, its lock and its histories.         *)
THEOREM TicketInvariant == TicketSpec => []IInv
<1>1. TicketInit => IInv
  BY InitInv
<1>2. IInv /\ [TicketNext]_allVars => IInv'
  BY NextInv
<1> QED
  BY <1>1, <1>2, PTL DEF TicketSpec

(* The types of the lock's and the histories' variables, and, for callers   *)
(* that keep to the contract, those of the ring.                            *)
THEOREM TicketTypeCorrect == TicketSpec => [](TicketTypeOK /\ (Exclusive => TypeOK))
<1>1. IInv => TicketTypeOK /\ (Exclusive => TypeOK)
  BY DEF IInv, RingInv
<1> QED
  BY <1>1, TicketInvariant, PTL

-----------------------------------------------------------------------------
(* Under the lock: BoundedFifo, one operation per critical section.         *)

LEMMA TicketedStep ==
  ASSUME IInv, [TicketNext]_allVars
  PROVE  [locked => Fifo!Next]_<<content, depth, out>>
<1>1. ASSUME locked, NEW t \in Threads, Release(t)
      PROVE  Fifo!Next \/ UNCHANGED <<content, depth, out>>
  <2>1. /\ step[t] = "unlock" /\ pc[t] = "idle" /\ UNCHANGED depth
        /\ content' = Window(head_, tail_) /\ out' = popped
    BY <1>1, ContentIsWindow DEF Release, vars, ringVars
  <2>2. InsideInv(t)
    BY <1>1, <2>1 DEF IInv, HistoryInv
  <2>3. CASE Window(head_, tail_) = content /\ popped = out
    BY <2>1, <2>3
  <2>4. CASE \E v \in Values : /\ Len(content) < depth
                               /\ Window(head_, tail_) = Append(content, v)
                               /\ popped = out
    BY <2>1, <2>4 DEF Fifo!Next, Fifo!Insert
  <2>5. CASE /\ content # <<>>
             /\ Window(head_, tail_) = Tail(content)
             /\ popped = Append(out, Head(content))
    BY <2>1, <2>5 DEF Fifo!Next, Fifo!Remove
  <2> QED
    BY <2>1, <2>2, <2>3, <2>4, <2>5 DEF InsideInv
<1>2. ASSUME locked, NEW t \in Threads, Call(t) \/ Acquire(t) \/ EnterRing(t)
      PROVE  UNCHANGED <<content, depth, out>>
  BY <1>2 DEF Call, Acquire, EnterRing, EmplaceBegin, PopBegin, vars, ringVars
<1>3. ASSUME locked, NEW t \in Threads, InRing(t)
      PROVE  UNCHANGED <<content, depth, out>>
  BY <1>3 DEF InRing, InEmplace, InPop, TestSpace, StoreEntry, AppendEntry, AppendEarly,
              AdvanceTail, StoreLate, TestEmpty, MoveEntry, RemoveEntry, RemoveEarly,
              MoveLate, ringVars, ticketVars
<1>4. CASE UNCHANGED allVars
  BY <1>4 DEF allVars, vars, ringVars, ticketVars
<1> QED
  BY <1>1, <1>2, <1>3, <1>4 DEF TicketNext

(* ticket_queue: from one unlock to the next the queue changes by a whole   *)
(* insertion at its end, a removal of its front, or not at all, for any     *)
(* number of threads and in builds that reorder the accesses of the ring.   *)
THEOREM TicketQueueRefinement == TicketSpec => ImplementsTicketedFifo
<1>1. TicketInit => Fifo!Init
  BY DEF TicketInit, Init, Fifo!Init
<1>2. IInv /\ [TicketNext]_allVars => [locked => Fifo!Next]_<<content, depth, out>>
  BY TicketedStep
<1> QED
  BY <1>1, <1>2, TicketInvariant, PTL DEF TicketSpec, ImplementsTicketedFifo

-----------------------------------------------------------------------------
(* Without the lock: BoundedFifo again, for one producer and one consumer.  *)

(* A queue with a value in hand, still shown at the front.                  *)
Shown(W, M, a) ==
  [i \in DOMAIN W |-> IF i = 1 /\ M # {} THEN a[CHOOSE c \in M : TRUE] ELSE W[i]]

LEMMA ShownNone ==
  ASSUME NEW W, NEW a, W = [i \in DOMAIN W |-> W[i]]
  PROVE  Shown(W, {}, a) = W
  BY DEF Shown

LEMMA ShownOne ==
  ASSUME NEW W, NEW a, NEW c
  PROVE  Shown(W, {c}, a) = WithFirst(W, a[c])
<1>1. (CHOOSE d \in {c} : TRUE) = c
  OBVIOUS
<1> QED
  BY <1>1 DEF Shown, WithFirst

LEMMA ItemsAre ==
  /\ Moved = {} => Items = Window(head_, tail_)
  /\ \A c : Moved = {c} => Items = WithFirst(Window(head_, tail_), arg[c])
<1> DEFINE W == Window(head_, tail_)
<1>1. Items = Shown(W, Moved, arg)
  BY ContentIsWindow DEF Items, Shown
<1>2. W = [i \in DOMAIN W |-> W[i]]
  BY DEF Window, Entries
<1> HIDE DEF W
<1> QED
  BY <1>1, <1>2, ShownNone, ShownOne DEF W

LEMMA ItemsArePrime ==
  /\ Moved' = {} => Items' = Window(head_, tail_)'
  /\ \A c : Moved' = {c} => Items' = WithFirst(Window(head_, tail_)', arg'[c])
<1> DEFINE W == Window(head_, tail_)'
           M == Moved'
           a == arg'
<1>1. Items' = Shown(W, M, a)
  BY DEF Items, Content, Window, Entries, Shown
<1>2. W = [i \in DOMAIN W |-> W[i]]
  BY DEF Window, Entries
<1> HIDE DEF W, M, a
<1>3. M = {} => Items' = W
  BY <1>1, <1>2, ShownNone
<1>4. \A c : M = {c} => Items' = WithFirst(W, a[c])
  BY <1>1, ShownOne
<1> QED
  BY <1>3, <1>4 DEF W, M, a

(* At most one value is in hand.                                            *)
LEMMA OneInHand ==
  ASSUME CallersInv
  PROVE  \A c \in Threads : pc[c] = "remove" => Moved = {c}
  BY DEF CallersInv, Popping, Moved

(* As many items as tickets.                                                *)
LEMMA WindowSeq ==
  ASSUME RingInv
  PROVE  /\ Window(head_, tail_) \in Seq(Values \cup {Stale})
         /\ Len(Window(head_, tail_)) = tail_ - head_
<1> DEFINE V == Values \cup {Stale}
           s == slots
           d == depth
           h == head_
           l == tail_
<1>1. h \in Nat /\ l \in Nat /\ h <= l /\ d \in Nat /\ l <= h + d
  BY RingTypes DEF RingInv, TokensInv
<1>2. \A k \in h..(l - 1) : s[k % d] \in V
  BY <1>1, RingTypes
<1> HIDE DEF V, s, d, h, l
<1>3. Entries(s, d, h, l) \in Seq(V)
  BY <1>1, <1>2, EntriesSeq
<1>4. Len(Entries(s, d, h, l)) = l - h
  BY <1>1, EntriesLen
<1> QED
  BY <1>3, <1>4 DEF Window, V, s, d, h, l

LEMMA WithFirstSeq ==
  ASSUME NEW V, NEW e \in Seq(V), NEW x \in V, e # <<>>
  PROVE  WithFirst(e, x) \in Seq(V) /\ Len(WithFirst(e, x)) = Len(e)
<1>1. 1 \in 1..Len(e)
  OBVIOUS
<1> QED
  BY <1>1, ExceptSeq DEF WithFirst

LEMMA WithFirstAt ==
  ASSUME NEW V, NEW e \in Seq(V), NEW x \in V, NEW i \in 1..Len(e), e # <<>>
  PROVE  WithFirst(e, x)[i] = IF i = 1 THEN x ELSE e[i]
  BY DEF WithFirst

(* The front of a queue may be replaced before or after an insertion.       *)
LEMMA AppendWithFirst ==
  ASSUME NEW V, NEW W \in Seq(V), NEW x, NEW v \in V, W # <<>>
  PROVE  WithFirst(Append(W, v), x) = Append(WithFirst(W, x), v)
<1> DEFINE U == V \cup {x}
           n == Len(W)
           A == Append(W, v)
           F == WithFirst(W, x)
           e == WithFirst(A, x)
           f == Append(F, v)
<1>1. W \in Seq(U) /\ v \in U /\ x \in U /\ n \in Nat /\ n > 0
  BY SeqMonotonic
<1> HIDE DEF U
<1>2. A \in Seq(U) /\ Len(A) = n + 1 /\ A[n + 1] = v /\ \A i \in 1..n : A[i] = W[i]
  BY <1>1, AppendProperties
<1>3. F \in Seq(U) /\ Len(F) = n
  BY <1>1, WithFirstSeq
<1>4. \A i \in 1..n : F[i] = IF i = 1 THEN x ELSE W[i]
  BY <1>1, WithFirstAt
<1> HIDE DEF A, F, n
<1>5. A # <<>>
  BY <1>1, <1>2
<1>6. e \in Seq(U) /\ Len(e) = n + 1
  BY <1>1, <1>2, <1>5, WithFirstSeq
<1>7. \A i \in 1..(n + 1) : e[i] = IF i = 1 THEN x ELSE A[i]
  BY <1>1, <1>2, <1>5, WithFirstAt
<1>8. f \in Seq(U) /\ Len(f) = n + 1 /\ f[n + 1] = v /\ \A i \in 1..n : f[i] = F[i]
  BY <1>1, <1>3, AppendProperties
<1> HIDE DEF e, f
<1>9. \A i \in 1..(n + 1) : e[i] = f[i]
  BY <1>1, <1>2, <1>4, <1>7, <1>8
<1> QED
  BY <1>6, <1>8, <1>9, SeqEqual DEF e, f, A, F

LEMMA ItemsSeq ==
  ASSUME RingInv
  PROVE  Items \in Seq(Values \cup {Stale}) /\ Len(Items) = tail_ - head_
<1> DEFINE V == Values \cup {Stale}
           W == Window(head_, tail_)
<1>1. W \in Seq(V) /\ Len(W) = tail_ - head_
  BY WindowSeq
<1>2. CASE Moved = {}
  BY <1>1, <1>2, ItemsAre
<1>3. ASSUME NEW c \in Moved
      PROVE  Items \in Seq(V) /\ Len(Items) = tail_ - head_
  <2>1. c \in Threads /\ Moved = {c} /\ head_ < tail_
    BY <1>3, OneInHand DEF Moved, RingInv, TokensInv
  <2>2. arg[c] \in V /\ W # <<>>
    BY <1>1, <2>1, RingTypes DEF RingInv, TypeOK
  <2>3. Items = WithFirst(W, arg[c])
    BY <2>1, ItemsAre
  <2> HIDE DEF V, W
  <2> QED
    BY <1>1, <2>2, <2>3, WithFirstSeq
<1> QED
  BY <1>2, <1>3

(* Steps that leave the entries and the value in hand alone.                *)
LEMMA ItemsKept ==
  ASSUME RingInv, Window(head_, tail_)' = Window(head_, tail_), Moved' = Moved,
         \A c \in Moved : arg'[c] = arg[c]
  PROVE  Items' = Items
<1>1. CASE Moved = {}
  BY <1>1, ItemsAre, ItemsArePrime
<1>2. ASSUME NEW c \in Moved
      PROVE  Items' = Items
  <2>1. Moved = {c}
    BY <1>2, OneInHand DEF Moved, RingInv
  <2> QED
    BY <2>1, ItemsAre, ItemsArePrime
<1> QED
  BY <1>1, <1>2

LEMMA EmplaceFifo ==
  ASSUME RingInv, in_order, NEW p \in Threads, InEmplace(p)
  PROVE  \/ \E v \in Values : Abs!Insert(v) /\ entered' = Append(entered, v)
         \/ UNCHANGED <<Items, depth, popped, entered>>
<1>1. /\ depth \in Nat /\ tail_ \in Nat /\ head_ \in Nat /\ head_ <= tail_
      /\ DOMAIN pc = Threads
  BY RingTypes DEF RingInv, TokensInv, TypeOK
<1>2. CASE TestSpace(p)
  <2>1. UNCHANGED <<ringVars, arg, popped, entered>> /\ Moved' = Moved
    BY <1>1, <1>2 DEF TestSpace, Goto, Moved, RingInv, TypeOK
  <2>2. Window(head_, tail_)' = Window(head_, tail_)
    BY <2>1 DEF Window, ringVars
  <2> QED
    BY <2>1, <2>2, ItemsKept DEF ringVars
<1>3. CASE StoreEntry(p)
  <2>1. /\ UNCHANGED <<depth, tail_, head_, arg, popped, entered>> /\ Moved' = Moved
        /\ tok[p] = tail_ /\ tail_ < head_ + depth /\ depth > 0
    BY <1>1, <1>3 DEF StoreEntry, Goto, Moved, RingInv, TypeOK, TokensInv
  <2>2. SetSlot(tail_, arg[p])
    BY <1>3, <2>1 DEF StoreEntry
  <2>3. \A j \in Nat : j < tail_ + depth /\ tail_ < j + depth /\ j # tail_
                       => slots'[j % depth] = slots[j % depth]
    BY <1>1, <2>1, <2>2, OtherEntries DEF RingInv
  <2>4. \A k \in head_..(tail_ - 1) : slots'[k % depth] = slots[k % depth]
    BY <1>1, <2>1, <2>3
  <2>5. Window(head_, tail_)' = Window(head_, tail_)
    BY <1>1, <2>1, <2>4, EntriesSame DEF Window
  <2> QED
    BY <2>1, <2>5, ItemsKept
<1>4. CASE AppendEntry(p)
  <2> DEFINE V == Values \cup {Stale}
             W == Window(head_, tail_)
             v == arg[p]
  <2>1. /\ UNCHANGED <<depth, slots, head_, arg, popped>> /\ Moved' = Moved
        /\ tail_' = tail_ + 1 /\ tail_ < head_ + depth /\ v \in Values
        /\ slots[tail_ % depth] = v
    BY <1>1, <1>4 DEF AppendEntry, AdvanceTail, Goto, Moved, RingInv, TypeOK, TokensInv,
                      EntriesInv, Emplacing
  <2>2. Window(head_, tail_)' = Append(W, v)
    <3>1. Entries(slots, depth, head_, tail_ + 1)
            = Append(Entries(slots, depth, head_, tail_), slots[tail_ % depth])
      BY <1>1, EntriesAppend
    <3> QED
      BY <2>1, <3>1 DEF Window
  <2>3. W \in Seq(V) /\ Len(W) = tail_ - head_
    BY WindowSeq
  <2>4. Items' = Append(Items, v)
    <3>1. CASE Moved = {}
      BY <2>1, <2>2, <3>1, ItemsAre, ItemsArePrime
    <3>2. ASSUME NEW c \in Moved
          PROVE  Items' = Append(Items, v)
      <4>1. Moved = {c} /\ head_ < tail_
        BY <3>2, OneInHand DEF Moved, RingInv, TokensInv
      <4>2. W # <<>> /\ v \in V
        BY <1>1, <2>1, <2>3, <4>1
      <4>3. Items = WithFirst(W, arg[c]) /\ Items' = WithFirst(Append(W, v), arg[c])
        BY <2>1, <2>2, <4>1, ItemsAre, ItemsArePrime
      <4> HIDE DEF V, W, v
      <4> QED
        BY <2>3, <4>2, <4>3, AppendWithFirst
    <3> QED
      BY <3>1, <3>2
  <2>5. Len(Items) < depth
    BY <1>1, <2>1, ItemsSeq
  <2>6. Abs!Insert(v)
    BY <2>1, <2>4, <2>5 DEF Abs!Insert
  <2>7. entered' = Append(entered, v)
    BY <1>4 DEF AppendEntry, AdvanceTail
  <2> QED
    BY <2>1, <2>6, <2>7
<1>5. CASE AppendEarly(p) \/ StoreLate(p)
  BY <1>5 DEF AppendEarly, StoreLate, RingInv, TokensInv
<1> QED
  BY <1>2, <1>3, <1>4, <1>5 DEF InEmplace

LEMMA PopFifo ==
  ASSUME RingInv, in_order, NEW c \in Threads, InPop(c)
  PROVE  (Abs!Remove \/ UNCHANGED <<Items, depth, popped>>) /\ UNCHANGED entered
<1>1. /\ depth \in Nat /\ tail_ \in Nat /\ head_ \in Nat /\ head_ <= tail_
      /\ DOMAIN pc = Threads /\ DOMAIN arg = Threads
  BY RingTypes DEF RingInv, TokensInv, TypeOK
<1>2. CASE TestEmpty(c)
  <2>1. UNCHANGED <<ringVars, arg, popped, entered>> /\ Moved' = Moved
    BY <1>1, <1>2 DEF TestEmpty, Goto, Moved, RingInv, TypeOK
  <2>2. Window(head_, tail_)' = Window(head_, tail_)
    BY <2>1 DEF Window, ringVars
  <2> QED
    BY <2>1, <2>2, ItemsKept DEF ringVars
<1>3. CASE MoveEntry(c)
  <2>1. /\ UNCHANGED <<depth, tail_, head_, popped, entered>> /\ tok[c] = head_
        /\ head_ < tail_ /\ tail_ <= head_ + depth /\ depth > 0
        /\ arg'[c] = slots[head_ % depth] /\ SetSlot(head_, Stale)
    BY <1>1, <1>3, RingTypes DEF MoveEntry, RingInv, TokensInv
  <2>2. Moved = {} /\ Moved' = {c}
    BY <1>1, <1>3 DEF MoveEntry, Goto, Moved, RingInv, CallersInv, Popping
  <2>3. \A j \in Nat : j < head_ + depth /\ head_ < j + depth /\ j # head_
                       => slots'[j % depth] = slots[j % depth]
    BY <1>1, <2>1, OtherEntries DEF RingInv
  <2>4. \A k \in (head_ + 1)..(tail_ - 1) : slots'[k % depth] = slots[k % depth]
    BY <1>1, <2>1, <2>3
  <2>5. Window(head_, tail_) = WithFirst(Window(head_, tail_)', arg'[c])
    <3> DEFINE s == slots
               z == slots'
               d == depth
               h == head_
               l == tail_
               x == slots[head_ % depth]
    <3>1. /\ h \in Nat /\ l \in Nat /\ h < l /\ s[h % d] = x
          /\ \A k \in (h + 1)..(l - 1) : z[k % d] = s[k % d]
      BY <1>1, <2>1, <2>4
    <3> HIDE DEF s, z, d, h, l, x
    <3>2. Entries(s, d, h, l) = WithFirst(Entries(z, d, h, l), x)
      BY <3>1, EntriesFirst
    <3> QED
      BY <2>1, <3>2 DEF Window, s, z, d, h, l, x
  <2>6. Items' = Items
    BY <2>2, <2>5, ItemsAre, ItemsArePrime
  <2> QED
    BY <2>1, <2>6
<1>4. CASE RemoveEntry(c)
  <2>1. /\ UNCHANGED <<depth, slots, tail_, entered>> /\ pc[c] = "remove" /\ head_ < tail_
        /\ head_' = head_ + 1 /\ popped' = Append(popped, arg[c])
    BY <1>4 DEF RemoveEntry, RingInv, TokensInv
  <2>2. Moved = {c} /\ Moved' = {}
    BY <1>1, <1>4 DEF RemoveEntry, Goto, Moved, RingInv, CallersInv, Popping
  <2>3. Items = WithFirst(Entries(slots, depth, head_, tail_), arg[c])
    BY <2>2, ItemsAre DEF Window
  <2>4. /\ Items # <<>> /\ Head(Items) = arg[c]
        /\ Tail(Items) = Entries(slots, depth, head_ + 1, tail_)
    <3> DEFINE V == Values \cup {Stale}
               s == slots
               d == depth
               h == head_
               l == tail_
               x == arg[c]
               e == Items
               f == Tail(Items)
               n == head_ + 1
    <3>1. /\ h \in Nat /\ l \in Nat /\ h < l /\ e \in Seq(V)
          /\ e = WithFirst(Entries(s, d, h, l), x)
      BY <1>1, <2>1, <2>3, ItemsSeq
    <3>2. f = Tail(e) /\ n = h + 1
      OBVIOUS
    <3> HIDE DEF V, s, d, h, l, x, e, f, n
    <3>3. e # <<>> /\ e[1] = x
      BY <3>1, EntriesSome
    <3>4. f = Entries(s, d, n, l)
      BY <3>1, <3>2, EntriesTail
    <3>5. Head(e) = x
      BY <3>1, <3>3
    <3> QED
      BY <3>2, <3>3, <3>4, <3>5 DEF V, s, d, h, l, x, e, f, n
  <2>5. Items' = Tail(Items)
    BY <2>1, <2>2, <2>4, ItemsArePrime DEF Window
  <2>6. Abs!Remove
    BY <2>1, <2>4, <2>5 DEF Abs!Remove
  <2> QED
    BY <2>1, <2>6
<1>5. CASE RemoveEarly(c) \/ MoveLate(c)
  BY <1>5 DEF RemoveEarly, MoveLate, RingInv, TokensInv
<1> QED
  BY <1>2, <1>3, <1>4, <1>5 DEF InPop

LEMMA BeginFifo ==
  ASSUME RingInv, NEW t \in Threads, (\E v \in Values : EmplaceBegin(t, v)) \/ PopBegin(t)
  PROVE  UNCHANGED <<Items, depth, popped, entered>>
<1>1. /\ UNCHANGED <<ringVars, popped, entered>> /\ pc[t] = "idle" /\ pc'[t] # "remove"
      /\ \A c \in Threads : c # t => pc'[c] = pc[c] /\ arg'[c] = arg[c]
  BY DEF EmplaceBegin, PopBegin, Goto, RingInv, TypeOK
<1>2. Moved' = Moved /\ \A c \in Moved : arg'[c] = arg[c]
  BY <1>1 DEF Moved
<1>3. Window(head_, tail_)' = Window(head_, tail_)
  BY <1>1 DEF Window, ringVars
<1> QED
  BY <1>1, <1>2, <1>3, ItemsKept DEF ringVars

LEMMA ResizeFifo ==
  ASSUME RingInv, NEW n \in Depths, Resize(n)
  PROVE  /\ Abs!Resize(n) /\ Items' = SubSeq(Items, 1, Least(Len(Items), n))
         /\ entered' = SubSeq(entered, 1, Least(Len(entered), Len(popped) + n))
<1>1. Moved = {} /\ Moved' = {} /\ UNCHANGED popped
  BY DEF Resize, Moved
<1>2. Items = Content /\ Items' = Content'
  BY <1>1, ItemsAre, ItemsArePrime, ContentIsWindow DEF Content, Window, Entries
<1>3. Items' = SubSeq(Items, 1, Least(Len(Items), n))
  BY <1>2, ResizeFacts
<1>4. depth' = n
  BY ResizeFacts
<1>5. Abs!Resize(n)
  BY <1>1, <1>3, <1>4 DEF Abs!Resize, Least
<1> QED
  BY <1>3, <1>5 DEF Resize

(* The invariant and one step.                                              *)
LEMMA FifoStep ==
  ASSUME OnePair, IInv, [TicketNext]_allVars
  PROVE  [~locked /\ in_order => Abs!Next]_<<Items, depth, popped>>
<1> SUFFICES ASSUME ~locked, in_order
             PROVE  Abs!Next \/ UNCHANGED <<Items, depth, popped>>
  OBVIOUS
<1>1. RingInv /\ Producers \subseteq Threads /\ Consumers \subseteq Threads
  BY SpscAssumption DEF IInv, Exclusive
<1>2. CASE Next
  <2>1. ASSUME NEW p \in Producers, InEmplace(p)
        PROVE  Abs!Next \/ UNCHANGED <<Items, depth, popped>>
    BY <1>1, <2>1, EmplaceFifo DEF Abs!Next
  <2>2. ASSUME NEW c \in Consumers, InPop(c)
        PROVE  Abs!Next \/ UNCHANGED <<Items, depth, popped>>
    BY <1>1, <2>2, PopFifo DEF Abs!Next
  <2>3. ASSUME NEW n \in Depths, Resize(n)
        PROVE  Abs!Next
    BY <1>1, <2>3, ResizeFifo DEF Abs!Next
  <2> QED
    BY <1>1, <1>2, <2>1, <2>2, <2>3, BeginFifo DEF Next
<1>3. CASE UNCHANGED allVars
  <2>1. UNCHANGED <<ringVars, pc, arg, popped>>
    BY <1>3 DEF allVars, vars
  <2>2. UNCHANGED <<Items, depth, popped>>
    BY <2>1 DEF ringVars, Items, Content, Moved
  <2> QED
    BY <2>2
<1> QED
  BY <1>2, <1>3 DEF TicketNext

(* spsc_queue of one producer and one consumer, in a build that keeps the   *)
(* order of the source: an emplace that gets an entry is an insertion at    *)
(* the end, a pop that gets one removes the front, and Resize keeps the     *)
(* oldest entries, although nothing but two plain counters orders the two.  *)
THEOREM RingRefinement ==
  ASSUME OnePair
  PROVE  TicketSpec => ImplementsFifo
<1>1. TicketInit => Abs!Init
  <2> SUFFICES ASSUME TicketInit
               PROVE  Abs!Init
    OBVIOUS
  <2>1. Items = <<>>
    BY DEF TicketInit, Init, Items, Content
  <2> QED
    BY <2>1 DEF TicketInit, Init, Abs!Init
<1>2. IInv /\ [TicketNext]_allVars => [~locked /\ in_order => Abs!Next]_<<Items, depth, popped>>
  BY FifoStep
<1> QED
  BY <1>1, <1>2, TicketInvariant, PTL DEF TicketSpec, ImplementsFifo

-----------------------------------------------------------------------------
(* Nothing is lost.                                                         *)

RingValues == Exclusive /\ in_order => entered = popped \o Items

(* What Resize gives up is at the end of what has entered.                  *)
LEMMA ConcatCut ==
  ASSUME NEW V, NEW r \in Seq(V), NEW q \in Seq(V), NEW k \in 0..Len(q)
  PROVE  SubSeq(r \o q, 1, Len(r) + k) = r \o SubSeq(q, 1, k)
<1> DEFINE m == Len(r) + k
           a == r \o q
           x == SubSeq(a, 1, m)
           y == SubSeq(q, 1, k)
           b == r \o y
<1>1. Len(r) \in Nat /\ Len(q) \in Nat /\ k \in Nat /\ m \in Nat
  BY LenProperties
<1>2. /\ a \in Seq(V) /\ Len(a) = Len(r) + Len(q)
      /\ \A i \in 1..(Len(r) + Len(q)) : a[i] = IF i <= Len(r) THEN r[i] ELSE q[i - Len(r)]
  BY ConcatProperties
<1> HIDE DEF a
<1>3. \A i \in 1..m : a[i] \in V
  BY <1>1, <1>2, ElementOfSeq
<1>4. x \in Seq(V) /\ Len(x) = m /\ \A i \in 1..m : x[i] = a[i]
  <2> HIDE DEF m
  <2>1. /\ SubSeq(a, 1, m) \in Seq(V)
        /\ Len(SubSeq(a, 1, m)) = IF 1 <= m THEN m - 1 + 1 ELSE 0
        /\ \A i \in 1..(m - 1 + 1) : SubSeq(a, 1, m)[i] = a[1 + i - 1]
    BY <1>1, <1>3, SubSeqProperties
  <2> QED
    BY <1>1, <2>1
<1>5. \A i \in 1..k : q[i] \in V
  BY <1>1, ElementOfSeq
<1>6. y \in Seq(V) /\ Len(y) = k /\ \A i \in 1..k : y[i] = q[i]
  <2>1. /\ SubSeq(q, 1, k) \in Seq(V)
        /\ Len(SubSeq(q, 1, k)) = IF 1 <= k THEN k - 1 + 1 ELSE 0
        /\ \A i \in 1..(k - 1 + 1) : SubSeq(q, 1, k)[i] = q[1 + i - 1]
    BY <1>1, <1>5, SubSeqProperties
  <2> QED
    BY <1>1, <2>1
<1> HIDE DEF x, y
<1>7. /\ b \in Seq(V) /\ Len(b) = Len(r) + Len(y)
      /\ \A i \in 1..(Len(r) + Len(y)) :
           b[i] = IF i <= Len(r) THEN r[i] ELSE y[i - Len(r)]
  BY <1>6, ConcatProperties
<1> HIDE DEF b
<1>8. ASSUME NEW i \in 1..Len(x)
      PROVE  x[i] = b[i]
  <2>1. i \in 1..m /\ i \in 1..(Len(r) + Len(q)) /\ i \in 1..(Len(r) + Len(y))
    BY <1>1, <1>4, <1>6
  <2>2. CASE i <= Len(r)
    BY <1>2, <1>4, <1>7, <2>1, <2>2
  <2>3. CASE i > Len(r)
    <3>1. i - Len(r) \in 1..k
      BY <1>1, <2>1, <2>3
    <3> QED
      BY <1>1, <1>2, <1>4, <1>6, <1>7, <2>1, <2>3, <3>1
  <2> QED
    BY <1>1, <2>1, <2>2, <2>3
<1>9. Len(x) = Len(b)
  BY <1>4, <1>6, <1>7
<1>10. x = b
  BY <1>4, <1>7, <1>8, <1>9, SeqEqual
<1> QED
  BY <1>10 DEF x, b, y, a

(* In a build that keeps the order, one operation of the abstract queue     *)
(* keeps what has entered equal to what was popped and what is left.        *)
LEMMA InsertValues ==
  ASSUME RingInv, entered = popped \o Items, NEW v \in Values, Abs!Insert(v),
         entered' = Append(entered, v)
  PROVE  entered' = popped' \o Items'
<1> DEFINE V == Values \cup {Stale}
           q == Items
<1>1. popped \in Seq(V) /\ q \in Seq(V) /\ v \in V
  <2>1. popped \in Seq(Passed) /\ Passed \subseteq V
    BY DEF RingInv, TypeOK, Passed
  <2> QED
    BY <2>1, SeqMonotonic, ItemsSeq
<1>2. /\ entered = popped \o q /\ popped' = popped
      /\ Items' = Append(q, v)
  BY DEF Abs!Insert
<1> HIDE DEF V, q
<1>3. popped \o q \in Seq(V) /\ <<v>> \in Seq(V)
  BY <1>1, ConcatProperties
<1>4. Append(popped \o q, v) = (popped \o q) \o <<v>> /\ Append(q, v) = q \o <<v>>
  BY <1>1, <1>3, AppendIsConcat
<1>5. Append(popped \o q, v) = popped \o Append(q, v)
  BY <1>1, <1>3, <1>4, ConcatAssociative
<1> QED
  BY <1>2, <1>5, Zenon

LEMMA RemoveValues ==
  ASSUME RingInv, entered = popped \o Items, Abs!Remove, UNCHANGED entered
  PROVE  entered' = popped' \o Items'
<1> DEFINE V == Values \cup {Stale}
           q == Items
<1>1. popped \in Seq(V) /\ q \in Seq(V) /\ q # <<>>
  <2>1. popped \in Seq(Passed) /\ Passed \subseteq V
    BY DEF RingInv, TypeOK, Passed
  <2> QED
    BY <2>1, SeqMonotonic, ItemsSeq DEF Abs!Remove
<1>2. /\ entered' = popped \o q /\ popped' = Append(popped, Head(q)) /\ Items' = Tail(q)
  BY DEF Abs!Remove
<1> HIDE DEF V, q
<1>3. popped \o q = Append(popped, Head(q)) \o Tail(q)
  BY <1>1, ConcatMove
<1> QED
  BY <1>2, <1>3, Zenon

LEMMA ResizeValues ==
  ASSUME RingInv, entered = popped \o Items, NEW n \in Depths, Resize(n)
  PROVE  entered' = popped' \o Items'
<1> DEFINE V == Values \cup {Stale}
           q == Items
           k == Least(Len(q), n)
           m == Least(Len(entered), Len(popped) + n)
<1>1. popped \in Seq(V) /\ q \in Seq(V) /\ n \in Nat
  <2>1. popped \in Seq(Passed) /\ Passed \subseteq V
    BY DEF RingInv, TypeOK, Passed
  <2> QED
    BY <2>1, SeqMonotonic, ItemsSeq, SpscAssumption
<1>2. Items' = SubSeq(q, 1, k) /\ entered' = SubSeq(entered, 1, m) /\ popped' = popped
      /\ entered = popped \o q
  BY ResizeFifo DEF Resize
<1> HIDE DEF V, q
<1>3. Len(entered) = Len(popped) + Len(q) /\ Len(popped) \in Nat /\ Len(q) \in Nat
  BY <1>1, <1>2, ConcatProperties, LenProperties
<1>4. k \in 0..Len(q) /\ m = Len(popped) + k
  BY <1>1, <1>3 DEF Least
<1> HIDE DEF k, m
<1>5. SubSeq(popped \o q, 1, Len(popped) + k) = popped \o SubSeq(q, 1, k)
  BY <1>1, <1>4, ConcatCut
<1> QED
  BY <1>2, <1>4, <1>5, Zenon

(* Every step of every caller.                                              *)
LEMMA RingValuesKept ==
  ASSUME IInv, RingValues, [TicketNext]_allVars
  PROVE  RingValues'
<1>0. UNCHANGED <<locked, in_order>>
  BY DEF TicketNext, Call, Acquire, EnterRing, InRing, Release, Next, ticketVars, allVars, vars,
         EmplaceBegin, PopBegin, InEmplace, InPop, TestSpace, StoreEntry, AppendEntry,
         AppendEarly, AdvanceTail, StoreLate, TestEmpty, MoveEntry, RemoveEntry, RemoveEarly,
         MoveLate, Resize
<1> SUFFICES ASSUME Exclusive, in_order
             PROVE  entered' = popped' \o Items'
  BY <1>0 DEF RingValues, Exclusive
<1>1. /\ RingInv /\ entered = popped \o Items
      /\ Producers \subseteq Threads /\ Consumers \subseteq Threads
  BY SpscAssumption DEF IInv, RingValues
<1>2. ASSUME UNCHANGED <<Items, popped, entered>>
      PROVE  entered' = popped' \o Items'
  BY <1>1, <1>2
<1>3. ASSUME UNCHANGED vars
      PROVE  entered' = popped' \o Items'
  <2>1. UNCHANGED <<Items, popped, entered>>
    BY <1>3 DEF vars, ringVars, Items, Content, Moved
  <2> QED
    BY <1>2, <2>1
<1>4. ASSUME NEW t \in Threads, InEmplace(t)
      PROVE  entered' = popped' \o Items'
  BY <1>1, <1>2, <1>4, EmplaceFifo, InsertValues
<1>5. ASSUME NEW t \in Threads, InPop(t)
      PROVE  entered' = popped' \o Items'
  BY <1>1, <1>2, <1>5, PopFifo, RemoveValues
<1>6. ASSUME NEW t \in Threads, (\E v \in Values : EmplaceBegin(t, v)) \/ PopBegin(t)
      PROVE  entered' = popped' \o Items'
  BY <1>1, <1>2, <1>6, BeginFifo
<1>7. ASSUME NEW n \in Depths, Resize(n)
      PROVE  entered' = popped' \o Items'
  BY <1>1, <1>7, ResizeValues
<1>8. CASE Next
  BY <1>1, <1>4, <1>5, <1>6, <1>7, <1>8 DEF Next
<1>9. ASSUME NEW t \in Threads, EnterRing(t)
      PROVE  entered' = popped' \o Items'
  BY <1>6, <1>9 DEF EnterRing
<1>10. ASSUME NEW t \in Threads, InRing(t)
       PROVE  entered' = popped' \o Items'
  BY <1>4, <1>5, <1>10 DEF InRing
<1>11. ASSUME NEW t \in Threads, Call(t) \/ Acquire(t) \/ Release(t)
       PROVE  entered' = popped' \o Items'
  BY <1>3, <1>11 DEF Call, Acquire, Release
<1>12. CASE UNCHANGED allVars
  BY <1>3, <1>12 DEF allVars
<1> QED
  BY <1>8, <1>9, <1>10, <1>11, <1>12 DEF TicketNext

(* When no call is inside the lock, the queue is what is left of what has   *)
(* entered, in a build that reorders too.                                   *)
LEMMA IdleValues ==
  ASSUME IInv, locked, \A t \in Threads : pc[t] = "idle"
  PROVE  entered = popped \o Items
<1>1. Moved = {}
  BY DEF Moved
<1>2. Items = Window(head_, tail_)
  BY <1>1, ItemsAre
<1>3. entered = popped \o Window(head_, tail_)
  BY DEF IInv, HistoryInv, EnteredInside
<1> QED
  BY <1>2, <1>3, Zenon

(* emplace, pop and Resize of both queues: the values that entered are, in  *)
(* their order, those popped and those left, under the lock or with one     *)
(* producer and one consumer; without the lock in builds that keep the      *)
(* order of the plain accesses, and with it, between calls, in all builds.  *)
THEOREM RingLosesNothing == TicketSpec => [](Exclusive => NothingLost)
<1>1. TicketInit => RingValues
  <2> SUFFICES ASSUME TicketInit
               PROVE  RingValues
    OBVIOUS
  <2>1. Items = <<>> /\ entered = <<>> /\ popped = <<>>
    BY DEF TicketInit, Init, Items, Content
  <2>2. <<>> \o <<>> = <<>>
    OBVIOUS
  <2> QED
    BY <2>1, <2>2, Zenon DEF RingValues
<1>2. IInv /\ RingValues /\ [TicketNext]_allVars => RingValues'
  BY RingValuesKept
<1>3. IInv /\ RingValues => (Exclusive => NothingLost)
  BY IdleValues DEF RingValues, NothingLost
<1> QED
  BY <1>1, <1>2, <1>3, TicketInvariant, PTL DEF TicketSpec
=============================================================================

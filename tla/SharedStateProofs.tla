--------------------------- MODULE SharedStateProofs --------------------------
(***************************************************************************)
(* Theorems about three components that share little with each other: the   *)
(* Mutex, split_ticket_queue and the MemoryManager.                        *)
(***************************************************************************)
EXTENDS Mutex, SplitTicketQueue, MemoryManager, FiniteSetTheorems, TLAPS

(***************************************************************************)
(* Mutual exclusion of hshm::Mutex, and its refinement of AbstractLock, for *)
(* every finite set of threads that fits in the lock word.                 *)
(***************************************************************************)

(* The inductive invariant: the word counts the claims, one guard owns the  *)
(* mutex, and a guard that owns it is outside of every call.                *)
OwnerIsReady == \A t \in Threads : is_locked_[t] => pc[t] = "ready"

IInv == TypeOK /\ MutualExclusion /\ WordCountsClaims /\ OwnerIsReady

-----------------------------------------------------------------------------
(* Arithmetic of the 32-bit word: no wrap inside of the range.              *)
LEMMA WordArithmetic ==
  ASSUME NEW n \in Nat, n < LockMod
  PROVE  /\ n + 1 < LockMod => FetchAdd(n) = n + 1
         /\ n > 0 => FetchSub(n) = n - 1
  BY MutexAssumption, SMT DEF FetchAdd, FetchSub

(* The claims are finitely many, fewer than the word can count.             *)
LEMMA ClaimsFinite ==
  /\ IsFiniteSet(Claims)
  /\ Cardinality(Claims) \in Nat
  /\ Cardinality(Claims) < LockMod
<1>1. Claims \subseteq Threads
  BY DEF Claims
<1>2. /\ IsFiniteSet(Claims)
      /\ Cardinality(Claims) <= Cardinality(Threads)
  BY <1>1, FS_Subset, MutexAssumption
<1>3. Cardinality(Claims) \in Nat /\ Cardinality(Threads) \in Nat
  BY <1>2, FS_CardinalityType, MutexAssumption
<1> QED
  BY <1>2, <1>3, MutexAssumption

(* A thread without a unit in the word can add one.                         *)
LEMMA ClaimAdded ==
  ASSUME TypeOK, WordCountsClaims,
         NEW t \in Threads, t \notin Claims, Claims' = Claims \cup {t},
         lock_' = FetchAdd(lock_)
  PROVE  lock_' = lock_ + 1 /\ lock_' \in 0..(LockMod - 1) /\ WordCountsClaims'
<1>1. IsFiniteSet(Claims) /\ Cardinality(Claims) \in Nat
  BY ClaimsFinite
<1>2. Cardinality(Claims \cup {t}) = Cardinality(Claims) + 1
  BY <1>1, FS_AddElement
<1>3. Claims \cup {t} \subseteq Threads
  BY DEF Claims
<1>4. Cardinality(Claims) + 1 < LockMod
  <2>1. Cardinality(Claims \cup {t}) <= Cardinality(Threads)
    BY <1>3, FS_Subset, MutexAssumption
  <2>2. Cardinality(Threads) \in Nat
    BY FS_CardinalityType, MutexAssumption
  <2> QED
    BY <1>1, <1>2, <2>1, <2>2, MutexAssumption
<1>5. lock_ \in Nat /\ lock_ < LockMod /\ lock_ = Cardinality(Claims)
  BY MutexAssumption DEF TypeOK, WordCountsClaims
<1>6. lock_' = lock_ + 1
  BY <1>4, <1>5, WordArithmetic
<1>7. WordCountsClaims'
  BY <1>2, <1>5, <1>6 DEF WordCountsClaims
<1> QED
  BY <1>4, <1>5, <1>6, <1>7, MutexAssumption

(* A thread with a unit in the word can take it back.                       *)
LEMMA ClaimRemoved ==
  ASSUME TypeOK, WordCountsClaims,
         NEW t \in Threads, t \in Claims, Claims' = Claims \ {t},
         lock_' = FetchSub(lock_)
  PROVE  lock_' = lock_ - 1 /\ lock_' \in 0..(LockMod - 1) /\ WordCountsClaims'
<1>1. IsFiniteSet(Claims) /\ Cardinality(Claims) \in Nat
  BY ClaimsFinite
<1>2. Cardinality(Claims \ {t}) = Cardinality(Claims) - 1
  BY <1>1, FS_RemoveElement
<1>3. Cardinality(Claims) > 0
  BY <1>1, FS_EmptySet
<1>4. lock_ \in Nat /\ lock_ < LockMod /\ lock_ = Cardinality(Claims)
  BY MutexAssumption DEF TypeOK, WordCountsClaims
<1>5. lock_' = lock_ - 1
  BY <1>3, <1>4, WordArithmetic
<1>6. WordCountsClaims'
  BY <1>2, <1>4, <1>5 DEF WordCountsClaims
<1> QED
  BY <1>3, <1>4, <1>5, <1>6, MutexAssumption

-----------------------------------------------------------------------------

(* A free lock and idle threads satisfy the invariant.                      *)
LEMMA InitInvariant == Init => IInv
<1> SUFFICES ASSUME Init PROVE IInv
  OBVIOUS
<1>1. TypeOK
  <2>1. 0 \in 0..(LockMod - 1)
    BY MutexAssumption, FS_CardinalityType
  <2> QED
    BY <2>1 DEF Init, TypeOK, PCs
<1>2. MutualExclusion /\ OwnerIsReady
  BY DEF Init, MutualExclusion, OwnerIsReady
<1>3. WordCountsClaims
  <2>1. Claims = {}
    BY DEF Init, Claims
  <2> QED
    BY <2>1, FS_EmptySet DEF Init, WordCountsClaims
<1> QED
  BY <1>1, <1>2, <1>3 DEF IInv

(* A step that leaves the word and every claim alone.                       *)
LEMMA QuietStep ==
  ASSUME IInv, lock_' = lock_, is_locked_' = is_locked_,
         NEW t \in Threads, ~is_locked_[t], pc[t] # "undo",
         NEW l \in PCs \ {"undo"}, pc' = [pc EXCEPT ![t] = l],
         op' \in [Threads -> {"Lock", "TryLock"}]
  PROVE  IInv'
<1>1. TypeOK'
  BY DEF IInv, TypeOK
<1>2. MutualExclusion' /\ OwnerIsReady'
  BY DEF IInv, TypeOK, MutualExclusion, OwnerIsReady
<1>3. Claims' = Claims
  BY DEF IInv, TypeOK, Claims
<1>4. WordCountsClaims'
  BY <1>3 DEF IInv, WordCountsClaims
<1> QED
  BY <1>1, <1>2, <1>4 DEF IInv

(* Every step of Lock, TryLock, Unlock and the guard preserves the          *)
(* invariant.                                                               *)
LEMMA NextInvariant == IInv /\ [Next]_vars => IInv'
<1> SUFFICES ASSUME IInv, [Next]_vars PROVE IInv'
  OBVIOUS
<1> USE DEF PCs
<1>a. TypeOK /\ MutualExclusion /\ WordCountsClaims /\ OwnerIsReady
  BY DEF IInv
<1>1. ASSUME NEW t \in Threads, Construct(t) PROVE IInv'
  <2>1. ~is_locked_[t]
    BY <1>a, <1>1 DEF OwnerIsReady, Construct
  <2>2. is_locked_' = is_locked_
    BY <1>a, <1>1, <2>1 DEF TypeOK, Construct
  <2>3. op' \in [Threads -> {"Lock", "TryLock"}]
    BY <1>a, <1>1 DEF TypeOK, Construct
  <2> QED
    BY <1>1, <2>1, <2>2, <2>3, QuietStep DEF Construct, Goto
<1>2. ASSUME NEW t \in Threads, CallLock(t) \/ CallTryLock(t) PROVE IInv'
  <2>1. op' \in [Threads -> {"Lock", "TryLock"}]
    BY <1>a, <1>2 DEF TypeOK, CallLock, CallTryLock
  <2> QED
    BY <1>2, <2>1, QuietStep DEF CallLock, CallTryLock, Goto
<1>3. ASSUME NEW t \in Threads, is_locked_[t], lock_' = FetchSub(lock_),
             is_locked_' = [is_locked_ EXCEPT ![t] = FALSE], op' = op,
             NEW l \in {"ready", "none"}, pc' = [pc EXCEPT ![t] = l]
      PROVE  IInv'
  <2>1. t \in Claims /\ Claims' = Claims \ {t}
    BY <1>a, <1>3 DEF TypeOK, OwnerIsReady, Claims
  <2>2. WordCountsClaims' /\ lock_' \in 0..(LockMod - 1)
    BY <1>a, <1>3, <2>1, ClaimRemoved
  <2>3. MutualExclusion' /\ OwnerIsReady'
    BY <1>a, <1>3 DEF TypeOK, MutualExclusion, OwnerIsReady
  <2>4. TypeOK'
    BY <1>a, <1>3, <2>2 DEF TypeOK
  <2> QED
    BY <2>2, <2>3, <2>4 DEF IInv
<1>4. ASSUME NEW t \in Threads, CallUnlock(t) PROVE IInv'
  <2>1. pc' = [pc EXCEPT ![t] = "ready"]
    BY <1>a, <1>4 DEF TypeOK, CallUnlock
  <2> QED
    BY <1>3, <1>4, <2>1 DEF CallUnlock
<1>5. ASSUME NEW t \in Threads, Destruct(t) PROVE IInv'
  <2>1. CASE is_locked_[t]
    BY <1>3, <1>5, <2>1 DEF Destruct, Goto
  <2>2. CASE ~is_locked_[t]
    <3>1. is_locked_' = is_locked_
      BY <1>a, <1>5, <2>2 DEF TypeOK, Destruct
    <3>2. op' \in [Threads -> {"Lock", "TryLock"}]
      BY <1>a, <1>5 DEF TypeOK, Destruct
    <3> QED
      BY <1>5, <2>2, <3>1, <3>2, QuietStep DEF Destruct, Goto
  <2> QED
    BY <2>1, <2>2
<1>6. ASSUME NEW t \in Threads, TryLockLoad(t) \/ LockYield(t) PROVE IInv'
  <2>1. ~is_locked_[t] /\ pc[t] # "undo"
    BY <1>a, <1>6 DEF OwnerIsReady, TryLockLoad, LockYield
  <2>2. op' \in [Threads -> {"Lock", "TryLock"}]
    BY <1>a, <1>6 DEF TypeOK, TryLockLoad, LockYield
  <2>3. \E l \in PCs \ {"undo"} : pc' = [pc EXCEPT ![t] = l]
    BY <1>6 DEF TryLockLoad, LockYield, Fail, Goto
  <2> QED
    BY <1>6, <2>1, <2>2, <2>3, QuietStep DEF TryLockLoad, LockYield
<1>7. ASSUME NEW t \in Threads, TryLockAdd(t) PROVE IInv'
  <2>1. t \notin Claims /\ ~is_locked_[t]
    BY <1>a, <1>7 DEF OwnerIsReady, Claims, TryLockAdd
  <2>2. Claims' = Claims \cup {t}
    BY <1>a, <1>7 DEF TypeOK, Claims, TryLockAdd, Goto
  <2>3. lock_' \in 0..(LockMod - 1) /\ WordCountsClaims'
    BY <1>a, <1>7, <2>1, <2>2, ClaimAdded DEF TryLockAdd
  <2>4. TypeOK'
    BY <1>a, <1>7, <2>3 DEF TypeOK, TryLockAdd, Goto
  <2>5. CASE lock_ = 0
    <3>1. Claims = {}
      BY <1>a, <2>5, ClaimsFinite, FS_EmptySet DEF WordCountsClaims
    <3>2. \A s \in Threads : ~is_locked_[s]
      BY <3>1 DEF Claims
    <3>3. MutualExclusion' /\ OwnerIsReady'
      BY <1>a, <1>7, <2>5, <3>2
      DEF TypeOK, MutualExclusion, OwnerIsReady, TryLockAdd, Goto
    <3> QED
      BY <2>3, <2>4, <3>3 DEF IInv
  <2>6. CASE lock_ # 0
    <3>1. MutualExclusion' /\ OwnerIsReady'
      BY <1>a, <1>7, <2>1, <2>6
      DEF TypeOK, MutualExclusion, OwnerIsReady, TryLockAdd, Goto
    <3> QED
      BY <2>3, <2>4, <3>1 DEF IInv
  <2> QED
    BY <2>5, <2>6
<1>8. ASSUME NEW t \in Threads, TryLockUndo(t) PROVE IInv'
  <2>1. t \in Claims /\ ~is_locked_[t]
    BY <1>a, <1>8 DEF OwnerIsReady, Claims, TryLockUndo
  <2>2. PICK l \in {"yield", "ready"} : pc' = [pc EXCEPT ![t] = l]
    BY <1>8 DEF TryLockUndo, Fail, Goto
  <2>3. Claims' = Claims \ {t}
    BY <1>a, <1>8, <2>1, <2>2 DEF TypeOK, Claims, TryLockUndo
  <2>4. lock_' \in 0..(LockMod - 1) /\ WordCountsClaims'
    BY <1>a, <1>8, <2>1, <2>3, ClaimRemoved DEF TryLockUndo
  <2>5. TypeOK'
    BY <1>a, <1>8, <2>2, <2>4 DEF TypeOK, TryLockUndo
  <2>6. MutualExclusion' /\ OwnerIsReady'
    BY <1>a, <1>8, <2>1, <2>2
    DEF TypeOK, MutualExclusion, OwnerIsReady, TryLockUndo
  <2> QED
    BY <2>4, <2>5, <2>6 DEF IInv
<1>9. CASE UNCHANGED vars
  <2>1. Claims' = Claims
    BY <1>9 DEF vars, Claims
  <2> QED
    BY <1>a, <1>9, <2>1
    DEF vars, IInv, TypeOK, MutualExclusion, WordCountsClaims, OwnerIsReady
<1> QED
  BY <1>1, <1>2, <1>4, <1>5, <1>6, <1>7, <1>8, <1>9 DEF Next, InCall

(* Every reachable state satisfies the inductive invariant.                 *)
THEOREM MutexInvariant == Spec => []IInv
  BY InitInvariant, NextInvariant, PTL DEF Spec

(* The lock word stays a 32-bit value and every guard is in a known state.  *)
THEOREM MutexTypeCorrect == Spec => []TypeOK
  BY MutexInvariant, PTL DEF IInv

(* Whatever the number of threads and the order of their calls, at most one *)
(* ScopedMutex owns the mutex.                                              *)
THEOREM MutexExclusion == Spec => []MutualExclusion
  BY MutexInvariant, PTL DEF IInv

(* The word never wraps and counts exactly the units to be taken back.      *)
THEOREM MutexWordExact == Spec => []WordCountsClaims
  BY MutexInvariant, PTL DEF IInv

-----------------------------------------------------------------------------
(* Refinement of AbstractLock.                                              *)

(* The guards that own the mutex: the abstract lock's owners.               *)
Owners == {t \in Threads : is_locked_[t]}

(* An owning guard is the only one: Owners is its singleton.                *)
LEMMA OwnerAlone ==
  ASSUME IInv, NEW t \in Threads, is_locked_[t]
  PROVE  Owners = {t}
  BY DEF IInv, MutualExclusion, Owners

(* Every step is a step of the abstract lock or leaves the owners alone.    *)
LEMMA StepRefines == IInv /\ IInv' /\ [Next]_vars => [Abs!Next]_Owners
<1> SUFFICES ASSUME IInv, [Next]_vars PROVE [Abs!Next]_Owners
  OBVIOUS
<1>a. TypeOK /\ OwnerIsReady /\ WordCountsClaims
  BY DEF IInv
<1>1. ASSUME is_locked_' = is_locked_ PROVE Owners' = Owners
  BY <1>1 DEF Owners
<1>2. ASSUME NEW t \in Threads, is_locked_[t],
             is_locked_' = [is_locked_ EXCEPT ![t] = FALSE]
      PROVE  Abs!Release(t)
  <2>1. Owners = {t}
    BY <1>2, OwnerAlone
  <2>2. Owners' = {}
    BY <1>a, <1>2, <2>1 DEF TypeOK, Owners
  <2> QED
    BY <2>1, <2>2 DEF Abs!Release, Owners
<1>3. ASSUME NEW t \in Threads, TryLockAdd(t), lock_ = 0 PROVE Abs!Acquire(t)
  <2>1. Claims = {}
    BY <1>a, <1>3, ClaimsFinite, FS_EmptySet DEF WordCountsClaims
  <2>2. Owners = {}
    BY <2>1 DEF Claims, Owners
  <2>3. Owners' = {t}
    BY <1>a, <1>3, <2>2 DEF TypeOK, TryLockAdd, Owners
  <2> QED
    BY <2>2, <2>3 DEF Abs!Acquire, Owners
<1>4. ASSUME NEW t \in Threads, Construct(t) PROVE Owners' = Owners
  BY <1>a, <1>4 DEF TypeOK, OwnerIsReady, Construct, Owners
<1>5. ASSUME NEW t \in Threads, Destruct(t) PROVE [Abs!Next]_Owners
  <2>1. CASE is_locked_[t]
    BY <1>2, <1>5, <2>1 DEF Destruct, Abs!Next
  <2>2. CASE ~is_locked_[t]
    BY <1>1, <1>a, <1>5, <2>2 DEF TypeOK, Destruct
  <2> QED
    BY <2>1, <2>2
<1>6. ASSUME NEW t \in Threads, CallUnlock(t) PROVE [Abs!Next]_Owners
  BY <1>2, <1>6 DEF CallUnlock, Abs!Next
<1>7. ASSUME NEW t \in Threads, TryLockAdd(t) PROVE [Abs!Next]_Owners
  <2>1. CASE lock_ = 0
    BY <1>3, <1>7, <2>1 DEF Abs!Next
  <2>2. CASE lock_ # 0
    BY <1>1, <1>7, <2>2 DEF TryLockAdd
  <2> QED
    BY <2>1, <2>2
<1>8. ASSUME NEW t \in Threads,
             \/ CallLock(t) \/ CallTryLock(t) \/ TryLockLoad(t)
             \/ TryLockUndo(t) \/ LockYield(t)
      PROVE  Owners' = Owners
  BY <1>1, <1>8 DEF CallLock, CallTryLock, TryLockLoad, TryLockUndo, LockYield
<1>9. CASE UNCHANGED vars
  BY <1>1, <1>9 DEF vars
<1> QED
  BY <1>4, <1>5, <1>6, <1>7, <1>8, <1>9 DEF Next, InCall

(* The interleaved fetch_add protocol implements the abstract lock.         *)
THEOREM MutexRefinement == Spec => ImplementsAbstractLock
<1>1. Init => Abs!Init
  BY DEF Init, Abs!Init
<1>2. IInv /\ IInv' /\ [Next]_vars => [Abs!Next]_{t \in Threads : is_locked_[t]}
  BY StepRefines DEF Owners
<1> QED
  BY <1>1, <1>2, MutexInvariant, PTL DEF Spec, ImplementsAbstractLock, Abs!Spec

-----------------------------------------------------------------------------
(***************************************************************************)
(* The tickets of split_ticket_queue, for any number of threads and splits, *)
(* any depth and any width of the counters: each is in one place, and a     *)
(* call that gives up was right to, although its walk is not atomic.        *)
(***************************************************************************)

(* The places of the queue: an index of the content of a split.             *)
Places(s) == 1..Len(splits[s])

(* No ticket is in two places of the queue.                                 *)
QueuedOnce == \A s, r \in Splits : \A k \in Places(s), l \in Places(r) :
  splits[s][k] = splits[r][l] => s = r /\ k = l

(* No ticket is with two producers.                                         *)
CarriedOnce == \A p, q \in Producers : tkt[p] = tkt[q] /\ tkt[p] # 0 => p = q

(* A carried ticket is not in the queue, and a popped one is neither.       *)
Apart ==
  /\ \A p \in Producers : tkt[p] # 0 => tkt[p] \notin Queued \cup popped
  /\ Queued \cap popped = {}

(* All this is about the tickets that were handed out, all of them.         *)
Accounted == 1..(next - 1) = Queued \cup popped \cup ({tkt[p] : p \in Producers} \ {0})

(* The splits a walk has yet to try.                                        *)
Untried(t) == {s \in Splits : IF qid[t] <= s THEN s - qid[t] < left[t]
                                           ELSE s + NumSplits - qid[t] < left[t]}

OldTyped == old \in [Callers -> SUBSET (Splits \cup Items)]

(* What has been there since a walk began is in a split it has yet to try.  *)
OldAhead ==
  /\ \A p \in Producers : left[p] > 0 => old[p] \subseteq Roomy \cap Untried(p)
  /\ \A c \in Consumers : left[c] > 0 =>
       \A i \in old[c] : \E s \in Untried(c) : i \in Elements(splits[s])

(* A producer in a call carries a ticket.                                   *)
InCallCarries == \A p \in Producers : left[p] > 0 => tkt[p] # 0

SplitsInv ==
  /\ SplitsTypeOK /\ QueuedOnce /\ CarriedOnce /\ Apart /\ Accounted
  /\ InCallCarries /\ OldTyped /\ OldAhead

-----------------------------------------------------------------------------
(* rr % num_splits is a split, and so is the next one, which is the first   *)
(* after the last.                                                         *)
LEMMA SplitIndex ==
  /\ \A rr \in Nat : rr % NumSplits \in Splits
  /\ \A s \in Splits : (s + 1) % NumSplits = IF s = NumSplits - 1 THEN 0 ELSE s + 1
<1>1. \A rr \in Nat : rr % NumSplits \in 0..(NumSplits - 1)
  BY SplitAssumption
<1>2. \A k \in 0..(NumSplits - 1) : k % NumSplits = k
  BY SplitAssumption
<1>3. NumSplits % NumSplits = 0
  BY SplitAssumption
<1>4. ASSUME NEW s \in Splits
      PROVE  (s + 1) % NumSplits = IF s = NumSplits - 1 THEN 0 ELSE s + 1
  <2>1. CASE s = NumSplits - 1
    <3>1. s + 1 = NumSplits
      BY <2>1, SplitAssumption
    <3> QED
      BY <1>3, <2>1, <3>1
  <2>2. CASE s # NumSplits - 1
    <3>1. s + 1 \in 0..(NumSplits - 1)
      BY <2>2, SplitAssumption DEF Splits
    <3> QED
      BY <1>2, <2>2, <3>1
  <2> QED
    BY <2>1, <2>2
<1> QED
  BY <1>1, <1>4 DEF Splits

(* What Append does to the elements and their places.                       *)
LEMMA AppendElements ==
  ASSUME NEW S, NEW q \in Seq(S), NEW e \in S
  PROVE  /\ Append(q, e) \in Seq(S)
         /\ Len(Append(q, e)) = Len(q) + 1
         /\ \A k \in 1..Len(q) : Append(q, e)[k] = q[k]
         /\ Append(q, e)[Len(q) + 1] = e
         /\ Elements(Append(q, e)) = Elements(q) \cup {e}
<1>1. /\ Append(q, e) \in Seq(S)
      /\ Len(Append(q, e)) = Len(q) + 1
      /\ \A k \in 1..Len(q) : Append(q, e)[k] = q[k]
      /\ Append(q, e)[Len(q) + 1] = e
  OBVIOUS
<1>2. DOMAIN Append(q, e) = 1..(Len(q) + 1) /\ DOMAIN q = 1..Len(q) /\ Len(q) \in Nat
  BY <1>1
<1>3. Elements(Append(q, e)) = Elements(q) \cup {e}
  BY <1>1, <1>2 DEF Elements
<1> QED
  BY <1>1, <1>3

(* What Head and Tail do to the elements and their places.                  *)
LEMMA TailElements ==
  ASSUME NEW S, NEW q \in Seq(S), q # <<>>
  PROVE  /\ Tail(q) \in Seq(S) /\ Head(q) \in S /\ Head(q) = q[1]
         /\ Len(Tail(q)) = Len(q) - 1 /\ Len(q) > 0
         /\ \A k \in 1..Len(Tail(q)) : Tail(q)[k] = q[k + 1]
         /\ Elements(q) = Elements(Tail(q)) \cup {Head(q)}
<1>1. /\ Tail(q) \in Seq(S) /\ Head(q) \in S /\ Head(q) = q[1]
      /\ Len(Tail(q)) = Len(q) - 1 /\ Len(q) > 0
      /\ \A k \in 1..Len(Tail(q)) : Tail(q)[k] = q[k + 1]
  OBVIOUS
<1>2. DOMAIN q = 1..Len(q) /\ DOMAIN Tail(q) = 1..(Len(q) - 1) /\ Len(q) \in Nat
  BY <1>1
<1>3. ASSUME NEW k \in 1..Len(q)
      PROVE  q[k] = Head(q) \/ \E j \in 1..(Len(q) - 1) : q[k] = Tail(q)[j]
  <2>1. CASE k = 1
    BY <1>1, <2>1
  <2>2. CASE k # 1
    <3>1. k - 1 \in 1..(Len(q) - 1)
      BY <1>2, <2>2
    <3> QED
      BY <1>1, <3>1
  <2> QED
    BY <2>1, <2>2
<1>4. \A j \in 1..(Len(q) - 1) : \E k \in 1..Len(q) : Tail(q)[j] = q[k]
  <2> SUFFICES ASSUME NEW j \in 1..(Len(q) - 1)
               PROVE  \E k \in 1..Len(q) : Tail(q)[j] = q[k]
    OBVIOUS
  <2>1. j + 1 \in 1..Len(q) /\ Tail(q)[j] = q[j + 1]
    BY <1>1, <1>2
  <2> QED
    BY <2>1
<1>5. 1 \in 1..Len(q)
  BY <1>1, <1>2
<1>6. Elements(q) = Elements(Tail(q)) \cup {Head(q)}
  <2>1. Elements(q) = {q[k] : k \in 1..Len(q)}
    BY <1>2 DEF Elements
  <2>2. Elements(Tail(q)) = {Tail(q)[j] : j \in 1..(Len(q) - 1)}
    BY <1>2 DEF Elements
  <2>3. Elements(q) \subseteq Elements(Tail(q)) \cup {Head(q)}
    BY <1>3, <2>1, <2>2, Zenon
  <2>4. Elements(Tail(q)) \subseteq Elements(q)
    BY <1>4, <2>1, <2>2, Zenon
  <2>5. Head(q) \in Elements(q)
    BY <1>1, <1>5, <2>1
  <2> QED
    BY <2>3, <2>4, <2>5
<1> QED
  BY <1>1, <1>6

(* The walk: it begins with every split untried, and a refusal takes the    *)
(* split that refused off.                                                 *)
LEMMA WalkBegun ==
  ASSUME SplitsTypeOK, NEW t \in Callers, NEW rr \in Nat, BeginWalk(t, rr)
  PROVE  /\ left' \in [Callers -> 0..NumSplits] /\ qid' \in [Callers -> Splits]
         /\ Untried(t)' = Splits /\ left'[t] = NumSplits
         /\ \A o \in Callers \ {t} : left'[o] = left[o] /\ qid'[o] = qid[o]
<1>1. rr % NumSplits \in Splits
  BY SplitIndex
<1>2. qid'[t] \in Splits /\ left'[t] = NumSplits
  BY <1>1 DEF BeginWalk, SplitsTypeOK
<1>3. Untried(t)' = Splits
  BY <1>2, SplitAssumption DEF Untried, Splits
<1>4. NumSplits \in 0..NumSplits
  BY SplitAssumption
<1> QED
  BY <1>1, <1>2, <1>3, <1>4 DEF BeginWalk, SplitsTypeOK

(* A refusal at one split takes it off the untried ones.                    *)
LEMMA WalkContinued ==
  ASSUME SplitsTypeOK, NEW t \in Callers, left[t] > 0, NextSplit(t)
  PROVE  /\ left' \in [Callers -> 0..NumSplits] /\ qid' \in [Callers -> Splits]
         /\ Untried(t)' = Untried(t) \ {qid[t]}
         /\ left[t] = 1 => Untried(t)' = {}
         /\ left'[t] = left[t] - 1
         /\ \A o \in Callers \ {t} : left'[o] = left[o] /\ qid'[o] = qid[o]
<1>1. qid[t] \in Splits /\ left[t] \in 1..NumSplits
  BY SplitAssumption DEF SplitsTypeOK
<1>2. (qid[t] + 1) % NumSplits = IF qid[t] = NumSplits - 1 THEN 0 ELSE qid[t] + 1
  BY <1>1, SplitIndex
<1>3. (qid[t] + 1) % NumSplits \in Splits /\ left[t] - 1 \in 0..NumSplits
  BY <1>1, <1>2, SplitAssumption DEF Splits
<1>4. /\ qid'[t] = (IF qid[t] = NumSplits - 1 THEN 0 ELSE qid[t] + 1)
      /\ left'[t] = left[t] - 1
  BY <1>2 DEF NextSplit, SplitsTypeOK
<1>5. ASSUME NEW s \in Splits
      PROVE  s \in Untried(t)' <=> s \in Untried(t) /\ s # qid[t]
  BY <1>1, <1>4, SplitAssumption DEF Untried, Splits
<1>6. Untried(t)' = Untried(t) \ {qid[t]}
  BY <1>5 DEF Untried
<1>7. left[t] = 1 => Untried(t)' = {}
  BY <1>1, <1>3, <1>4, SplitAssumption DEF Untried, Splits
<1> QED
  BY <1>3, <1>4, <1>6, <1>7 DEF NextSplit, SplitsTypeOK

(* A walk that ends.                                                        *)
LEMMA WalkEnded ==
  ASSUME SplitsTypeOK, NEW t \in Callers, Return(t)
  PROVE  /\ left' \in [Callers -> 0..NumSplits] /\ qid' \in [Callers -> Splits]
         /\ left'[t] = 0
         /\ \A o \in Callers \ {t} : left'[o] = left[o] /\ qid'[o] = qid[o]
BY SplitAssumption DEF Return, SplitsTypeOK

(* A walk of another thread, as the splits it has yet to try are concerned. *)
LEMMA WalkUntouched ==
  ASSUME NEW t \in Callers, left'[t] = left[t], qid'[t] = qid[t]
  PROVE  Untried(t)' = Untried(t)
BY DEF Untried

-----------------------------------------------------------------------------
(* The queue begins empty, with nobody in a call.                           *)
LEMMA SplitsInitInv == SplitsInit => SplitsInv
<1> SUFFICES ASSUME SplitsInit PROVE SplitsInv
  OBVIOUS
<1>1. 0 \in Splits /\ 0 \in 0..NumSplits /\ 1 \in 1..(MaxItems + 1)
  BY SplitAssumption DEF Splits
<1>2. SplitsTypeOK
  BY <1>1 DEF SplitsInit, SplitsTypeOK
<1>3. Queued = {} /\ \A s \in Splits : Places(s) = {}
  BY DEF SplitsInit, Queued, Elements, Places
<1>4. QueuedOnce /\ CarriedOnce /\ Apart
  BY <1>3 DEF SplitsInit, QueuedOnce, CarriedOnce, Apart
<1>5. Accounted
  BY <1>3 DEF SplitsInit, Accounted
<1>6. InCallCarries /\ OldTyped /\ OldAhead
  BY DEF SplitsInit, InCallCarries, OldTyped, OldAhead, Callers
<1> QED
  BY <1>2, <1>4, <1>5, <1>6 DEF SplitsInv

(* Calls that leave the queue itself alone.                                 *)
LEMMA SameQueue ==
  ASSUME splits' = splits
  PROVE  /\ Queued' = Queued /\ Roomy' = Roomy
         /\ \A s \in Splits : Places(s)' = Places(s)
         /\ QueuedOnce => QueuedOnce'
BY DEF Queued, Roomy, Places, QueuedOnce

(* A producer takes the next ticket and begins to walk.                     *)
LEMMA EmplaceBeginStep ==
  ASSUME SplitsInv, NEW p \in Producers, EmplaceBegin(p)
  PROVE  SplitsInv'
<1>1. SplitsTypeOK /\ p \in Callers /\ p \notin Consumers
  BY SplitAssumption DEF SplitsInv, Callers
<1>2. UNCHANGED <<splits, rr_head_, popped>> /\ left[p] = 0 /\ old' = [old EXCEPT ![p] = Roomy]
  BY DEF EmplaceBegin
<1>3. /\ left' \in [Callers -> 0..NumSplits] /\ qid' \in [Callers -> Splits]
      /\ Untried(p)' = Splits /\ left'[p] = NumSplits
      /\ \A o \in Callers \ {p} : left'[o] = left[o] /\ qid'[o] = qid[o]
  <2>1. BeginWalk(p, rr_tail_) /\ rr_tail_ \in Nat
    BY <1>1 DEF EmplaceBegin, SplitsTypeOK
  <2> QED
    BY <1>1, <2>1, WalkBegun
<1>4. Queued' = Queued /\ Roomy' = Roomy /\ QueuedOnce'
  BY <1>2, SameQueue DEF SplitsInv
<1>5. \/ tkt[p] # 0 /\ UNCHANGED <<tkt, next>>
      \/ /\ tkt[p] = 0 /\ next \in Items
         /\ tkt' = [tkt EXCEPT ![p] = next] /\ next' = next + 1
  BY DEF EmplaceBegin
<1>6. SplitsTypeOK'
  <2>1. rr_tail_' \in 0..(CounterMod - 1)
    BY <1>1, SplitAssumption DEF EmplaceBegin, SplitsTypeOK
  <2>2. tkt' \in [Producers -> Items \cup {0}]
    BY <1>1, <1>5 DEF SplitsTypeOK
  <2>3. next' \in 1..(MaxItems + 1)
    <3>1. next \in 1..(MaxItems + 1)
      BY <1>1 DEF SplitsTypeOK
    <3>2. CASE next \in Items /\ next' = next + 1
      BY <3>2, SplitAssumption DEF Items
    <3> QED
      BY <1>5, <3>1, <3>2
  <2> QED
    BY <1>1, <1>2, <1>3, <2>1, <2>2, <2>3 DEF SplitsTypeOK
<1>7. CarriedOnce' /\ Apart' /\ Accounted'
  <2>1. CASE tkt[p] # 0 /\ UNCHANGED <<tkt, next>>
    BY <1>2, <1>4, <2>1 DEF SplitsInv, CarriedOnce, Apart, Accounted
  <2>2. CASE /\ tkt[p] = 0 /\ next \in Items
             /\ tkt' = [tkt EXCEPT ![p] = next] /\ next' = next + 1
    <3>1. /\ tkt'[p] = next /\ next \in Nat \ {0} /\ next # 0
          /\ \A q \in Producers \ {p} : tkt'[q] = tkt[q]
      BY <1>1, <2>2 DEF SplitsTypeOK, Items
    <3>2. next \notin Queued \cup popped \cup ({tkt[q] : q \in Producers} \ {0})
      BY <3>1 DEF SplitsInv, Accounted
    <3>3. CarriedOnce'
      BY <3>1, <3>2 DEF SplitsInv, CarriedOnce
    <3>4. Apart'
      BY <1>2, <1>4, <3>1, <3>2 DEF SplitsInv, Apart
    <3>5. {tkt'[q] : q \in Producers} \ {0} = ({tkt[q] : q \in Producers} \ {0}) \cup {next}
      BY <2>2, <3>1
    <3>6. 1..(next' - 1) = 1..(next - 1) \cup {next}
      BY <2>2, <3>1
    <3>7. Accounted'
      BY <1>2, <1>4, <3>5, <3>6 DEF SplitsInv, Accounted
    <3> QED
      BY <3>3, <3>4, <3>7
  <2> QED
    BY <1>5, <2>1, <2>2
<1>8. InCallCarries'
  <2>1. tkt'[p] # 0 /\ \A q \in Producers \ {p} : tkt'[q] = tkt[q]
    BY <1>1, <1>5 DEF SplitsTypeOK, Items
  <2>2. Producers \subseteq Callers
    BY DEF Callers
  <2> QED
    BY <1>3, <2>1, <2>2 DEF SplitsInv, InCallCarries
<1>9. OldTyped' /\ old'[p] = Roomy /\ \A o \in Callers \ {p} : old'[o] = old[o]
  BY <1>1, <1>2 DEF SplitsInv, OldTyped, Roomy
<1>10. OldAhead'
  <2>1. \A q \in Producers \ {p} : left'[q] > 0 => old'[q] \subseteq Roomy' \cap Untried(q)'
    BY <1>3, <1>4, <1>9, WalkUntouched DEF SplitsInv, OldAhead, Callers
  <2>2. old'[p] \subseteq Roomy' \cap Untried(p)'
    BY <1>3, <1>4, <1>9 DEF Roomy
  <2>3. \A c \in Consumers : left'[c] > 0 =>
          \A i \in old'[c] : \E s \in Untried(c)' : i \in Elements(splits'[s])
    BY <1>1, <1>2, <1>3, <1>9, WalkUntouched DEF SplitsInv, OldAhead, Callers
  <2> QED
    BY <2>1, <2>2, <2>3 DEF OldAhead
<1> QED
  BY <1>4, <1>6, <1>7, <1>8, <1>9, <1>10 DEF SplitsInv

(* The ticket goes from its producer to the end of the split.               *)
LEMMA EmplaceAcceptedStep ==
  ASSUME SplitsInv, NEW p \in Producers, EmplaceAccepted(p)
  PROVE  SplitsInv'
<1> DEFINE z == qid[p]
           n == Len(splits[z])
<1>1. SplitsTypeOK /\ p \in Callers /\ p \notin Consumers /\ Producers \subseteq Callers
      /\ Consumers \subseteq Callers
  BY SplitAssumption DEF SplitsInv, Callers
<1>2. z \in Splits /\ splits[z] \in Seq(Items) /\ tkt[p] \in Items /\ left[p] > 0
  BY <1>1 DEF SplitsTypeOK, EmplaceAccepted, SplitsInv, InCallCarries
<1>3. /\ splits' = [splits EXCEPT ![z] = Append(splits[z], tkt[p])]
      /\ tkt' = [tkt EXCEPT ![p] = 0]
      /\ UNCHANGED <<rr_tail_, rr_head_, next, popped>>
  BY <1>1 DEF EmplaceAccepted, SplitsTypeOK
<1>4. /\ left' \in [Callers -> 0..NumSplits] /\ qid' \in [Callers -> Splits]
      /\ left'[p] = 0
      /\ \A o \in Callers \ {p} : left'[o] = left[o] /\ qid'[o] = qid[o]
  BY <1>1, WalkEnded DEF EmplaceAccepted
<1>5. /\ Append(splits[z], tkt[p]) \in Seq(Items)
      /\ Len(Append(splits[z], tkt[p])) = n + 1 /\ n \in Nat
      /\ \A k \in 1..n : Append(splits[z], tkt[p])[k] = splits[z][k]
      /\ Append(splits[z], tkt[p])[n + 1] = tkt[p]
      /\ Elements(Append(splits[z], tkt[p])) = Elements(splits[z]) \cup {tkt[p]}
  BY <1>2, AppendElements
<1>6. /\ splits'[z] = Append(splits[z], tkt[p])
      /\ \A s \in Splits \ {z} : splits'[s] = splits[s]
  BY <1>1, <1>2, <1>3 DEF SplitsTypeOK
<1>7. \A s \in Splits : Elements(splits'[s]) =
        IF s = z THEN Elements(splits[s]) \cup {tkt[p]} ELSE Elements(splits[s])
  BY <1>5, <1>6
<1>8. Queued' = Queued \cup {tkt[p]}
  BY <1>2, <1>7 DEF Queued
<1>9. tkt'[p] = 0 /\ \A q \in Producers \ {p} : tkt'[q] = tkt[q]
  BY <1>1, <1>3 DEF SplitsTypeOK
<1>10. tkt[p] # 0 /\ tkt[p] \notin Queued \cup popped
       /\ \A q \in Producers \ {p} : tkt[q] # tkt[p]
  BY <1>2 DEF SplitsInv, Apart, CarriedOnce, Items
<1>11. SplitsTypeOK'
  <2>1. splits' \in [Splits -> Seq(Items)]
    BY <1>1, <1>3, <1>5 DEF SplitsTypeOK
  <2>2. tkt' \in [Producers -> Items \cup {0}]
    BY <1>1, <1>3 DEF SplitsTypeOK
  <2> QED
    BY <1>1, <1>3, <1>4, <2>1, <2>2 DEF SplitsTypeOK
<1>12. QueuedOnce'
  <2>1. \A s \in Splits : \A k \in Places(s)' :
          \/ k \in Places(s) /\ splits'[s][k] = splits[s][k]
          \/ s = z /\ k = n + 1 /\ splits'[s][k] = tkt[p]
    <3> SUFFICES ASSUME NEW s \in Splits, NEW k \in Places(s)'
                 PROVE  \/ k \in Places(s) /\ splits'[s][k] = splits[s][k]
                        \/ s = z /\ k = n + 1 /\ splits'[s][k] = tkt[p]
      OBVIOUS
    <3>1. CASE s = z
      <4>1. Len(splits[z]) = n /\ k \in 1..(n + 1)
        BY <1>5, <1>6, <3>1 DEF Places
      <4>2. CASE k = n + 1
        BY <1>5, <1>6, <3>1, <4>2
      <4>3. CASE k # n + 1
        <5>1. k \in 1..n
          BY <1>5, <4>1, <4>3
        <5> QED
          BY <1>5, <1>6, <3>1, <4>1, <5>1 DEF Places
      <4> QED
        BY <4>2, <4>3
    <3>2. CASE s # z
      BY <1>6, <3>2 DEF Places
    <3> QED
      BY <3>1, <3>2
  <2>2. \A s \in Splits : \A k \in Places(s) : splits[s][k] # tkt[p]
    <3>1. \A s \in Splits : \A k \in Places(s) : splits[s][k] \in Queued
      BY <1>1 DEF SplitsTypeOK, Places, Queued, Elements
    <3> QED
      BY <1>10, <3>1
  <2> QED
    BY <2>1, <2>2 DEF SplitsInv, QueuedOnce
<1>13. CarriedOnce'
  BY <1>9 DEF SplitsInv, CarriedOnce
<1>14. Apart'
  BY <1>3, <1>8, <1>9, <1>10 DEF SplitsInv, Apart
<1>15. Accounted'
  <2>1. {tkt[q] : q \in Producers} \ {0} = ({tkt'[q] : q \in Producers} \ {0}) \cup {tkt[p]}
    BY <1>9, <1>10
  <2> QED
    BY <1>3, <1>8, <2>1 DEF SplitsInv, Accounted
<1>16. InCallCarries'
  BY <1>1, <1>4, <1>9 DEF SplitsInv, InCallCarries
<1>17. /\ \A q \in Producers : old'[q] = old[q] \ ({z} \cap (Splits \ Roomy'))
       /\ \A c \in Consumers : old'[c] = old[c]
  BY <1>1, SplitAssumption DEF EmplaceAccepted
<1>18. OldTyped'
  BY DEF EmplaceAccepted, SplitsInv, OldTyped
<1>19. OldAhead'
  <2>1. ASSUME NEW q \in Producers, left'[q] > 0
        PROVE  old'[q] \subseteq Roomy' \cap Untried(q)'
    <3>1. q # p
      BY <1>4, <2>1
    <3>2. old[q] \subseteq Roomy \cap Untried(q) /\ Untried(q)' = Untried(q)
      BY <1>1, <1>4, <2>1, <3>1, WalkUntouched DEF SplitsInv, OldAhead
    <3>3. Roomy \subseteq Roomy' \cup {z}
      BY <1>6 DEF Roomy
    <3> QED
      BY <1>17, <3>2, <3>3 DEF Roomy
  <2>2. ASSUME NEW c \in Consumers, left'[c] > 0, NEW i \in old'[c]
        PROVE  \E s \in Untried(c)' : i \in Elements(splits'[s])
    <3>1. c # p /\ i \in old[c]
      BY <1>1, <1>17, <2>2
    <3>2. PICK s \in Untried(c) : i \in Elements(splits[s])
      BY <1>1, <1>4, <2>2, <3>1 DEF SplitsInv, OldAhead
    <3>3. s \in Untried(c)' /\ s \in Splits
      BY <1>1, <1>4, <3>1, <3>2, WalkUntouched DEF Untried
    <3> QED
      BY <1>7, <3>2, <3>3
  <2> QED
    BY <2>1, <2>2 DEF OldAhead
<1> QED
  BY <1>11, <1>12, <1>13, <1>14, <1>15, <1>16, <1>18, <1>19 DEF SplitsInv

(* The split is full: the walk goes on, or gives up.                        *)
LEMMA EmplaceRefusedStep ==
  ASSUME SplitsInv, NEW p \in Producers, EmplaceRefused(p)
  PROVE  SplitsInv'
<1>1. SplitsTypeOK /\ p \in Callers /\ p \notin Consumers /\ Producers \subseteq Callers
      /\ Consumers \subseteq Callers
  BY SplitAssumption DEF SplitsInv, Callers
<1>2. left[p] > 0 /\ qid[p] \notin Roomy /\ UNCHANGED <<splits, rr_tail_, rr_head_, tkt, next, popped, old>>
  <2>1. Len(splits[qid[p]]) \in Nat /\ Len(splits[qid[p]]) >= Depth
    BY <1>1 DEF EmplaceRefused, SplitsTypeOK
  <2>2. ~(Len(splits[qid[p]]) < Depth)
    BY <2>1, SplitAssumption
  <2> QED
    BY <2>2 DEF EmplaceRefused, Roomy
<1>3. /\ left' \in [Callers -> 0..NumSplits] /\ qid' \in [Callers -> Splits]
      /\ Untried(p)' = Untried(p) \ {qid[p]} /\ left'[p] = left[p] - 1
      /\ \A o \in Callers \ {p} : left'[o] = left[o] /\ qid'[o] = qid[o]
  BY <1>1, <1>2, WalkContinued DEF EmplaceRefused
<1>4. Queued' = Queued /\ Roomy' = Roomy /\ QueuedOnce'
  BY <1>2, SameQueue DEF SplitsInv
<1>5. SplitsTypeOK' /\ CarriedOnce' /\ Apart' /\ Accounted' /\ OldTyped'
  BY <1>1, <1>2, <1>3, <1>4 DEF SplitsInv, SplitsTypeOK, CarriedOnce, Apart, Accounted, OldTyped
<1>6. InCallCarries'
  BY <1>1, <1>2, <1>3 DEF SplitsInv, InCallCarries
<1>7. OldAhead'
  <2>1. \A q \in Producers \ {p} : left'[q] > 0 => old'[q] \subseteq Roomy' \cap Untried(q)'
    BY <1>1, <1>2, <1>3, <1>4, WalkUntouched DEF SplitsInv, OldAhead
  <2>2. old'[p] \subseteq Roomy' \cap Untried(p)'
    BY <1>2, <1>3, <1>4 DEF SplitsInv, OldAhead
  <2>3. \A c \in Consumers : left'[c] > 0 =>
          \A i \in old'[c] : \E s \in Untried(c)' : i \in Elements(splits'[s])
    BY <1>1, <1>2, <1>3, WalkUntouched DEF SplitsInv, OldAhead
  <2> QED
    BY <2>1, <2>2, <2>3 DEF OldAhead
<1> QED
  BY <1>4, <1>5, <1>6, <1>7 DEF SplitsInv

(* A consumer begins to walk.                                               *)
LEMMA PopBeginStep ==
  ASSUME SplitsInv, NEW c \in Consumers, PopBegin(c)
  PROVE  SplitsInv'
<1>1. SplitsTypeOK /\ c \in Callers /\ c \notin Producers /\ Producers \subseteq Callers
      /\ Consumers \subseteq Callers
  BY SplitAssumption DEF SplitsInv, Callers
<1>2. UNCHANGED <<splits, rr_tail_, tkt, next, popped>> /\ old' = [old EXCEPT ![c] = Queued]
  BY DEF PopBegin
<1>3. /\ left' \in [Callers -> 0..NumSplits] /\ qid' \in [Callers -> Splits]
      /\ Untried(c)' = Splits /\ left'[c] = NumSplits
      /\ \A o \in Callers \ {c} : left'[o] = left[o] /\ qid'[o] = qid[o]
  <2>1. BeginWalk(c, rr_head_) /\ rr_head_ \in Nat
    BY <1>1 DEF PopBegin, SplitsTypeOK
  <2> QED
    BY <1>1, <2>1, WalkBegun
<1>4. Queued' = Queued /\ Roomy' = Roomy /\ QueuedOnce'
  BY <1>2, SameQueue DEF SplitsInv
<1>5. rr_head_' \in 0..(CounterMod - 1)
  BY <1>1, SplitAssumption DEF PopBegin, SplitsTypeOK
<1>6. SplitsTypeOK' /\ CarriedOnce' /\ Apart' /\ Accounted'
  BY <1>1, <1>2, <1>3, <1>4, <1>5 DEF SplitsInv, SplitsTypeOK, CarriedOnce, Apart, Accounted
<1>7. InCallCarries'
  BY <1>1, <1>2, <1>3 DEF SplitsInv, InCallCarries
<1>8. Queued \subseteq Items
  BY <1>1 DEF SplitsTypeOK, Queued, Elements
<1>9. OldTyped' /\ old'[c] = Queued /\ \A o \in Callers \ {c} : old'[o] = old[o]
  BY <1>1, <1>2, <1>8 DEF SplitsInv, OldTyped
<1>10. OldAhead'
  <2>1. \A q \in Producers : left'[q] > 0 => old'[q] \subseteq Roomy' \cap Untried(q)'
    BY <1>1, <1>3, <1>4, <1>9, WalkUntouched DEF SplitsInv, OldAhead
  <2>2. \A i \in old'[c] : \E s \in Untried(c)' : i \in Elements(splits'[s])
    BY <1>2, <1>3, <1>9 DEF Queued
  <2>3. \A d \in Consumers \ {c} : left'[d] > 0 =>
          \A i \in old'[d] : \E s \in Untried(d)' : i \in Elements(splits'[s])
    BY <1>1, <1>2, <1>3, <1>9, WalkUntouched DEF SplitsInv, OldAhead
  <2> QED
    BY <2>1, <2>2, <2>3 DEF OldAhead
<1> QED
  BY <1>4, <1>6, <1>7, <1>9, <1>10 DEF SplitsInv

(* The head of the split goes to the popped tickets.                        *)
LEMMA PopAcceptedStep ==
  ASSUME SplitsInv, NEW c \in Consumers, PopAccepted(c)
  PROVE  SplitsInv'
<1> DEFINE z == qid[c]
           h == Head(splits[z])
           n == Len(splits[z])
<1>1. SplitsTypeOK /\ c \in Callers /\ c \notin Producers /\ Producers \subseteq Callers
      /\ Consumers \subseteq Callers
  BY SplitAssumption DEF SplitsInv, Callers
<1>2. z \in Splits /\ splits[z] \in Seq(Items) /\ splits[z] # <<>>
  BY <1>1 DEF SplitsTypeOK, PopAccepted
<1>3. /\ splits' = [splits EXCEPT ![z] = Tail(splits[z])]
      /\ popped' = popped \cup {h}
      /\ UNCHANGED <<rr_tail_, rr_head_, tkt, next>>
  BY <1>1 DEF PopAccepted, SplitsTypeOK
<1>4. /\ left' \in [Callers -> 0..NumSplits] /\ qid' \in [Callers -> Splits]
      /\ left'[c] = 0
      /\ \A o \in Callers \ {c} : left'[o] = left[o] /\ qid'[o] = qid[o]
  BY <1>1, WalkEnded DEF PopAccepted
<1>5. /\ Tail(splits[z]) \in Seq(Items) /\ h \in Items /\ h = splits[z][1]
      /\ Len(Tail(splits[z])) = n - 1 /\ n > 0 /\ n \in Nat
      /\ \A k \in 1..(n - 1) : Tail(splits[z])[k] = splits[z][k + 1]
      /\ Elements(splits[z]) = Elements(Tail(splits[z])) \cup {h}
  BY <1>2, TailElements
<1>6. /\ splits'[z] = Tail(splits[z])
      /\ \A s \in Splits \ {z} : splits'[s] = splits[s]
  BY <1>1, <1>2, <1>3 DEF SplitsTypeOK
<1>7. \A s \in Splits : \A k \in Places(s)' :
        /\ IF s = z THEN k + 1 \in Places(s) /\ splits'[s][k] = splits[s][k + 1]
                    ELSE k \in Places(s) /\ splits'[s][k] = splits[s][k]
        /\ splits'[s][k] # h
  <2>1. \A s \in Splits : \A k \in Places(s)' :
          IF s = z THEN k + 1 \in Places(s) /\ splits'[s][k] = splits[s][k + 1]
                   ELSE k \in Places(s) /\ splits'[s][k] = splits[s][k]
    <3>1. \A s \in Splits : s = z => Places(s)' = 1..(n - 1) /\ Places(s) = 1..n
      BY <1>5, <1>6 DEF Places
    <3>2. \A k \in 1..(n - 1) : k + 1 \in 1..n /\ splits'[z][k] = splits[z][k + 1]
      BY <1>5, <1>6
    <3>3. \A s \in Splits \ {z} : \A k \in Places(s)' :
            k \in Places(s) /\ splits'[s][k] = splits[s][k]
      BY <1>6 DEF Places
    <3> HIDE DEF z, n
    <3> QED
      BY <3>1, <3>2, <3>3
  <2>2. 1 \in Places(z)
    BY <1>5 DEF Places
  <2>3. \A s \in Splits : \A k \in Places(s) : splits[s][k] = h => s = z /\ k = 1
    BY <1>2, <1>5, <2>2 DEF SplitsInv, QueuedOnce
  <2>4. \A s \in Splits : \A k \in Places(s)' : k \in Nat /\ k >= 1
    BY DEF Places
  <2>5. \A s \in Splits : \A k \in Places(s)' : splits'[s][k] # h
    BY <2>1, <2>3, <2>4
  <2> QED
    BY <2>1, <2>5
<1>8. \A s \in Splits : Elements(splits[s]) \subseteq Elements(splits'[s]) \cup {h}
  BY <1>5, <1>6
<1>9. Queued' = Queued \ {h} /\ h \in Queued
  <2>1. \A s \in Splits : Elements(splits'[s]) \subseteq Elements(splits[s])
    BY <1>5, <1>6
  <2>2. \A s \in Splits : splits'[s] \in Seq(Items)
    BY <1>1, <1>5, <1>6 DEF SplitsTypeOK
  <2>3. \A s \in Splits : h \notin Elements(splits'[s])
    <3>1. \A s \in Splits : DOMAIN splits'[s] = Places(s)'
      BY <2>2 DEF Places
    <3> QED
      BY <1>7, <3>1 DEF Elements
  <2>4. h \in Elements(splits[z])
    BY <1>5
  <2> QED
    BY <1>2, <1>8, <2>1, <2>3, <2>4 DEF Queued
<1>10. SplitsTypeOK'
  <2>1. splits' \in [Splits -> Seq(Items)]
    BY <1>1, <1>3, <1>5 DEF SplitsTypeOK
  <2>2. popped' \subseteq Items
    BY <1>1, <1>3, <1>5 DEF SplitsTypeOK
  <2> QED
    BY <1>1, <1>3, <1>4, <2>1, <2>2 DEF SplitsTypeOK
<1>11. QueuedOnce'
  <2> SUFFICES ASSUME NEW s \in Splits, NEW r \in Splits, NEW k \in Places(s)', NEW l \in Places(r)',
                      splits'[s][k] = splits'[r][l]
               PROVE  s = r /\ k = l
    BY DEF QueuedOnce
  <2>1. k \in Nat /\ l \in Nat
    BY DEF Places
  <2> QED
    BY <1>7, <2>1 DEF SplitsInv, QueuedOnce
<1>12. CarriedOnce' /\ Apart' /\ Accounted'
  BY <1>3, <1>9 DEF SplitsInv, CarriedOnce, Apart, Accounted
<1>13. InCallCarries'
  BY <1>1, <1>3, <1>4 DEF SplitsInv, InCallCarries
<1>14. /\ \A q \in Producers : old'[q] = old[q]
       /\ \A d \in Consumers : old'[d] = old[d] \ {h}
  BY <1>1, SplitAssumption DEF PopAccepted
<1>15. OldTyped'
  BY DEF PopAccepted, SplitsInv, OldTyped
<1>16. OldAhead'
  <2>1. ASSUME NEW q \in Producers, left'[q] > 0
        PROVE  old'[q] \subseteq Roomy' \cap Untried(q)'
    <3>1. q # c
      BY <1>1
    <3>2. old[q] \subseteq Roomy \cap Untried(q) /\ Untried(q)' = Untried(q)
      BY <1>1, <1>4, <2>1, <3>1, WalkUntouched DEF SplitsInv, OldAhead
    <3>3. Roomy \subseteq Roomy'
      <4>1. \A s \in Splits : Len(splits[s]) < Depth => Len(splits'[s]) < Depth
        <5>1. n < Depth => n - 1 < Depth
          BY <1>5, SplitAssumption
        <5>2. Len(splits'[z]) = n - 1
          BY <1>5, <1>6
        <5> QED
          BY <1>6, <5>1, <5>2
      <4> QED
        BY <4>1 DEF Roomy
    <3> QED
      BY <1>14, <3>2, <3>3
  <2>2. ASSUME NEW d \in Consumers, left'[d] > 0, NEW i \in old'[d]
        PROVE  \E s \in Untried(d)' : i \in Elements(splits'[s])
    <3>1. d # c /\ i \in old[d] /\ i # h
      BY <1>4, <1>14, <2>2
    <3>2. PICK s \in Untried(d) : i \in Elements(splits[s])
      BY <1>1, <1>4, <2>2, <3>1 DEF SplitsInv, OldAhead
    <3>3. s \in Untried(d)' /\ s \in Splits
      BY <1>1, <1>4, <3>1, <3>2, WalkUntouched DEF Untried
    <3> QED
      BY <1>8, <3>1, <3>2, <3>3
  <2> QED
    BY <2>1, <2>2 DEF OldAhead
<1> QED
  BY <1>10, <1>11, <1>12, <1>13, <1>15, <1>16 DEF SplitsInv

(* The split is empty: the walk goes on, or gives up.                       *)
LEMMA PopRefusedStep ==
  ASSUME SplitsInv, NEW c \in Consumers, PopRefused(c)
  PROVE  SplitsInv'
<1>1. SplitsTypeOK /\ c \in Callers /\ c \notin Producers /\ Producers \subseteq Callers
      /\ Consumers \subseteq Callers
  BY SplitAssumption DEF SplitsInv, Callers
<1>2. left[c] > 0 /\ Elements(splits[qid[c]]) = {}
      /\ UNCHANGED <<splits, rr_tail_, rr_head_, tkt, next, popped, old>>
  BY DEF PopRefused, Elements
<1>3. /\ left' \in [Callers -> 0..NumSplits] /\ qid' \in [Callers -> Splits]
      /\ Untried(c)' = Untried(c) \ {qid[c]} /\ left'[c] = left[c] - 1
      /\ \A o \in Callers \ {c} : left'[o] = left[o] /\ qid'[o] = qid[o]
  BY <1>1, <1>2, WalkContinued DEF PopRefused
<1>4. Queued' = Queued /\ Roomy' = Roomy /\ QueuedOnce'
  BY <1>2, SameQueue DEF SplitsInv
<1>5. SplitsTypeOK' /\ CarriedOnce' /\ Apart' /\ Accounted' /\ OldTyped'
  BY <1>1, <1>2, <1>3, <1>4 DEF SplitsInv, SplitsTypeOK, CarriedOnce, Apart, Accounted, OldTyped
<1>6. InCallCarries'
  BY <1>1, <1>2, <1>3 DEF SplitsInv, InCallCarries
<1>7. OldAhead'
  <2>1. \A q \in Producers : left'[q] > 0 => old'[q] \subseteq Roomy' \cap Untried(q)'
    BY <1>1, <1>2, <1>3, <1>4, WalkUntouched DEF SplitsInv, OldAhead
  <2>2. \A i \in old'[c] : \E s \in Untried(c)' : i \in Elements(splits'[s])
    BY <1>2, <1>3 DEF SplitsInv, OldAhead
  <2>3. \A d \in Consumers \ {c} : left'[d] > 0 =>
          \A i \in old'[d] : \E s \in Untried(d)' : i \in Elements(splits'[s])
    BY <1>1, <1>2, <1>3, WalkUntouched DEF SplitsInv, OldAhead
  <2> QED
    BY <2>1, <2>2, <2>3 DEF OldAhead
<1> QED
  BY <1>4, <1>5, <1>6, <1>7 DEF SplitsInv

-----------------------------------------------------------------------------
(* Every step keeps the inductive invariant.                                *)
LEMMA SplitsNextInv == SplitsInv /\ [SplitsNext]_splitsVars => SplitsInv'
<1> SUFFICES ASSUME SplitsInv, [SplitsNext]_splitsVars PROVE SplitsInv'
  OBVIOUS
<1>1. ASSUME NEW p \in Producers, InEmplace(p) PROVE SplitsInv'
  BY <1>1, EmplaceBeginStep, EmplaceAcceptedStep, EmplaceRefusedStep DEF InEmplace
<1>2. ASSUME NEW c \in Consumers, InPop(c) PROVE SplitsInv'
  BY <1>2, PopBeginStep, PopAcceptedStep, PopRefusedStep DEF InPop
<1>3. CASE UNCHANGED splitsVars
  <2>1. UNCHANGED <<splits, rr_tail_, rr_head_, left, qid, tkt, next, popped, old>>
    BY <1>3 DEF splitsVars
  <2>2. Queued' = Queued /\ Roomy' = Roomy /\ QueuedOnce'
    BY <2>1, SameQueue DEF SplitsInv
  <2>3. \A t \in Callers : Untried(t)' = Untried(t)
    BY <2>1 DEF Untried
  <2> QED
    BY <2>1, <2>2, <2>3 DEF SplitsInv, SplitsTypeOK, CarriedOnce, Apart, Accounted, InCallCarries,
                            OldTyped, OldAhead, Callers
<1> QED
  BY <1>1, <1>2, <1>3 DEF SplitsNext

(* The inductive invariant of the walks.                                    *)
THEOREM SplitInvariant == SplitsSpec => []SplitsInv
BY SplitsInitInv, SplitsNextInv, PTL DEF SplitsSpec

(* Counting instead of comparing: what EveryTicketOnce says of the places.  *)
LEMMA CountOnce ==
  ASSUME NEW S, \A x, y \in S : x = y
  PROVE  /\ Cardinality(S) = (IF S = {} THEN 0 ELSE 1)
         /\ Cardinality(S) <= 1
<1>1. CASE S = {}
  BY <1>1, FS_EmptySet
<1>2. CASE S # {}
  <2>1. PICK x \in S : S = {x}
    BY <1>2
  <2>2. Cardinality({x}) = 1
    BY FS_Singleton
  <2> QED
    BY <1>2, <2>1, <2>2
<1> QED
  BY <1>1, <1>2

(* No ticket is lost between the producers, the splits and the consumers,   *)
(* and none is in two places.                                              *)
THEOREM SplitTicketsOnce == SplitsSpec => []EveryTicketOnce
<1>1. ASSUME SplitsInv PROVE EveryTicketOnce
  <2>1. SplitsTypeOK /\ QueuedOnce /\ CarriedOnce /\ Apart /\ Accounted
    BY <1>1 DEF SplitsInv
  <2>2. \A s \in Splits : DOMAIN splits[s] = Places(s)
    BY <2>1 DEF SplitsTypeOK, Places
  <2>3. ASSUME NEW s \in Splits, NEW i \in Items
        PROVE  Cardinality({k \in DOMAIN splits[s] : splits[s][k] = i}) <= 1
    <3> DEFINE S == {k \in DOMAIN splits[s] : splits[s][k] = i}
    <3>1. \A k, l \in S : k = l
      BY <2>1, <2>2 DEF QueuedOnce
    <3> HIDE DEF S
    <3>2. Cardinality(S) <= 1
      BY <3>1, CountOnce
    <3> QED
      BY <3>2 DEF S
  <2>4. ASSUME NEW i \in 1..(next - 1)
        PROVE  Cardinality({s \in Splits : i \in Elements(splits[s])})
               + Cardinality({p \in Producers : tkt[p] = i})
               + (IF i \in popped THEN 1 ELSE 0) = 1
    <3> DEFINE A == {s \in Splits : i \in Elements(splits[s])}
               B == {p \in Producers : tkt[p] = i}
    <3>1. i # 0
      BY <2>1 DEF SplitsTypeOK
    <3>2. \A s, r \in A : s = r
      BY <2>1, <2>2 DEF Elements, QueuedOnce
    <3>3. \A p, q \in B : p = q
      BY <2>1, <3>1 DEF CarriedOnce
    <3>4. (A # {}) <=> i \in Queued
      BY DEF Queued
    <3>5. (B # {}) <=> i \in {tkt[p] : p \in Producers} \ {0}
      BY <3>1
    <3>6. i \in Queued \cup popped \cup ({tkt[p] : p \in Producers} \ {0})
      BY <2>1 DEF Accounted
    <3>7. B # {} => i \notin Queued \cup popped
      BY <2>1, <3>1 DEF Apart
    <3>8. i \in Queued => i \notin popped
      BY <2>1 DEF Apart
    <3> HIDE DEF A, B
    <3>9. Cardinality(A) = IF A = {} THEN 0 ELSE 1
      BY <3>2, CountOnce
    <3>10. Cardinality(B) = IF B = {} THEN 0 ELSE 1
      BY <3>3, CountOnce
    <3>11. Cardinality(A) + Cardinality(B) + (IF i \in popped THEN 1 ELSE 0) = 1
      BY <3>4, <3>5, <3>6, <3>7, <3>8, <3>9, <3>10
    <3> QED
      BY <3>11 DEF A, B
  <2> QED
    BY <2>3, <2>4 DEF EveryTicketOnce
<1> QED
  BY <1>1, SplitInvariant, PTL

(* A call that gives up is right: nothing it could have had was there all   *)
(* the time it walked over the splits.                                     *)
THEOREM SplitRefusalJustified == SplitsSpec => RefusalIsJustified
<1> DEFINE Justified == \A t \in Callers :
             left[t] > 0 /\ left'[t] = 0 /\ splits' = splits => old[t] = {}
<1>1. ASSUME SplitsInv, [SplitsNext]_splitsVars PROVE Justified
  <2> SUFFICES ASSUME NEW t \in Callers, left[t] > 0, left'[t] = 0, splits' = splits
               PROVE  old[t] = {}
    OBVIOUS
  <2>1. SplitsTypeOK /\ Producers \subseteq Callers /\ Consumers \subseteq Callers
    BY <1>1 DEF SplitsInv, Callers
  <2>2. ASSUME NEW o \in Callers, BeginWalk(o, rr_tail_) \/ BeginWalk(o, rr_head_)
        PROVE  FALSE
    <3>1. rr_tail_ \in Nat /\ rr_head_ \in Nat
      BY <2>1 DEF SplitsTypeOK
    <3>2. left'[o] = NumSplits /\ \A x \in Callers \ {o} : left'[x] = left[x]
      BY <2>1, <2>2, <3>1, WalkBegun
    <3> QED
      BY <3>2, SplitAssumption
  <2>3. ASSUME NEW p \in Producers, EmplaceAccepted(p)
        PROVE  FALSE
    <3>1. splits[qid[p]] \in Seq(Items) /\ tkt[p] \in Items /\ qid[p] \in Splits
      BY <1>1, <2>1, <2>3 DEF SplitsTypeOK, EmplaceAccepted, SplitsInv, InCallCarries
    <3>2. splits'[qid[p]] = Append(splits[qid[p]], tkt[p])
      BY <2>1, <2>3, <3>1 DEF EmplaceAccepted, SplitsTypeOK
    <3>3. Len(splits'[qid[p]]) = Len(splits[qid[p]]) + 1 /\ Len(splits[qid[p]]) \in Nat
      BY <3>1, <3>2, AppendElements
    <3> QED
      BY <3>3
  <2>4. ASSUME NEW c \in Consumers, PopAccepted(c)
        PROVE  FALSE
    <3>1. splits[qid[c]] \in Seq(Items) /\ splits[qid[c]] # <<>> /\ qid[c] \in Splits
      BY <2>1, <2>4 DEF SplitsTypeOK, PopAccepted
    <3>2. splits'[qid[c]] = Tail(splits[qid[c]])
      BY <2>1, <2>4, <3>1 DEF PopAccepted, SplitsTypeOK
    <3>3. Len(Tail(splits[qid[c]])) # Len(splits[qid[c]])
      BY <3>1
    <3> QED
      BY <3>2, <3>3
  <2>5. ASSUME NEW p \in Producers, EmplaceRefused(p)
        PROVE  old[t] = {}
    <3>1. /\ Untried(p)' = Untried(p) \ {qid[p]} /\ left'[p] = left[p] - 1
          /\ left[p] = 1 => Untried(p)' = {}
          /\ \A o \in Callers \ {p} : left'[o] = left[o]
      BY <2>1, <2>5, WalkContinued DEF EmplaceRefused
    <3>2. t = p /\ left[p] = 1
      BY <2>1, <3>1 DEF SplitsTypeOK
    <3>3. Untried(p) \subseteq {qid[p]} /\ old[p] \subseteq Roomy \cap Untried(p)
      BY <1>1, <3>1, <3>2 DEF SplitsInv, OldAhead
    <3>4. qid[p] \notin Roomy
      <4>1. Len(splits[qid[p]]) \in Nat /\ Len(splits[qid[p]]) >= Depth
        BY <2>1, <2>5 DEF EmplaceRefused, SplitsTypeOK
      <4> QED
        BY <4>1, SplitAssumption DEF Roomy
    <3> QED
      BY <3>2, <3>3, <3>4
  <2>6. ASSUME NEW c \in Consumers, PopRefused(c)
        PROVE  old[t] = {}
    <3>1. /\ Untried(c)' = Untried(c) \ {qid[c]} /\ left'[c] = left[c] - 1
          /\ left[c] = 1 => Untried(c)' = {}
          /\ \A o \in Callers \ {c} : left'[o] = left[o]
      BY <2>1, <2>6, WalkContinued DEF PopRefused
    <3>2. t = c /\ left[c] = 1
      BY <2>1, <3>1 DEF SplitsTypeOK
    <3>3. Untried(c) \subseteq {qid[c]}
      BY <3>1, <3>2
    <3>4. Elements(splits[qid[c]]) = {}
      BY <2>6 DEF PopRefused, Elements
    <3> QED
      BY <1>1, <3>2, <3>3, <3>4 DEF SplitsInv, OldAhead
  <2>7. ~UNCHANGED splitsVars
    BY DEF splitsVars
  <2> QED
    BY <1>1, <2>1, <2>2, <2>3, <2>4, <2>5, <2>6, <2>7
       DEF SplitsNext, InEmplace, InPop, EmplaceBegin, PopBegin
<1>2. ASSUME UNCHANGED splitsVars PROVE Justified
  BY <1>2 DEF splitsVars
<1>3. SplitsInv /\ [SplitsNext]_splitsVars => [Justified]_splitsVars
  BY <1>1
<1> QED
  BY <1>3, SplitInvariant, PTL DEF SplitsSpec, RefusalIsJustified

-----------------------------------------------------------------------------
(***************************************************************************)
(* The registries of any number of processes, with any number of names and  *)
(* of segments, crashes included.  DistinctIndices is what the code leaves  *)
(* to its callers: the ids they use, and those that their page allocators   *)
(* give to the allocators inside of them, differ in the index in the table. *)
(***************************************************************************)

DistinctIndices ==
  /\ \A i, j \in AllIds : ToIndex(i) = ToIndex(j) => i = j
  /\ \A id \in PageIds : NextId(id) \notin Ids \cup {RootId}

(* Allocators that calls make, and those inside of page allocators.         *)
MadeObjects ==
  [id : Ids \cup {RootId}, seg : Segments \cup {None}, embedded : {FALSE}]

EmbeddedObjects ==
  [id : {NextId(id) : id \in PageIds}, seg : Segments \cup {None}, embedded : {TRUE}]

AllocatorObjects == MadeObjects \cup EmbeddedObjects

BackendObjects == [seg : Segments, owned : BOOLEAN]

ManagerTypeOK ==
  /\ names \in [Shared -> Segments \cup {None}]
  /\ inside \in [Segments -> Ids \cup {None}]
  /\ backends \in [Processes -> [Urls -> BackendObjects \cup {None}]]
  /\ table \in [Processes -> [Indices -> AllocatorObjects \cup {None}]]
  /\ default \in [Processes -> MadeObjects]
  /\ sent \in [id : Ids, seg : Segments] \cup {None}
  /\ orphans \subseteq Segments

(* A table T and a default D that fit the memory M a process has mapped and *)
(* the ids ins inside of the segments.                                     *)
Consistent(T, D, M, ins) ==
  /\ T \in [Indices -> AllocatorObjects \cup {None}]
  /\ D \in MadeObjects
  /\ \A i \in Indices : T[i] # None => ToIndex(T[i].id) = i
  /\ \A i \in Indices : T[i] \in MadeObjects /\ T[i] # Root =>
       /\ T[i].seg \in M /\ ins[T[i].seg] = T[i].id
       /\ T[i].id \in PageIds => T[ToIndex(NextId(T[i].id))] = Embedded(T[i])
  /\ D = Root \/ \E i \in Indices : T[i] = D

Registries ==
  \A p \in Processes : Consistent(table[p], default[p], Mapped(p), inside)

(* The ids of segments in use differ.                                      *)
UsedDistinct == \A g, h \in Segments \ Unused :
  inside[g] = inside[h] /\ inside[g] # None => g = h

(* A segment is mapped under the url whose name leads to it, if any does.   *)
NamesByUrl == \A u \in Shared : names[u] # None =>
  /\ \A w \in Shared : names[w] = names[u] => w = u
  /\ \A p \in Processes, w \in Urls :
       backends[p][w] # None /\ backends[p][w].seg = names[u] => w = u

(* NamesOwned, without a word of which urls are open.                       *)
NamesOwnedByUrl == \A u \in Shared : names[u] # None =>
  \/ names[u] \in orphans
  \/ \E p \in Processes, w \in Urls :
       backends[p][w] = [seg |-> names[u], owned |-> TRUE]

SentAlive == sent # None => inside[sent.seg] = sent.id

ManagerInv ==
  ManagerTypeOK /\ Registries /\ UsedDistinct /\ NamesByUrl /\ NamesOwnedByUrl /\ SentAlive

-----------------------------------------------------------------------------
(* NoObject is none of the objects, and the root allocator is one.          *)
LEMMA NoneFacts ==
  /\ None \notin BackendObjects
  /\ None \notin AllocatorObjects
  /\ None \notin Segments /\ None \notin Ids \cup {RootId}
  /\ RootId \notin Ids
  /\ Root \in MadeObjects
<1>1. Ids \cup {RootId} \subseteq AllIds /\ {NextId(id) : id \in PageIds} \subseteq AllIds
  BY DEF AllIds
<1>2. AllocatorObjects \subseteq [id : AllIds, seg : Segments \cup {None}, embedded : BOOLEAN]
  BY <1>1 DEF AllocatorObjects, MadeObjects, EmbeddedObjects
<1>3. None \notin AllocatorObjects
  BY <1>2, MemoryAssumption
<1>4. Root \in MadeObjects
  BY DEF MadeObjects, Root, Allocator
<1> QED
  BY <1>1, <1>3, <1>4, MemoryAssumption DEF BackendObjects

(* Every id has a place in the tables.                                      *)
LEMMA IndexType == \A id \in AllIds : ToIndex(id) \in Indices
BY DEF Indices

(* The ids of allocators, and of those inside of page allocators, differ.   *)
LEMMA IdFacts ==
  /\ Ids \cup {RootId} \subseteq AllIds
  /\ \A id \in PageIds : id \in Ids /\ NextId(id) \in AllIds
  /\ \A x, y \in PageIds : NextId(x) = NextId(y) => x = y
<1>1. \A x \in PageIds : /\ x \in Ids /\ NextId(x) \in AllIds
                          /\ x[1] \in Nat /\ x[2] \in Nat /\ x = <<x[1], x[2]>>
  BY MemoryAssumption DEF AllIds
<1>2. ASSUME NEW x \in PageIds, NEW y \in PageIds, NextId(x) = NextId(y)
      PROVE  x = y
  <2>1. <<x[1], x[2] + 1>> = <<y[1], y[2] + 1>>
    BY <1>2 DEF NextId
  <2>2. x[1] = y[1] /\ x[2] + 1 = y[2] + 1
    BY <2>1
  <2>3. x[2] = y[2]
    BY <1>1, <2>2
  <2> QED
    BY <1>1, <2>2, <2>3
<1> QED
  BY <1>1, <1>2 DEF AllIds

(* Which allocators a call has made, and which are inside of another.       *)
LEMMA KindFacts ==
  /\ \A a \in AllocatorObjects : a.embedded = (a \notin MadeObjects) /\ a.id \in AllIds
  /\ MadeObjects \subseteq AllocatorObjects /\ EmbeddedObjects \subseteq AllocatorObjects
  /\ \A a \in EmbeddedObjects : a \notin MadeObjects /\ \E x \in PageIds : a.id = NextId(x)
<1>1. \A a \in MadeObjects : a.embedded = FALSE /\ a.id \in AllIds
  BY IdFacts DEF MadeObjects
<1>2. \A a \in EmbeddedObjects :
        a.embedded = TRUE /\ a.id \in AllIds /\ \E x \in PageIds : a.id = NextId(x)
  BY IdFacts DEF EmbeddedObjects
<1>3. \A a \in EmbeddedObjects : a \notin MadeObjects
  BY <1>1, <1>2
<1> QED
  BY <1>1, <1>2, <1>3 DEF AllocatorObjects

(* What an allocator that a call has made knows.                            *)
LEMMA MadeFacts ==
  ASSUME NEW a \in MadeObjects
  PROVE  /\ a.id \in Ids \cup {RootId}
         /\ a.seg \in Segments \cup {None}
         /\ a = Allocator(a.id, a.seg)
         /\ a.id \in PageIds => Embedded(a) \in EmbeddedObjects
<1>1. a.id \in Ids \cup {RootId} /\ a.seg \in Segments \cup {None} /\ a = Allocator(a.id, a.seg)
  BY DEF MadeObjects, Allocator
<1> QED
  BY <1>1 DEF Embedded, EmbeddedObjects

(* What a process has mapped is memory in use.                             *)
LEMMA MappedUsed ==
  ASSUME ManagerTypeOK, NEW p \in Processes
  PROVE  Mapped(p) \subseteq Segments \ Unused
<1>1. \A u \in Opened(p) : backends[p][u] \in BackendObjects
  BY NoneFacts DEF ManagerTypeOK, Opened
<1>2. Mapped(p) \subseteq Segments
  BY <1>1 DEF Mapped, BackendObjects
<1> QED
  BY <1>2 DEF Unused

(* A segment nobody uses: there is one, no name leads to it and no process  *)
(* has mapped it.                                                          *)
LEMMA FreshFacts ==
  ASSUME Unused # {}
  PROVE  FreshSegment \in Unused
BY DEF FreshSegment

(* Mapping a segment adds it to what the process has mapped.                *)
LEMMA OpenMapped ==
  ASSUME ManagerTypeOK, NEW p \in Processes, NEW u \in Urls, NEW b \in BackendObjects,
         backends[p][u] = None, Open(p, u, b)
  PROVE  /\ backends' \in [Processes -> [Urls -> BackendObjects \cup {None}]]
         /\ Mapped(p)' = Mapped(p) \cup {b.seg}
         /\ \A q \in Processes \ {p} : Mapped(q)' = Mapped(q)
<1>1. backends' = [backends EXCEPT ![p] = [backends[p] EXCEPT ![u] = b]]
  BY DEF Open, ManagerTypeOK
<1>2. backends' \in [Processes -> [Urls -> BackendObjects \cup {None}]]
  BY <1>1 DEF ManagerTypeOK
<1>3. backends'[p] = [backends[p] EXCEPT ![u] = b]
  BY <1>1 DEF ManagerTypeOK
<1>4. \A w \in Urls : backends'[p][w] = IF w = u THEN b ELSE backends[p][w]
  BY <1>3 DEF ManagerTypeOK
<1>5. b # None
  BY NoneFacts
<1>6. Opened(p)' = Opened(p) \cup {u}
  BY <1>4, <1>5 DEF Opened
<1>7. u \notin Opened(p)
  BY DEF Opened
<1>8. Mapped(p)' = Mapped(p) \cup {b.seg}
  <2>1. \A w \in Opened(p) : w \in Urls /\ w # u
    BY <1>7 DEF Opened
  <2> QED
    BY <1>4, <1>6, <2>1 DEF Mapped
<1>9. \A q \in Processes \ {p} : backends'[q] = backends[q]
  BY <1>1 DEF ManagerTypeOK
<1>10. \A q \in Processes \ {p} : Mapped(q)' = Mapped(q)
  BY <1>9 DEF Mapped, Opened
<1> QED
  BY <1>2, <1>8, <1>10

(* Closing a backend leaves the other segments of the process mapped.       *)
LEMMA CloseMapped ==
  ASSUME ManagerTypeOK, NEW p \in Processes, NEW u \in Opened(p), Open(p, u, None)
  PROVE  /\ backends' \in [Processes -> [Urls -> BackendObjects \cup {None}]]
         /\ Mapped(p)' \subseteq Mapped(p)
         /\ Mapped(p) \subseteq Mapped(p)' \cup {backends[p][u].seg}
         /\ \A q \in Processes \ {p} : Mapped(q)' = Mapped(q)
<1>1. backends' = [backends EXCEPT ![p] = [backends[p] EXCEPT ![u] = None]]
  BY DEF Open, ManagerTypeOK
<1>2. backends' \in [Processes -> [Urls -> BackendObjects \cup {None}]]
  BY <1>1 DEF ManagerTypeOK
<1>3. backends'[p] = [backends[p] EXCEPT ![u] = None]
  BY <1>1 DEF ManagerTypeOK
<1>4. \A w \in Urls : backends'[p][w] = IF w = u THEN None ELSE backends[p][w]
  BY <1>3 DEF ManagerTypeOK
<1>5. Opened(p)' = Opened(p) \ {u}
  BY <1>4 DEF Opened
<1>6. \A w \in Opened(p) \ {u} : backends'[p][w] = backends[p][w]
  BY <1>4 DEF Opened
<1>7. Mapped(p)' = {backends[p][w].seg : w \in Opened(p) \ {u}}
  BY <1>5, <1>6 DEF Mapped
<1>9. \A q \in Processes \ {p} : backends'[q] = backends[q]
  BY <1>1 DEF ManagerTypeOK
<1>10. \A q \in Processes \ {p} : Mapped(q)' = Mapped(q)
  BY <1>9 DEF Mapped, Opened
<1> QED
  BY <1>2, <1>7, <1>10 DEF Mapped

(* At the index of a caller's id is the allocator a call has made with it.   *)
LEMMA IndexedObject ==
  ASSUME DistinctIndices, NEW id \in Ids, NEW a \in AllocatorObjects,
         ToIndex(a.id) = ToIndex(id)
  PROVE  a \in MadeObjects /\ a.id = id
<1>1. a.id \in AllIds /\ id \in AllIds
  BY KindFacts, IdFacts
<1>2. a.id = id
  BY <1>1 DEF DistinctIndices
<1>3. a \notin EmbeddedObjects
  BY <1>2, KindFacts DEF DistinctIndices
<1> QED
  BY <1>2, <1>3 DEF AllocatorObjects

-----------------------------------------------------------------------------
(* What keeps a table consistent: more memory, as long as the segments in   *)
(* use keep their ids.                                                     *)
LEMMA MoreMemory ==
  ASSUME NEW T, NEW D, NEW M, NEW ins, NEW M2, NEW ins2,
         Consistent(T, D, M, ins), M \subseteq Segments,
         \A i \in Indices : T[i] \in MadeObjects /\ T[i] # Root => T[i].seg \in M2,
         \A g \in M : ins[g] \in Ids \cup {RootId} => ins2[g] = ins[g]
  PROVE  Consistent(T, D, M2, ins2)
<1> SUFFICES ASSUME NEW i \in Indices, T[i] \in MadeObjects, T[i] # Root
             PROVE  ins2[T[i].seg] = T[i].id
  BY DEF Consistent
<1>1. T[i].seg \in M /\ ins[T[i].seg] = T[i].id
  BY DEF Consistent
<1>2. T[i].id \in Ids \cup {RootId}
  BY MadeFacts
<1> QED
  BY <1>1, <1>2

(* RegisterAll, as a function of a table and a default.                     *)
AllocatorsOf(segs, ins) == {Allocator(ins[g], g) : g \in segs}

SlotsOf(all) == UNION {Registers(a) : a \in all}

RegisteredTable(T, all) ==
  [i \in Indices |-> IF \E a \in SlotsOf(all) : ToIndex(a.id) = i
                    THEN CHOOSE a \in SlotsOf(all) : ToIndex(a.id) = i ELSE T[i]]

RegisteredDefault(D, first, all) ==
  IF D = Root THEN first
  ELSE IF \E a \in all : a.id = D.id THEN CHOOSE a \in all : a.id = D.id ELSE D

(* Mapped segments that hold allocators of different ids.                   *)
Registrable(segs, M, ins) ==
  /\ segs \subseteq M /\ M \subseteq Segments
  /\ \A g \in segs : ins[g] \in Ids
  /\ \A g, h \in segs : ins[g] = ins[h] => g = h

(* What a set of made allocators registers: they themselves, and those      *)
(* inside of the page allocators, each at an index of its own.              *)
LEMMA SlotFacts ==
  ASSUME DistinctIndices, NEW all \in SUBSET MadeObjects, \A a \in all : a.id \in Ids,
         \A a, b \in all : a.id = b.id => a = b
  PROVE  /\ all \subseteq SlotsOf(all)
         /\ \A a \in SlotsOf(all) : \/ a \in all
                                    \/ a \in EmbeddedObjects /\ \E b \in all :
                                         b.id \in PageIds /\ a = Embedded(b)
         /\ \A a \in all : a.id \in PageIds => Embedded(a) \in SlotsOf(all)
         /\ \A a, b \in SlotsOf(all) : ToIndex(a.id) = ToIndex(b.id) => a = b
         /\ \A a \in SlotsOf(all), c \in MadeObjects :
              ToIndex(a.id) = ToIndex(c.id) => a \in all /\ a.id = c.id
<1> DEFINE slots == SlotsOf(all)
<1>1. \A a \in all : /\ a \in Registers(a) /\ Registers(a) \subseteq {a, Embedded(a)}
                     /\ a.id \in PageIds => Embedded(a) \in Registers(a)
                     /\ a.id \notin PageIds => Registers(a) = {a}
  <2> SUFFICES ASSUME NEW a \in all
               PROVE  /\ a \in Registers(a) /\ Registers(a) \subseteq {a, Embedded(a)}
                      /\ a.id \in PageIds => Embedded(a) \in Registers(a)
                      /\ a.id \notin PageIds => Registers(a) = {a}
    OBVIOUS
  <2>1. a \in MadeObjects /\ a \in AllocatorObjects
    BY KindFacts
  <2>2. a.embedded = FALSE
    BY <2>1, KindFacts
  <2> QED
    BY <2>2 DEF Registers
<1>2. \A a \in slots : \E b \in all : a = b \/ (b.id \in PageIds /\ a = Embedded(b))
  <2> SUFFICES ASSUME NEW a \in slots
               PROVE  \E b \in all : a = b \/ (b.id \in PageIds /\ a = Embedded(b))
    OBVIOUS
  <2>1. PICK b \in all : a \in Registers(b)
    BY DEF SlotsOf
  <2> QED
    BY <1>1, <2>1
<1>3. all \subseteq slots /\ \A a \in all : a.id \in PageIds => Embedded(a) \in slots
  BY <1>1 DEF SlotsOf
<1> HIDE DEF slots
<1>4. \A a \in slots : \/ a \in all
                       \/ a \in EmbeddedObjects /\ \E b \in all : b.id \in PageIds /\ a = Embedded(b)
  <2>1. \A b \in all : b.id \in PageIds => Embedded(b) \in EmbeddedObjects
    BY MadeFacts
  <2> QED
    BY <1>2, <2>1
<1>5. \A a \in slots : a.id \in AllIds
  BY <1>4, KindFacts DEF AllocatorObjects
<1>6. ASSUME NEW a \in slots, NEW c \in MadeObjects, ToIndex(a.id) = ToIndex(c.id)
      PROVE  a \in all /\ a.id = c.id
  <2>1. c.id \in Ids \cup {RootId} /\ c.id \in AllIds
    BY MadeFacts, IdFacts
  <2>2. a.id = c.id
    BY <1>5, <1>6, <2>1 DEF DistinctIndices
  <2>3. a \notin EmbeddedObjects
    BY <2>1, <2>2, KindFacts DEF DistinctIndices
  <2> QED
    BY <1>4, <2>2, <2>3
<1>7. ASSUME NEW a \in slots, NEW b \in slots, ToIndex(a.id) = ToIndex(b.id)
      PROVE  a = b
  <2>1. CASE a \in all
    BY <1>6, <1>7, <2>1
  <2>2. CASE b \in all
    BY <1>6, <1>7, <2>2
  <2>3. CASE a \notin all /\ b \notin all
    <3>1. PICK x \in all : x.id \in PageIds /\ a = Embedded(x)
      BY <1>4, <2>3
    <3>2. PICK y \in all : y.id \in PageIds /\ b = Embedded(y)
      BY <1>4, <2>3
    <3>3. a.id = b.id
      BY <1>5, <1>7 DEF DistinctIndices
    <3>4. NextId(x.id) = NextId(y.id)
      BY <3>1, <3>2, <3>3 DEF Embedded
    <3>5. x.id = y.id
      BY <3>1, <3>2, <3>4, IdFacts
    <3> QED
      BY <3>1, <3>2, <3>5
  <2> QED
    BY <2>1, <2>2, <2>3
<1> QED
  BY <1>3, <1>4, <1>6, <1>7 DEF slots

(* RegisterAllocator keeps a table consistent: no two of the allocators are *)
(* for the same index, one that embeds another comes with it, and the       *)
(* default is replaced with its allocator.                                 *)
LEMMA Registering ==
  ASSUME DistinctIndices, NEW T, NEW D, NEW M, NEW ins, Consistent(T, D, M, ins),
         NEW segs, Registrable(segs, M, ins), NEW first \in AllocatorsOf(segs, ins)
  PROVE  Consistent(RegisteredTable(T, AllocatorsOf(segs, ins)),
                    RegisteredDefault(D, first, AllocatorsOf(segs, ins)), M, ins)
<1> DEFINE all == AllocatorsOf(segs, ins)
           slots == SlotsOf(all)
           T2 == RegisteredTable(T, all)
           D2 == RegisteredDefault(D, first, all)
<1>1. \A a \in all : /\ a \in MadeObjects
                     /\ a.id \in Ids
                     /\ a.seg \in segs /\ ins[a.seg] = a.id
  <2> SUFFICES ASSUME NEW g \in segs
               PROVE  LET a == Allocator(ins[g], g)
                      IN  /\ a \in MadeObjects /\ a.id \in Ids
                          /\ a.seg \in segs /\ ins[a.seg] = a.id
    BY DEF AllocatorsOf
  <2>1. ins[g] \in Ids /\ g \in Segments
    BY DEF Registrable
  <2> QED
    BY <2>1 DEF Allocator, MadeObjects
<1>first. first \in all
  OBVIOUS
<1> HIDE DEF all
<1>2. \A a, b \in all : a.id = b.id => a = b
  <2> SUFFICES ASSUME NEW a \in all, NEW b \in all, a.id = b.id
               PROVE  a = b
    OBVIOUS
  <2>1. a.seg = b.seg
    BY <1>1 DEF Registrable
  <2> QED
    BY <1>1, <2>1, MadeFacts
<1>3. /\ all \subseteq slots
      /\ \A a \in slots : \/ a \in all
                          \/ a \in EmbeddedObjects /\ \E b \in all :
                               b.id \in PageIds /\ a = Embedded(b)
      /\ \A a \in all : a.id \in PageIds => Embedded(a) \in slots
      /\ \A a, b \in slots : ToIndex(a.id) = ToIndex(b.id) => a = b
      /\ \A a \in slots, c \in MadeObjects :
           ToIndex(a.id) = ToIndex(c.id) => a \in all /\ a.id = c.id
  BY <1>1, <1>2, SlotFacts
<1>4. \A a \in slots : a \in AllocatorObjects /\ ToIndex(a.id) \in Indices
  BY <1>1, <1>3, KindFacts, IndexType DEF AllocatorObjects
<1>5. T2 = [i \in Indices |-> IF \E a \in slots : ToIndex(a.id) = i
                              THEN CHOOSE a \in slots : ToIndex(a.id) = i ELSE T[i]]
  BY DEF RegisteredTable
<1> HIDE DEF slots, T2
<1>6. \A a \in slots : T2[ToIndex(a.id)] = a
  <2> SUFFICES ASSUME NEW a \in slots
               PROVE  T2[ToIndex(a.id)] = a
    OBVIOUS
  <2>1. T2[ToIndex(a.id)] = CHOOSE b \in slots : ToIndex(b.id) = ToIndex(a.id)
    BY <1>4, <1>5
  <2>2. (CHOOSE b \in slots : ToIndex(b.id) = ToIndex(a.id))
          \in {b \in slots : ToIndex(b.id) = ToIndex(a.id)}
    BY Zenon
  <2> QED
    BY <1>3, <2>1, <2>2
<1>7. \A i \in Indices : \/ T2[i] = T[i] /\ \A a \in slots : ToIndex(a.id) # i
                         \/ T2[i] \in slots /\ ToIndex(T2[i].id) = i
  BY <1>5, <1>6
<1>8. T2 \in [Indices -> AllocatorObjects \cup {None}]
  BY <1>4, <1>5, <1>7 DEF Consistent
<1>9. \A i \in Indices : T2[i] # None => ToIndex(T2[i].id) = i
  BY <1>7 DEF Consistent
<1>10. ASSUME NEW i \in Indices, T2[i] \in MadeObjects, T2[i] # Root
       PROVE  /\ T2[i].seg \in M /\ ins[T2[i].seg] = T2[i].id
              /\ T2[i].id \in PageIds => T2[ToIndex(NextId(T2[i].id))] = Embedded(T2[i])
  <2>1. CASE T2[i] \in slots
    <3>1. T2[i] \in all
      BY <1>3, <1>10, <2>1
    <3>2. T2[i].seg \in M /\ ins[T2[i].seg] = T2[i].id
      BY <1>1, <3>1 DEF Registrable
    <3>3. ASSUME T2[i].id \in PageIds
          PROVE  T2[ToIndex(NextId(T2[i].id))] = Embedded(T2[i])
      <4>1. Embedded(T2[i]) \in slots /\ Embedded(T2[i]).id = NextId(T2[i].id)
        BY <1>3, <3>1, <3>3 DEF Embedded
      <4> QED
        BY <1>6, <4>1
    <3> QED
      BY <3>2, <3>3
  <2>2. CASE T2[i] = T[i] /\ \A a \in slots : ToIndex(a.id) # i
    <3> DEFINE c == T[i]
    <3>1. /\ c \in MadeObjects /\ c # None /\ ToIndex(c.id) = i
          /\ c.seg \in M /\ ins[c.seg] = c.id
          /\ c.id \in PageIds => T[ToIndex(NextId(c.id))] = Embedded(c)
      BY <1>10, <2>2, NoneFacts DEF Consistent, AllocatorObjects
    <3> HIDE DEF c
    <3>2. ASSUME c.id \in PageIds
          PROVE  T2[ToIndex(NextId(c.id))] = Embedded(c)
      <4>1. NextId(c.id) \in AllIds /\ ToIndex(NextId(c.id)) \in Indices
        BY <3>2, IdFacts, IndexType
      <4>2. \A a \in slots : ToIndex(a.id) # ToIndex(NextId(c.id))
        <5> SUFFICES ASSUME NEW a \in slots, ToIndex(a.id) = ToIndex(NextId(c.id))
                     PROVE  FALSE
          OBVIOUS
        <5>1. a.id \in AllIds
          BY <1>4, KindFacts
        <5>2. a.id = NextId(c.id)
          BY <4>1, <5>1 DEF DistinctIndices
        <5>3. a \notin all
          BY <1>1, <3>2, <5>2 DEF DistinctIndices
        <5>4. PICK b \in all : b.id \in PageIds /\ a = Embedded(b)
          BY <1>3, <5>3
        <5>5. b.id = c.id
          BY <3>2, <5>2, <5>4, IdFacts DEF Embedded
        <5>6. b \in slots /\ ToIndex(b.id) = i
          BY <1>3, <3>1, <5>5
        <5> QED
          BY <2>2, <5>6
      <4> QED
        BY <1>7, <3>1, <3>2, <4>1, <4>2
    <3> QED
      BY <2>2, <3>1, <3>2 DEF c
  <2> QED
    BY <1>7, <2>1, <2>2
<1>11. D2 \in all \/ (D2 = D /\ D # Root /\ \A a \in all : a.id # D.id)
  <2>1. CASE D = Root
    BY <1>first, <2>1 DEF RegisteredDefault
  <2>2. CASE D # Root /\ \E a \in all : a.id = D.id
    BY <2>2, Zenon DEF RegisteredDefault
  <2>3. CASE D # Root /\ ~ \E a \in all : a.id = D.id
    BY <2>3 DEF RegisteredDefault
  <2> QED
    BY <2>1, <2>2, <2>3
<1> HIDE DEF D2
<1>12. D2 \in MadeObjects /\ \E i \in Indices : T2[i] = D2
  <2>1. CASE D2 \in all
    <3>1. D2 \in slots
      BY <1>3, <2>1
    <3>2. ToIndex(D2.id) \in Indices /\ T2[ToIndex(D2.id)] = D2
      BY <1>4, <1>6, <3>1, Zenon
    <3>3. D2 \in MadeObjects
      BY <1>1, <2>1, Zenon
    <3> QED
      BY <3>2, <3>3, Zenon
  <2>2. CASE D2 = D /\ D # Root /\ \A a \in all : a.id # D.id
    <3>1. PICK i \in Indices : T[i] = D
      BY <2>2 DEF Consistent
    <3>2. D \in MadeObjects /\ D # None /\ ToIndex(D.id) = i
      BY <3>1, NoneFacts DEF Consistent, AllocatorObjects
    <3>3. \A a \in slots : ToIndex(a.id) # i
      BY <1>3, <2>2, <3>2
    <3>4. T2[i] = T[i]
      BY <1>7, <3>1, <3>2, <3>3
    <3> QED
      BY <2>2, <3>1, <3>2, <3>4
  <2> QED
    BY <1>11, <2>1, <2>2
<1> QED
  BY <1>8, <1>9, <1>10, <1>12 DEF Consistent, T2, D2, all

(* UnregisterAllocator: the default goes with its entry.                    *)
LEMMA Unregistering ==
  ASSUME DistinctIndices, NEW T, NEW D, NEW M, NEW ins, Consistent(T, D, M, ins),
         NEW id \in Ids
  PROVE  Consistent([T EXCEPT ![ToIndex(id)] = None],
                    IF D.id = id THEN Root ELSE D, M, ins)
<1> DEFINE T2 == [T EXCEPT ![ToIndex(id)] = None]
           D2 == IF D.id = id THEN Root ELSE D
<1>1. T2 \in [Indices -> AllocatorObjects \cup {None}]
  BY DEF Consistent
<1>2. \A i \in Indices : T2[i] = None \/ T2[i] = T[i]
  BY DEF Consistent
<1>3. D2 \in MadeObjects
  BY NoneFacts DEF Consistent
<1>4. D2 = Root \/ \E i \in Indices : T2[i] = D2
  <2> SUFFICES ASSUME D.id # id, D # Root
               PROVE  \E i \in Indices : T2[i] = D
    OBVIOUS
  <2>1. PICK i \in Indices : T[i] = D
    BY DEF Consistent
  <2>2. D \in MadeObjects /\ D # None /\ ToIndex(D.id) = i
    BY <2>1, NoneFacts DEF Consistent, AllocatorObjects
  <2>3. D.id \in AllIds /\ id \in AllIds
    BY <2>2, MadeFacts, IdFacts
  <2>4. i # ToIndex(id)
    BY <2>2, <2>3 DEF DistinctIndices
  <2>5. T2[i] = T[i]
    BY <2>4 DEF Consistent
  <2> QED
    BY <2>1, <2>5
<1>5. ASSUME NEW i \in Indices, T2[i] \in MadeObjects, T2[i] # Root, T2[i].id \in PageIds
      PROVE  T2[ToIndex(NextId(T2[i].id))] = Embedded(T2[i])
  <2>1. T2[i] = T[i]
    BY <1>2, <1>5, NoneFacts DEF AllocatorObjects
  <2>2. T[ToIndex(NextId(T[i].id))] = Embedded(T[i])
    BY <1>5, <2>1 DEF Consistent
  <2>3. NextId(T[i].id) \in AllIds /\ NextId(T[i].id) # id /\ id \in AllIds
    BY <1>5, <2>1, IdFacts DEF DistinctIndices
  <2>4. /\ ToIndex(NextId(T[i].id)) # ToIndex(id)
        /\ ToIndex(NextId(T[i].id)) \in Indices
    BY <2>3, IndexType DEF DistinctIndices
  <2>5. T2[ToIndex(NextId(T[i].id))] = T[ToIndex(NextId(T[i].id))]
    BY <2>4 DEF Consistent
  <2> QED
    BY <2>1, <2>2, <2>5
<1> HIDE DEF T2, D2
<1>6. Consistent(T2, D2, M, ins)
  BY <1>1, <1>2, <1>3, <1>4, <1>5, NoneFacts DEF Consistent, AllocatorObjects
<1> QED
  BY <1>6 DEF T2, D2

-----------------------------------------------------------------------------
(* The initial states satisfy the inductive invariant.                      *)
LEMMA ManagerInitInv == ManagerInit => ManagerInv
<1> SUFFICES ASSUME ManagerInit PROVE ManagerInv
  OBVIOUS
<1>1. RootTable \in [Indices -> AllocatorObjects \cup {None}]
  BY NoneFacts DEF RootTable, AllocatorObjects
<1>2. ManagerTypeOK
  BY <1>1, NoneFacts DEF ManagerInit, ManagerTypeOK
<1>3. Registries
  <2>1. \A i \in Indices : RootTable[i] # None =>
          RootTable[i] = Root /\ ToIndex(RootTable[i].id) = i
    BY DEF RootTable, Root, Allocator
  <2>2. ASSUME NEW p \in Processes
        PROVE  Consistent(table[p], default[p], Mapped(p), inside)
    <3>1. table[p] = RootTable /\ default[p] = Root
      BY DEF ManagerInit
    <3> QED
      BY <1>1, <2>1, <3>1, NoneFacts DEF Consistent, AllocatorObjects
  <2> QED
    BY <2>2 DEF Registries
<1>4. UsedDistinct /\ NamesByUrl /\ NamesOwnedByUrl /\ SentAlive
  BY DEF ManagerInit, UsedDistinct, NamesByUrl, NamesOwnedByUrl, SentAlive
<1> QED
  BY <1>2, <1>3, <1>4 DEF ManagerInv

(* Memory only comes out of use, when no name and no process gets a segment *)
(* that was not in use.                                                    *)
LEMMA UnusedGrows ==
  ASSUME Named' \subseteq Named,
         \A q \in Processes : Mapped(q)' \subseteq Mapped(q) \cup Named,
         \/ sent' \in {sent, None}
         \/ \E q \in Processes : sent'.seg \in Mapped(q)
  PROVE  Unused \subseteq Unused'
BY DEF Unused

(* Segments that come out of use leave the others distinct.                 *)
LEMMA UsedFrame ==
  ASSUME UsedDistinct, Unused \subseteq Unused', inside' = inside
  PROVE  UsedDistinct'
BY DEF UsedDistinct

(* What an owner has open is a backend object, never the value for none.    *)
LEMMA OwnerFacts ==
  \A g \in Segments : [seg |-> g, owned |-> TRUE] \in BackendObjects \ {None}
<1>1. \A g \in Segments : [seg |-> g, owned |-> TRUE] \in BackendObjects
  BY DEF BackendObjects
<1> QED
  BY <1>1, NoneFacts

(* Calls that touch the tables, or the pointer on its way, alone.           *)
LEMMA NamesFrame ==
  ASSUME NamesByUrl, NamesOwnedByUrl, UNCHANGED <<names, backends, orphans>>
  PROVE  NamesByUrl' /\ NamesOwnedByUrl'
BY DEF NamesByUrl, NamesOwnedByUrl

(* With the names and backends as they were, so is what is mapped.          *)
LEMMA SameMemory ==
  ASSUME UNCHANGED <<names, backends>>
  PROVE  Named' = Named /\ \A q \in Processes : Mapped(q)' = Mapped(q)
BY DEF Named, Mapped, Opened

(* Tables that a step leaves alone stay consistent in more memory.          *)
LEMMA TablesFrame ==
  ASSUME ManagerTypeOK, Registries, UNCHANGED <<table, default>>,
         \A q \in Processes : Mapped(q) \subseteq Mapped(q)',
         \A g \in Segments : inside[g] \in Ids => inside'[g] = inside[g]
  PROVE  Registries'
<1>1. ASSUME NEW q \in Processes
      PROVE  Consistent(table'[q], default'[q], Mapped(q)', inside')
  <2>1. Consistent(table[q], default[q], Mapped(q), inside)
    BY DEF Registries
  <2>2. Mapped(q) \subseteq Segments
    BY MappedUsed
  <2>3. \A g \in Mapped(q) : inside[g] \in Ids \cup {RootId} => inside'[g] = inside[g]
    BY <2>2, NoneFacts DEF ManagerTypeOK
  <2>4. \A i \in Indices : table[q][i] \in MadeObjects /\ table[q][i] # Root =>
          table[q][i].seg \in Mapped(q)'
    BY <2>1 DEF Consistent
  <2>5. Consistent(table[q], default[q], Mapped(q)', inside')
    BY <2>1, <2>2, <2>3, <2>4, MoreMemory
  <2> QED
    BY <2>5
<1> QED
  BY <1>1 DEF Registries

(* CreateBackend of a name, with what it unlinks and maps.                  *)
LEMMA CreateBackendStep ==
  ASSUME ManagerInv, NEW p \in Processes, NEW u \in Urls, CreateBackend(p, u)
  PROVE  ManagerInv'
<1> DEFINE F == FreshSegment
           b == [seg |-> F, owned |-> TRUE]
<1>1. /\ F \in Segments
      /\ \A w \in Shared : names[w] # F
      /\ \A q \in Processes : F \notin Mapped(q)
      /\ sent # None => sent.seg # F
  <2>1. F \in Unused
    BY FreshFacts DEF CreateBackend
  <2>2. F # None
    BY <2>1, NoneFacts DEF Unused
  <2> QED
    BY <2>1, <2>2 DEF Unused, Named
<1> HIDE DEF F
<1>2. ManagerTypeOK
  BY DEF ManagerInv
<1>3. b \in BackendObjects /\ b # None
  BY <1>1, OwnerFacts
<1>4. Open(p, u, b) /\ backends[p][u] = None
  BY DEF CreateBackend, F
<1>5. /\ backends' \in [Processes -> [Urls -> BackendObjects \cup {None}]]
      /\ Mapped(p)' = Mapped(p) \cup {F}
      /\ \A q \in Processes \ {p} : Mapped(q)' = Mapped(q)
  BY <1>2, <1>3, <1>4, OpenMapped
<1>6. \A q \in Processes, w \in Urls :
        backends'[q][w] = IF q = p /\ w = u THEN b ELSE backends[q][w]
  BY <1>2, <1>4 DEF Open, ManagerTypeOK
<1>7. \A w \in Shared : names'[w] = IF w = u THEN F ELSE names[w]
  BY <1>2 DEF CreateBackend, SetName, F, ManagerTypeOK
<1>8. names' \in [Shared -> Segments \cup {None}]
  BY <1>1, <1>2 DEF CreateBackend, SetName, F, ManagerTypeOK
<1>9. /\ inside' \in [Segments -> Ids \cup {None}]
      /\ \A g \in Segments : inside'[g] = IF g = F THEN None ELSE inside[g]
  BY <1>1, <1>2 DEF CreateBackend, F, ManagerTypeOK
<1>10. orphans' = orphans \ {F} /\ UNCHANGED <<table, default, sent>>
  BY DEF CreateBackend, F
<1>11. ManagerTypeOK'
  BY <1>2, <1>5, <1>8, <1>9, <1>10 DEF ManagerTypeOK
<1>12. Registries'
  <2>1. Registries
    BY DEF ManagerInv
  <2>2. ASSUME NEW q \in Processes
        PROVE  Consistent(table[q], default[q], Mapped(q)', inside')
    <3>1. Consistent(table[q], default[q], Mapped(q), inside)
      BY <2>1 DEF Registries
    <3>2. Mapped(q) \subseteq Segments /\ Mapped(q) \subseteq Mapped(q)'
      BY <1>2, <1>5, MappedUsed
    <3>3. \A g \in Mapped(q) : inside'[g] = inside[g]
      BY <1>1, <1>9, <3>2
    <3>4. \A i \in Indices : table[q][i] \in MadeObjects /\ table[q][i] # Root =>
            table[q][i].seg \in Mapped(q)'
      BY <3>1, <3>2 DEF Consistent
    <3> QED
      BY <3>1, <3>2, <3>3, <3>4, MoreMemory
  <2> QED
    BY <1>10, <2>2 DEF Registries
<1>13. UsedDistinct'
  <2>1. ASSUME NEW g \in Segments, g \notin Unused', g # F
        PROVE  g \notin Unused
    <3>1. Named' \subseteq Named \cup {F}
      BY <1>7 DEF Named
    <3>2. \A q \in Processes : Mapped(q)' \subseteq Mapped(q) \cup {F}
      BY <1>5
    <3> QED
      BY <1>10, <2>1, <3>1, <3>2 DEF Unused
  <2> QED
    BY <1>9, <2>1 DEF UsedDistinct, ManagerInv
<1>14. NamesByUrl'
  <2>1. NamesByUrl
    BY DEF ManagerInv
  <2>2. \A q \in Processes, w \in Urls : backends[q][w] # None => backends[q][w].seg # F
    BY <1>1 DEF Mapped, Opened
  <2>3. ASSUME NEW v \in Shared, names'[v] # None, NEW w \in Shared, names'[w] = names'[v]
        PROVE  w = v
    BY <1>1, <1>7, <2>1, <2>3 DEF NamesByUrl
  <2>4. ASSUME NEW v \in Shared, names'[v] # None, NEW q \in Processes, NEW w \in Urls,
               backends'[q][w] # None, backends'[q][w].seg = names'[v]
        PROVE  w = v
    <3>1. CASE q = p /\ w = u
      BY <1>1, <1>6, <1>7, <2>4, <3>1
    <3>2. CASE ~(q = p /\ w = u)
      <4>1. backends[q][w] # None /\ backends[q][w].seg = names'[v]
        BY <1>6, <2>4, <3>2
      <4>2. names'[v] = names[v]
        BY <1>7, <2>2, <4>1
      <4> QED
        BY <2>1, <2>4, <4>1, <4>2 DEF NamesByUrl
    <3> QED
      BY <3>1, <3>2
  <2> QED
    BY <2>3, <2>4 DEF NamesByUrl
<1>15. NamesOwnedByUrl'
  <2> SUFFICES ASSUME NEW v \in Shared, names'[v] # None
               PROVE  \/ names'[v] \in orphans'
                      \/ \E q \in Processes, w \in Urls :
                           backends'[q][w] = [seg |-> names'[v], owned |-> TRUE]
    BY DEF NamesOwnedByUrl
  <2>1. CASE v = u
    BY <1>6, <1>7, <2>1
  <2>2. CASE v # u
    <3>1. names'[v] = names[v] /\ names[v] \in Segments /\ names[v] # F
      BY <1>1, <1>2, <1>7, <2>2 DEF ManagerTypeOK
    <3>2. CASE names[v] \in orphans
      BY <1>10, <3>1, <3>2
    <3>3. CASE names[v] \notin orphans
      <4>1. PICK q \in Processes, w \in Urls :
              backends[q][w] = [seg |-> names[v], owned |-> TRUE]
        BY <3>1, <3>3 DEF ManagerInv, NamesOwnedByUrl
      <4>2. backends'[q][w] = backends[q][w]
        BY <1>4, <1>6, <3>1, <4>1, OwnerFacts
      <4> QED
        BY <3>1, <4>1, <4>2
    <3> QED
      BY <3>2, <3>3
  <2> QED
    BY <2>1, <2>2
<1>16. SentAlive'
  BY <1>1, <1>2, <1>9, <1>10 DEF SentAlive, ManagerTypeOK, ManagerInv
<1> QED
  BY <1>11, <1>12, <1>13, <1>14, <1>15, <1>16 DEF ManagerInv

(* CreateBackend of a name the process has a backend for.                   *)
LEMMA CreateRepeatedStep ==
  ASSUME ManagerInv, NEW p \in Processes, NEW u \in Urls, CreateRepeated(p, u)
  PROVE  ManagerInv'
<1>1. \A w \in Shared : names'[w] = IF w = u THEN None ELSE names[w]
  BY DEF CreateRepeated, SetName, ManagerInv, ManagerTypeOK
<1>2. UNCHANGED <<inside, backends, table, default, sent, orphans>>
  BY DEF CreateRepeated
<1>3. ManagerTypeOK'
  BY <1>2 DEF CreateRepeated, SetName, ManagerInv, ManagerTypeOK
<1>4. \A q \in Processes : Mapped(q)' = Mapped(q)
  BY <1>2 DEF Mapped, Opened
<1>5. Registries'
  BY <1>2, <1>4, TablesFrame DEF ManagerInv
<1>6. Named' \subseteq Named
  BY <1>1 DEF Named
<1>7. UsedDistinct'
  <2>1. Unused \subseteq Unused'
    BY <1>2, <1>4, <1>6, UnusedGrows
  <2> QED
    BY <1>2, <2>1, UsedFrame DEF ManagerInv
<1>8. NamesByUrl' /\ NamesOwnedByUrl' /\ SentAlive'
  BY <1>1, <1>2 DEF ManagerInv, NamesByUrl, NamesOwnedByUrl, SentAlive
<1> QED
  BY <1>3, <1>5, <1>7, <1>8 DEF ManagerInv

(* The tables after a registration.                                        *)
LEMMA RegisterAllStep ==
  ASSUME DistinctIndices, ManagerTypeOK, NEW p \in Processes, NEW M, NEW ins, NEW segs,
         Consistent(table[p], default[p], M, ins), Registrable(segs, M, ins),
         NEW first \in AllocatorsOf(segs, ins),
         RegisterAll(p, first, AllocatorsOf(segs, ins))
  PROVE  /\ table' \in [Processes -> [Indices -> AllocatorObjects \cup {None}]]
         /\ default' \in [Processes -> MadeObjects]
         /\ Consistent(table'[p], default'[p], M, ins)
         /\ \A q \in Processes \ {p} : table'[q] = table[q] /\ default'[q] = default[q]
<1> DEFINE T2 == RegisteredTable(table[p], AllocatorsOf(segs, ins))
           D2 == RegisteredDefault(default[p], first, AllocatorsOf(segs, ins))
<1>1. table' = [table EXCEPT ![p] = T2] /\ default' = [default EXCEPT ![p] = D2]
  BY DEF RegisterAll, RegisteredTable, SlotsOf, RegisteredDefault, ManagerTypeOK
<1>2. Consistent(T2, D2, M, ins)
  BY Registering
<1> HIDE DEF T2, D2
<1>3. T2 \in [Indices -> AllocatorObjects \cup {None}] /\ D2 \in MadeObjects
  BY <1>2 DEF Consistent
<1>4. table'[p] = T2 /\ default'[p] = D2
  BY <1>1 DEF ManagerTypeOK
<1> QED
  BY <1>1, <1>2, <1>3, <1>4 DEF ManagerTypeOK

(* CreateAllocator: the id goes to the segment, then to the tables.         *)
LEMMA CreateAllocatorStep ==
  ASSUME DistinctIndices, ManagerInv, NEW p \in Processes, NEW u \in Urls, NEW id \in Ids,
         CreateAllocator(p, u, id)
  PROVE  ManagerInv'
<1> DEFINE g == backends[p][u].seg
<1>1. /\ g \in Mapped(p) /\ g \in Segments \ Unused /\ inside[g] = None
      /\ \A h \in Segments \ Unused : inside[h] # id
      /\ inside' = [inside EXCEPT ![g] = id]
      /\ RegisterAll(p, Allocator(id, g), {Allocator(id, g)})
      /\ UNCHANGED <<names, backends, sent, orphans>>
  <2>1. g \in Mapped(p)
    BY DEF CreateAllocator, Mapped
  <2> QED
    BY <2>1, MappedUsed DEF CreateAllocator, ManagerInv
<1> HIDE DEF g
<1>2. ManagerTypeOK
  BY DEF ManagerInv
<1>3. /\ inside' \in [Segments -> Ids \cup {None}] /\ inside'[g] = id
      /\ \A h \in Segments : h # g => inside'[h] = inside[h]
  BY <1>1, <1>2 DEF ManagerTypeOK
<1>4. \A h \in Segments : inside[h] \in Ids \cup {RootId} => inside'[h] = inside[h]
  BY <1>1, <1>3, NoneFacts
<1>5. \A q \in Processes : Consistent(table[q], default[q], Mapped(q), inside')
  <2> SUFFICES ASSUME NEW q \in Processes
               PROVE  Consistent(table[q], default[q], Mapped(q), inside')
    OBVIOUS
  <2>1. Consistent(table[q], default[q], Mapped(q), inside)
    BY DEF ManagerInv, Registries
  <2>2. Mapped(q) \subseteq Segments
    BY <1>2, MappedUsed
  <2>3. \A i \in Indices : table[q][i] \in MadeObjects /\ table[q][i] # Root =>
          table[q][i].seg \in Mapped(q)
    BY <2>1 DEF Consistent
  <2>4. \A h \in Mapped(q) : inside[h] \in Ids \cup {RootId} => inside'[h] = inside[h]
    BY <1>4, <2>2
  <2> QED
    BY <2>1, <2>2, <2>3, <2>4, MoreMemory
<1>6. /\ table' \in [Processes -> [Indices -> AllocatorObjects \cup {None}]]
      /\ default' \in [Processes -> MadeObjects]
      /\ Consistent(table'[p], default'[p], Mapped(p), inside')
      /\ \A q \in Processes \ {p} : table'[q] = table[q] /\ default'[q] = default[q]
  <2>1. AllocatorsOf({g}, inside') = {Allocator(id, g)}
    BY <1>3 DEF AllocatorsOf
  <2>2. Registrable({g}, Mapped(p), inside')
    BY <1>1, <1>2, <1>3, MappedUsed DEF Registrable
  <2>3. Consistent(table[p], default[p], Mapped(p), inside')
    BY <1>5
  <2>4. /\ Allocator(id, g) \in AllocatorsOf({g}, inside')
        /\ RegisterAll(p, Allocator(id, g), AllocatorsOf({g}, inside'))
    BY <1>1, <2>1
  <2> QED
    BY <1>2, <2>2, <2>3, <2>4, RegisterAllStep
<1>7. Named' = Named /\ \A q \in Processes : Mapped(q)' = Mapped(q)
  BY <1>1, SameMemory
<1>8. ManagerTypeOK'
  BY <1>1, <1>2, <1>3, <1>6 DEF ManagerTypeOK
<1>9. Registries'
  BY <1>5, <1>6, <1>7 DEF Registries
<1>10. UsedDistinct'
  <2>1. Unused \subseteq Unused'
    BY <1>1, <1>7, UnusedGrows
  <2> QED
    BY <1>1, <1>3, <2>1 DEF ManagerInv, UsedDistinct
<1>11. NamesByUrl' /\ NamesOwnedByUrl'
  BY <1>1, NamesFrame DEF ManagerInv
<1>12. SentAlive'
  BY <1>1, <1>2, <1>4 DEF ManagerInv, SentAlive, ManagerTypeOK
<1> QED
  BY <1>8, <1>9, <1>10, <1>11, <1>12 DEF ManagerInv

(* ScanBackends of a process that may just have mapped one segment more:    *)
(* what M is after the step.                                               *)
LEMMA ScanStep ==
  ASSUME DistinctIndices, ManagerInv, NEW p \in Processes, NEW M, Mapped(p) \subseteq M,
         M \subseteq Segments \ Unused, \A g \in M : inside[g] # None,
         Scan(p, M)
  PROVE  /\ table' \in [Processes -> [Indices -> AllocatorObjects \cup {None}]]
         /\ default' \in [Processes -> MadeObjects]
         /\ Consistent(table'[p], default'[p], M, inside)
         /\ \A q \in Processes \ {p} : table'[q] = table[q] /\ default'[q] = default[q]
<1>1. ManagerTypeOK /\ Consistent(table[p], default[p], Mapped(p), inside)
  BY DEF ManagerInv, Registries
<1>2. Consistent(table[p], default[p], M, inside)
  <2>1. \A i \in Indices : table[p][i] \in MadeObjects /\ table[p][i] # Root => table[p][i].seg \in M
    BY <1>1 DEF Consistent
  <2> QED
    BY <1>1, <2>1, MoreMemory
<1>3. Registrable(M, M, inside)
  BY <1>1 DEF Registrable, ManagerTypeOK, ManagerInv, UsedDistinct
<1>4. CASE AllocatorsOf(M, inside) = {}
  BY <1>1, <1>2, <1>4 DEF Scan, AllocatorsOf, ManagerTypeOK
<1>5. CASE AllocatorsOf(M, inside) # {}
  <2>1. PICK first \in AllocatorsOf(M, inside) : RegisterAll(p, first, AllocatorsOf(M, inside))
    BY <1>5 DEF Scan, AllocatorsOf
  <2> QED
    BY <1>1, <1>2, <1>3, <2>1, RegisterAllStep
<1> QED
  BY <1>4, <1>5

(* AttachBackend, the scan at its end included.                             *)
LEMMA AttachBackendStep ==
  ASSUME DistinctIndices, ManagerInv, NEW p \in Processes, NEW u \in Urls, AttachBackend(p, u)
  PROVE  ManagerInv'
<1> DEFINE g == names[u]
           b == [seg |-> g, owned |-> FALSE]
           M == Mapped(p) \cup {g}
<1>1. ManagerTypeOK
  BY DEF ManagerInv
<1>2. u \in Shared /\ g \in Segments \ Unused /\ g \in Named
  BY <1>1 DEF AttachBackend, ManagerTypeOK, Unused, Named
<1>3. b \in BackendObjects /\ Open(p, u, b) /\ backends[p][u] = None
  BY <1>2 DEF AttachBackend, BackendObjects
<1>4. UNCHANGED <<names, inside, sent, orphans>>
  BY DEF AttachBackend
<1>5. /\ backends' \in [Processes -> [Urls -> BackendObjects \cup {None}]]
      /\ Mapped(p)' = M
      /\ \A q \in Processes \ {p} : Mapped(q)' = Mapped(q)
  BY <1>1, <1>3, OpenMapped
<1>6. \A q \in Processes, w \in Urls :
        backends'[q][w] = IF q = p /\ w = u THEN b ELSE backends[q][w]
  BY <1>1, <1>3 DEF Open, ManagerTypeOK
<1>7. /\ table' \in [Processes -> [Indices -> AllocatorObjects \cup {None}]]
      /\ default' \in [Processes -> MadeObjects]
      /\ Consistent(table'[p], default'[p], M, inside)
      /\ \A q \in Processes \ {p} : table'[q] = table[q] /\ default'[q] = default[q]
  <2>1. M \subseteq Segments \ Unused /\ Mapped(p) \subseteq M
    BY <1>1, <1>2, MappedUsed
  <2>2. Scan(p, M) /\ \A h \in M : inside[h] # None
    BY DEF AttachBackend
  <2> HIDE DEF M
  <2> QED
    BY <2>1, <2>2, ScanStep
<1>8. ManagerTypeOK'
  BY <1>1, <1>4, <1>5, <1>7 DEF ManagerTypeOK
<1>9. Registries'
  <2> SUFFICES ASSUME NEW q \in Processes
               PROVE  Consistent(table'[q], default'[q], Mapped(q)', inside)
    BY <1>4 DEF Registries
  <2>1. CASE q = p
    BY <1>5, <1>7, <2>1
  <2>2. CASE q # p
    BY <1>5, <1>7, <2>2 DEF ManagerInv, Registries
  <2> QED
    BY <2>1, <2>2
<1>10. UsedDistinct'
  <2>1. Unused \subseteq Unused'
    <3>1. Named' = Named
      BY <1>4 DEF Named
    <3>2. \A q \in Processes : Mapped(q)' \subseteq Mapped(q) \cup Named
      BY <1>2, <1>5
    <3> QED
      BY <1>4, <3>1, <3>2, UnusedGrows
  <2> QED
    BY <1>4, <2>1, UsedFrame DEF ManagerInv
<1>11. NamesByUrl'
  BY <1>2, <1>4, <1>6 DEF ManagerInv, NamesByUrl
<1>12. NamesOwnedByUrl'
  <2> SUFFICES ASSUME NEW v \in Shared, names[v] # None, names[v] \notin orphans
               PROVE  \E q \in Processes, w \in Urls :
                        backends'[q][w] = [seg |-> names[v], owned |-> TRUE]
    BY <1>4 DEF NamesOwnedByUrl
  <2>1. PICK q \in Processes, w \in Urls :
          backends[q][w] = [seg |-> names[v], owned |-> TRUE]
    BY DEF ManagerInv, NamesOwnedByUrl
  <2>2. names[v] \in Segments
    BY <1>1 DEF ManagerTypeOK
  <2>3. backends'[q][w] = backends[q][w]
    BY <1>3, <1>6, <2>1, <2>2, OwnerFacts
  <2> QED
    BY <2>1, <2>3
<1>13. SentAlive'
  BY <1>4 DEF ManagerInv, SentAlive
<1> QED
  BY <1>8, <1>9, <1>10, <1>11, <1>12, <1>13 DEF ManagerInv

(* Calls that change the tables of one process, and nothing else.           *)
LEMMA TablesOnly ==
  ASSUME ManagerInv, NEW p \in Processes,
         UNCHANGED <<names, inside, backends, sent, orphans>>,
         table' \in [Processes -> [Indices -> AllocatorObjects \cup {None}]],
         default' \in [Processes -> MadeObjects],
         Consistent(table'[p], default'[p], Mapped(p), inside),
         \A q \in Processes \ {p} : table'[q] = table[q] /\ default'[q] = default[q]
  PROVE  ManagerInv'
<1>1. ManagerTypeOK'
  BY DEF ManagerInv, ManagerTypeOK
<1>2. Named' = Named /\ \A q \in Processes : Mapped(q)' = Mapped(q)
  BY SameMemory
<1>3. Registries'
  <2> SUFFICES ASSUME NEW q \in Processes
               PROVE  Consistent(table'[q], default'[q], Mapped(q), inside)
    BY <1>2 DEF Registries
  <2> QED
    BY DEF ManagerInv, Registries
<1>4. UsedDistinct'
  BY <1>2, UnusedGrows, UsedFrame DEF ManagerInv
<1>5. NamesByUrl' /\ NamesOwnedByUrl'
  BY NamesFrame DEF ManagerInv
<1>6. SentAlive'
  BY DEF ManagerInv, SentAlive
<1> QED
  BY <1>1, <1>3, <1>4, <1>5, <1>6 DEF ManagerInv

(* ScanBackends of one process.                                             *)
LEMMA ScanBackendsStep ==
  ASSUME DistinctIndices, ManagerInv, NEW p \in Processes, ScanBackends(p)
  PROVE  ManagerInv'
<1>1. Mapped(p) \subseteq Segments \ Unused
  BY MappedUsed DEF ManagerInv
<1>2. (\A g \in Mapped(p) : inside[g] # None) /\ Scan(p, Mapped(p))
  BY DEF ScanBackends
<1>3. /\ table' \in [Processes -> [Indices -> AllocatorObjects \cup {None}]]
      /\ default' \in [Processes -> MadeObjects]
      /\ Consistent(table'[p], default'[p], Mapped(p), inside)
      /\ \A q \in Processes \ {p} : table'[q] = table[q] /\ default'[q] = default[q]
  BY <1>1, <1>2, ScanStep
<1>4. UNCHANGED <<names, inside, backends, sent, orphans>>
  BY DEF ScanBackends
<1> QED
  BY <1>3, <1>4, TablesOnly

(* UnregisterAllocator of one process.                                      *)
LEMMA UnregisterAllocatorStep ==
  ASSUME DistinctIndices, ManagerInv, NEW p \in Processes, NEW id \in Ids, UnregisterAllocator(p, id)
  PROVE  ManagerInv'
<1> DEFINE T2 == [table[p] EXCEPT ![ToIndex(id)] = None]
           D2 == IF default[p].id = id THEN Root ELSE default[p]
<1>1. Consistent(T2, D2, Mapped(p), inside)
  BY Unregistering DEF ManagerInv, Registries
<1>2. table' = [table EXCEPT ![p] = T2] /\ default' = [default EXCEPT ![p] = D2]
  BY DEF UnregisterAllocator, ManagerInv, ManagerTypeOK
<1> HIDE DEF T2, D2
<1>3. /\ table' \in [Processes -> [Indices -> AllocatorObjects \cup {None}]]
      /\ default' \in [Processes -> MadeObjects]
      /\ Consistent(table'[p], default'[p], Mapped(p), inside)
      /\ \A q \in Processes \ {p} : table'[q] = table[q] /\ default'[q] = default[q]
  BY <1>1, <1>2 DEF ManagerInv, ManagerTypeOK, Consistent
<1>4. UNCHANGED <<names, inside, backends, sent, orphans>>
  BY DEF UnregisterAllocator
<1> QED
  BY <1>3, <1>4, TablesOnly

(* SetDefaultAllocator of one process.                                      *)
LEMMA SetDefaultAllocatorStep ==
  ASSUME DistinctIndices, ManagerInv, NEW p \in Processes, NEW id \in Ids, SetDefaultAllocator(p, id)
  PROVE  ManagerInv'
<1> DEFINE D2 == table[p][ToIndex(id)]
<1>1. ToIndex(id) \in Indices
  BY IndexType, IdFacts
<1>2. Consistent(table[p], D2, Mapped(p), inside)
  <2>1. Consistent(table[p], default[p], Mapped(p), inside) /\ D2 # None
    BY DEF SetDefaultAllocator, ManagerInv, Registries
  <2>2. D2 \in AllocatorObjects /\ ToIndex(D2.id) = ToIndex(id)
    BY <1>1, <2>1 DEF Consistent
  <2>3. D2 \in MadeObjects /\ D2.id = id
    BY <2>2, IndexedObject
  <2> QED
    BY <1>1, <2>1, <2>3 DEF Consistent
<1>3. default' = [default EXCEPT ![p] = D2]
  BY DEF SetDefaultAllocator
<1> HIDE DEF D2
<1>4. /\ table' \in [Processes -> [Indices -> AllocatorObjects \cup {None}]]
      /\ default' \in [Processes -> MadeObjects]
      /\ Consistent(table'[p], default'[p], Mapped(p), inside)
      /\ \A q \in Processes \ {p} : table'[q] = table[q] /\ default'[q] = default[q]
  BY <1>2, <1>3 DEF SetDefaultAllocator, ManagerInv, ManagerTypeOK, Consistent
<1>5. UNCHANGED <<names, inside, backends, sent, orphans>>
  BY DEF SetDefaultAllocator
<1> QED
  BY <1>4, <1>5, TablesOnly

(* UnregisterBackend, which destroys what the process owns.                 *)
LEMMA UnregisterBackendStep ==
  ASSUME ManagerInv, NEW p \in Processes, NEW u \in Urls, UnregisterBackend(p, u)
  PROVE  ManagerInv'
<1>1. ManagerTypeOK
  BY DEF ManagerInv
<1>2. /\ u \in Opened(p) /\ Open(p, u, None)
      /\ UNCHANGED <<inside, table, default, sent, orphans>>
  BY DEF UnregisterBackend
<1>3. /\ backends' \in [Processes -> [Urls -> BackendObjects \cup {None}]]
      /\ Mapped(p)' \subseteq Mapped(p)
      /\ Mapped(p) \subseteq Mapped(p)' \cup {backends[p][u].seg}
      /\ \A q \in Processes \ {p} : Mapped(q)' = Mapped(q)
  BY <1>1, <1>2, CloseMapped
<1>4. \A q \in Processes, w \in Urls :
        backends'[q][w] = IF q = p /\ w = u THEN None ELSE backends[q][w]
  BY <1>1, <1>2 DEF Open, ManagerTypeOK
<1>5. \/ names' = names /\ (backends[p][u].owned => u \notin Shared)
      \/ /\ u \in Shared /\ names' = [names EXCEPT ![u] = None]
  BY DEF UnregisterBackend, Close, SetName
<1>6. \A w \in Shared : names'[w] # None => names'[w] = names[w]
  BY <1>1, <1>5 DEF ManagerTypeOK
<1>7. ManagerTypeOK'
  BY <1>1, <1>2, <1>3, <1>5 DEF ManagerTypeOK
<1>8. Registries'
  <2> SUFFICES ASSUME NEW q \in Processes
               PROVE  Consistent(table[q], default[q], Mapped(q)', inside)
    BY <1>2 DEF Registries
  <2>1. Consistent(table[q], default[q], Mapped(q), inside)
    BY DEF ManagerInv, Registries
  <2>2. CASE q # p
    BY <1>3, <2>1, <2>2
  <2>3. CASE q = p
    <3>1. \A i \in Indices : table[p][i] \in MadeObjects => table[p][i].seg # backends[p][u].seg
      <4> SUFFICES ASSUME NEW i \in Indices, table[p][i] \in MadeObjects
                   PROVE  table[p][i].seg # backends[p][u].seg
        OBVIOUS
      <4>1. table[p][i] \in AllocatorObjects /\ table[p][i] # None
        BY NoneFacts, KindFacts
      <4>2. table[p][i] \in Known(p) /\ table[p][i].embedded = FALSE
        BY <4>1, KindFacts DEF Known
      <4> QED
        BY <4>2 DEF UnregisterBackend
    <3>2. \A i \in Indices : table[p][i] \in MadeObjects /\ table[p][i] # Root =>
            table[p][i].seg \in Mapped(p)'
      BY <1>3, <2>1, <2>3, <3>1 DEF Consistent
    <3>3. Mapped(p) \subseteq Segments
      BY <1>1, MappedUsed
    <3> QED
      BY <2>1, <2>3, <3>2, <3>3, MoreMemory
  <2> QED
    BY <2>2, <2>3
<1>9. UsedDistinct'
  <2>1. Named' \subseteq Named
    BY <1>6 DEF Named
  <2>2. \A q \in Processes : Mapped(q)' \subseteq Mapped(q) \cup Named
    BY <1>3
  <2>3. Unused \subseteq Unused'
    BY <1>2, <2>1, <2>2, UnusedGrows
  <2> QED
    BY <1>2, <2>3, UsedFrame DEF ManagerInv
<1>10. NamesByUrl'
  BY <1>4, <1>6 DEF ManagerInv, NamesByUrl
<1>11. NamesOwnedByUrl'
  <2> SUFFICES ASSUME NEW v \in Shared, names'[v] # None, names[v] \notin orphans
               PROVE  \E q \in Processes, w \in Urls :
                        backends'[q][w] = [seg |-> names[v], owned |-> TRUE]
    BY <1>2, <1>6 DEF NamesOwnedByUrl
  <2>1. names[v] # None /\ names[v] \in Segments
    BY <1>1, <1>6 DEF ManagerTypeOK
  <2>2. PICK q \in Processes, w \in Urls :
          backends[q][w] = [seg |-> names[v], owned |-> TRUE]
    BY <2>1 DEF ManagerInv, NamesOwnedByUrl
  <2>3. w = v
    <3>1. backends[q][w] # None /\ backends[q][w].seg = names[v]
      BY <2>1, <2>2, OwnerFacts
    <3> QED
      BY <2>1, <3>1 DEF ManagerInv, NamesByUrl
  <2>4. ~(q = p /\ w = u)
    <3> SUFFICES ASSUME q = p, w = u PROVE FALSE
      OBVIOUS
    <3>1. backends[p][u].owned /\ u \in Shared /\ u = v
      BY <2>2, <2>3
    <3> QED
      BY <1>1, <1>5, <3>1 DEF ManagerTypeOK
  <2> QED
    BY <1>4, <2>2, <2>4
<1>12. SentAlive'
  BY <1>2 DEF ManagerInv, SentAlive
<1> QED
  BY <1>7, <1>8, <1>9, <1>10, <1>11, <1>12 DEF ManagerInv

(* The end of a process that destroys nothing.                              *)
LEMMA CrashStep ==
  ASSUME ManagerInv, NEW p \in Processes, Crash(p)
  PROVE  ManagerInv'
<1>1. ManagerTypeOK /\ UNCHANGED <<names, inside, sent>>
  BY DEF ManagerInv, Crash
<1>2. \A q \in Processes, w \in Urls :
        backends'[q][w] = IF q = p THEN None ELSE backends[q][w]
  BY <1>1 DEF Crash, ManagerTypeOK
<1>3. Mapped(p)' = {} /\ \A q \in Processes \ {p} : Mapped(q)' = Mapped(q)
  BY <1>2 DEF Mapped, Opened
<1>4. /\ RootTable \in [Indices -> AllocatorObjects \cup {None}]
      /\ Root \in MadeObjects
  BY NoneFacts DEF RootTable, AllocatorObjects
<1>5. ManagerTypeOK'
  <2>1. Mapped(p) \subseteq Segments
    BY <1>1, MappedUsed
  <2>2. orphans' \subseteq Segments
    BY <1>1, <2>1 DEF Crash, ManagerTypeOK
  <2>3. backends' \in [Processes -> [Urls -> BackendObjects \cup {None}]]
    BY <1>1 DEF Crash, ManagerTypeOK
  <2>4. /\ table' \in [Processes -> [Indices -> AllocatorObjects \cup {None}]]
        /\ default' \in [Processes -> MadeObjects]
    BY <1>1, <1>4 DEF Crash, ManagerTypeOK
  <2> QED
    BY <1>1, <2>2, <2>3, <2>4 DEF ManagerTypeOK
<1>6. Registries'
  <2> SUFFICES ASSUME NEW q \in Processes
               PROVE  Consistent(table'[q], default'[q], Mapped(q)', inside)
    BY <1>1 DEF Registries
  <2>1. CASE q = p
    <3>1. table'[p] = RootTable /\ default'[p] = Root
      BY <1>1 DEF Crash, ManagerTypeOK
    <3>2. \A i \in Indices : RootTable[i] # None =>
            RootTable[i] = Root /\ ToIndex(RootTable[i].id) = i
      BY DEF RootTable, Root, Allocator
    <3> QED
      BY <1>4, <2>1, <3>1, <3>2, NoneFacts DEF Consistent, AllocatorObjects
  <2>2. CASE q # p
    <3>1. table'[q] = table[q] /\ default'[q] = default[q]
      BY <1>1, <2>2 DEF Crash, ManagerTypeOK
    <3> QED
      BY <1>3, <2>2, <3>1 DEF ManagerInv, Registries
  <2> QED
    BY <2>1, <2>2
<1>7. UsedDistinct'
  <2>1. Named' = Named
    BY <1>1 DEF Named
  <2>2. Unused \subseteq Unused'
    BY <1>1, <1>3, <2>1, UnusedGrows
  <2> QED
    BY <1>1, <2>2, UsedFrame DEF ManagerInv
<1>8. NamesByUrl'
  BY <1>1, <1>2 DEF ManagerInv, NamesByUrl
<1>9. NamesOwnedByUrl'
  <2> SUFFICES ASSUME NEW v \in Shared, names[v] # None, names[v] \notin orphans'
               PROVE  \E q \in Processes, w \in Urls :
                        backends'[q][w] = [seg |-> names[v], owned |-> TRUE]
    BY <1>1 DEF NamesOwnedByUrl
  <2>1. names[v] \in Segments /\ names[v] \notin orphans
    BY <1>1 DEF Crash, ManagerTypeOK
  <2>2. PICK q \in Processes, w \in Urls :
          backends[q][w] = [seg |-> names[v], owned |-> TRUE]
    BY <2>1 DEF ManagerInv, NamesOwnedByUrl
  <2>3. q # p
    <3> SUFFICES ASSUME q = p PROVE FALSE
      OBVIOUS
    <3>1. w \in Opened(p)
      BY <2>1, <2>2, OwnerFacts DEF Opened
    <3>2. names[v] \in Mapped(p) /\ Owns(p, names[v])
      BY <2>2, <3>1 DEF Mapped, Owns
    <3> QED
      BY <3>2 DEF Crash
  <2> QED
    BY <1>2, <2>2, <2>3
<1>10. SentAlive'
  BY <1>1 DEF ManagerInv, SentAlive
<1> QED
  BY <1>5, <1>6, <1>7, <1>8, <1>9, <1>10 DEF ManagerInv

(* A pointer that is sent leads to an allocator that lives; it keeps the    *)
(* segment from being used again.                                          *)
LEMMA SentStep ==
  ASSUME ManagerInv, UNCHANGED <<names, inside, backends, table, default, orphans>>,
         \/ sent' = None
         \/ /\ sent' \in [id : Ids, seg : Segments]
            /\ inside[sent'.seg] = sent'.id
            /\ \E q \in Processes : sent'.seg \in Mapped(q)
  PROVE  ManagerInv'
<1>1. ManagerTypeOK'
  BY DEF ManagerInv, ManagerTypeOK
<1>2. Named' = Named /\ \A q \in Processes : Mapped(q)' = Mapped(q)
  BY SameMemory
<1>3. Registries'
  BY <1>2 DEF ManagerInv, Registries
<1>4. UsedDistinct'
  <2>1. Unused \subseteq Unused'
    BY <1>2, UnusedGrows
  <2> QED
    BY <2>1, UsedFrame DEF ManagerInv
<1>5. NamesByUrl' /\ NamesOwnedByUrl'
  BY NamesFrame DEF ManagerInv
<1>6. SentAlive'
  BY DEF SentAlive
<1> QED
  BY <1>1, <1>3, <1>4, <1>5, <1>6 DEF ManagerInv

(* A pointer is sent from an allocator its process knows.                   *)
LEMMA SendStep ==
  ASSUME DistinctIndices, ManagerInv, NEW p \in Processes, NEW id \in Ids, Send(p, id)
  PROVE  ManagerInv'
<1> DEFINE a == table[p][ToIndex(id)]
<1>1. a # None /\ a.seg \in Mapped(p) /\ sent' = [id |-> id, seg |-> a.seg]
  BY DEF Send
<1>2. UNCHANGED <<names, inside, backends, table, default, orphans>>
  BY DEF Send
<1>3. ToIndex(id) \in Indices
  BY IndexType, IdFacts
<1>4. Consistent(table[p], default[p], Mapped(p), inside)
  BY DEF ManagerInv, Registries
<1>5. a \in AllocatorObjects /\ ToIndex(a.id) = ToIndex(id)
  BY <1>1, <1>3, <1>4 DEF Consistent
<1>6. a \in MadeObjects /\ a.id = id
  BY <1>5, IndexedObject
<1>7. a # Root
  BY <1>6, NoneFacts DEF Root, Allocator
<1>8. inside[a.seg] = id
  BY <1>1, <1>3, <1>4, <1>6, <1>7 DEF Consistent
<1>9. a.seg \in Segments
  BY <1>1, MappedUsed DEF ManagerInv
<1>10. sent' \in [id : Ids, seg : Segments] /\ sent'.id = id /\ sent'.seg = a.seg
  BY <1>1, <1>9
<1> HIDE DEF a
<1> QED
  BY <1>1, <1>2, <1>8, <1>10, SentStep

-----------------------------------------------------------------------------
(* Every step keeps the inductive invariant.                                *)
LEMMA ManagerNextInv == DistinctIndices /\ ManagerInv /\ [ManagerNext]_managerVars => ManagerInv'
<1> SUFFICES ASSUME DistinctIndices, ManagerInv, [ManagerNext]_managerVars PROVE ManagerInv'
  OBVIOUS
<1>1. ASSUME NEW p \in Processes, NEW u \in Urls,
             \/ CreateBackend(p, u) \/ CreateRepeated(p, u)
             \/ AttachBackend(p, u) \/ UnregisterBackend(p, u)
      PROVE  ManagerInv'
  BY <1>1, CreateBackendStep, CreateRepeatedStep, AttachBackendStep, UnregisterBackendStep
<1>2. ASSUME NEW p \in Processes, NEW u \in Urls, NEW id \in Ids, CreateAllocator(p, u, id)
      PROVE  ManagerInv'
  BY <1>2, CreateAllocatorStep
<1>3. ASSUME NEW p \in Processes, ScanBackends(p) \/ Crash(p)
      PROVE  ManagerInv'
  BY <1>3, ScanBackendsStep, CrashStep
<1>4. ASSUME NEW p \in Processes, NEW id \in Ids,
             UnregisterAllocator(p, id) \/ SetDefaultAllocator(p, id) \/ Send(p, id)
      PROVE  ManagerInv'
  BY <1>4, UnregisterAllocatorStep, SetDefaultAllocatorStep, SendStep
<1>5. CASE Receive
  BY <1>5, SentStep DEF Receive
<1>6. CASE UNCHANGED managerVars
  <2>1. UNCHANGED <<names, inside, backends, table, default, sent, orphans>>
    BY <1>6 DEF managerVars
  <2>2. Named' = Named /\ \A q \in Processes : Mapped(q)' = Mapped(q)
    BY <2>1, SameMemory
  <2>3. ManagerTypeOK' /\ Registries' /\ SentAlive'
    BY <2>1, <2>2 DEF ManagerInv, ManagerTypeOK, Registries, SentAlive
  <2>4. UsedDistinct'
    BY <2>1, <2>2, UnusedGrows, UsedFrame DEF ManagerInv
  <2>5. NamesByUrl' /\ NamesOwnedByUrl'
    BY <2>1, NamesFrame DEF ManagerInv
  <2> QED
    BY <2>3, <2>4, <2>5 DEF ManagerInv
<1> QED
  BY <1>1, <1>2, <1>3, <1>4, <1>5, <1>6 DEF ManagerNext

(* The inductive invariant holds through every order of creations,          *)
(* attachments, scans, registrations, destructions and crashes.            *)
THEOREM MemoryInvariant == DistinctIndices => (ManagerSpec => []ManagerInv)
<1> SUFFICES ASSUME DistinctIndices PROVE ManagerSpec => []ManagerInv
  OBVIOUS
<1>1. ManagerInv /\ [ManagerNext]_managerVars => ManagerInv'
  BY ManagerNextInv
<1> QED
  BY <1>1, ManagerInitInv, PTL DEF ManagerSpec

(* No process has an allocator that a call has made, the default one        *)
(* included, whose memory it has not mapped or which another allocator has  *)
(* taken over, or a page allocator without the one inside of it.           *)
THEOREM RegistriesAlive == DistinctIndices => (ManagerSpec => []RegistryAlive)
<1> SUFFICES ASSUME DistinctIndices PROVE ManagerSpec => []RegistryAlive
  OBVIOUS
<1>1. ManagerInv => RegistryAlive
  <2> SUFFICES ASSUME ManagerInv, NEW p \in Processes,
                      NEW a \in Known(p) \cup {default[p]}
               PROVE  /\ a # Root /\ ~a.embedded => a.seg \in Mapped(p) /\ inside[a.seg] = a.id
                      /\ a \in Known(p) => Registers(a) \subseteq Known(p)
    BY DEF RegistryAlive
  <2>1. Consistent(table[p], default[p], Mapped(p), inside)
    BY DEF ManagerInv, Registries
  <2>2. a \in AllocatorObjects /\ (a = Root \/ \E i \in Indices : table[p][i] = a)
    BY <2>1, NoneFacts DEF Consistent, Known, AllocatorObjects
  <2>3. ASSUME a # Root, ~a.embedded
        PROVE  a.seg \in Mapped(p) /\ inside[a.seg] = a.id
    <3>1. PICK i \in Indices : table[p][i] = a
      BY <2>2, <2>3
    <3>2. a \in MadeObjects
      BY <2>2, <2>3, KindFacts DEF AllocatorObjects
    <3> QED
      BY <2>1, <2>3, <3>1, <3>2 DEF Consistent
  <2>4. ASSUME a \in Known(p)
        PROVE  Registers(a) \subseteq Known(p)
    <3>1. CASE a.embedded \/ a.id \notin PageIds
      BY <2>4, <3>1 DEF Registers
    <3>2. CASE ~a.embedded /\ a.id \in PageIds
      <4>1. a # Root /\ a \in MadeObjects
        <5>1. a.id # RootId
          BY <3>2, NoneFacts, IdFacts
        <5>2. a # Root
          BY <5>1 DEF Root, Allocator
        <5>3. a.embedded = (a \notin MadeObjects)
          BY <2>2, KindFacts
        <5> QED
          BY <3>2, <5>2, <5>3
      <4>6. Embedded(a) # None
        BY <3>2, <4>1, MadeFacts, KindFacts, NoneFacts
      <4>2. PICK i \in Indices : table[p][i] = a
        BY <2>2, <4>1
      <4>3. table[p][ToIndex(NextId(a.id))] = Embedded(a)
        BY <2>1, <3>2, <4>1, <4>2 DEF Consistent
      <4>4. ToIndex(NextId(a.id)) \in Indices
        BY <3>2, IdFacts, IndexType
      <4>5. Embedded(a) \in Known(p)
        BY <4>3, <4>4, <4>6 DEF Known
      <4> QED
        BY <2>4, <4>5 DEF Registers
    <3> QED
      BY <3>1, <3>2
  <2> QED
    BY <2>3, <2>4
<1> QED
  BY <1>1, MemoryInvariant, PTL

(* A name in shared memory that leads to a segment has an owner, alive to   *)
(* take it away or crashed.                                                *)
THEOREM NamesHaveOwners == DistinctIndices => (ManagerSpec => []NamesOwned)
<1> SUFFICES ASSUME DistinctIndices PROVE ManagerSpec => []NamesOwned
  OBVIOUS
<1>1. ManagerInv => NamesOwned
  <2> SUFFICES ASSUME ManagerInv, NEW u \in Shared, names[u] # None, names[u] \notin orphans
               PROVE  \E p \in Processes : Owns(p, names[u])
    BY DEF NamesOwned
  <2>1. PICK p \in Processes, w \in Urls :
          backends[p][w] = [seg |-> names[u], owned |-> TRUE]
    BY DEF ManagerInv, NamesOwnedByUrl
  <2>2. names[u] \in Segments
    BY DEF ManagerInv, ManagerTypeOK
  <2>3. w \in Opened(p)
    BY <2>1, <2>2, OwnerFacts DEF Opened
  <2> QED
    BY <2>1, <2>3 DEF Owns
<1> QED
  BY <1>1, MemoryInvariant, PTL

(* A pointer made from the id of an allocator means the same object to      *)
(* every process that knows the allocator.                                 *)
THEOREM PointersMeanTheSame == DistinctIndices => (ManagerSpec => []PointersAgree)
<1> SUFFICES ASSUME DistinctIndices PROVE ManagerSpec => []PointersAgree
  OBVIOUS
<1>1. ManagerInv => PointersAgree
  <2> SUFFICES ASSUME ManagerInv, sent # None, NEW p \in Processes,
                      table[p][ToIndex(sent.id)] # None
               PROVE  table[p][ToIndex(sent.id)].seg = sent.seg
    BY DEF PointersAgree
  <2> DEFINE a == table[p][ToIndex(sent.id)]
  <2>1. sent.id \in Ids /\ sent.seg \in Segments /\ inside[sent.seg] = sent.id
    BY DEF ManagerInv, ManagerTypeOK, SentAlive
  <2>2. ToIndex(sent.id) \in Indices
    BY <2>1, IndexType, IdFacts
  <2>3. Consistent(table[p], default[p], Mapped(p), inside)
    BY DEF ManagerInv, Registries
  <2>4. a \in AllocatorObjects /\ ToIndex(a.id) = ToIndex(sent.id)
    BY <2>2, <2>3 DEF Consistent
  <2>5. a \in MadeObjects /\ a.id = sent.id
    BY <2>1, <2>4, IndexedObject
  <2>6. a # Root
    BY <2>1, <2>5, NoneFacts DEF Root, Allocator
  <2>7. a.seg \in Mapped(p) /\ inside[a.seg] = sent.id
    BY <2>2, <2>3, <2>5, <2>6 DEF Consistent
  <2>8. a.seg \in Segments \ Unused
    BY <2>7, MappedUsed DEF ManagerInv
  <2>9. sent.seg \in Segments \ Unused
    BY <2>1 DEF Unused
  <2> QED
    BY <2>1, <2>7, <2>8, <2>9, NoneFacts DEF ManagerInv, UsedDistinct
<1> QED
  BY <1>1, MemoryInvariant, PTL
=============================================================================

-------------------------------- MODULE Mutex --------------------------------
(***************************************************************************)
(* hshm::Mutex and hshm::ScopedMutex (thread/lock/mutex.h).                *)
(*                                                                         *)
(* The lock word counts the threads that have added themselves to it.  A   *)
(* thread acquires the lock when it is the one that moved the word from 0  *)
(* to 1; every other thread that added itself must take its unit back.     *)
(* Each atomic access of the word is one action, so that all interleavings *)
(* of load, fetch_add and fetch_sub are explored.                          *)
(*                                                                         *)
(* Each thread drives one ScopedMutex guard at a time, through any legal   *)
(* sequence of constructor, Lock, TryLock, Unlock and destructor.  Members *)
(* of the guard are private to its thread, so an assignment to is_locked_  *)
(* is merged with the atomic access next to it.                            *)
(***************************************************************************)
EXTENDS Integers, FiniteSets

CONSTANTS
  Threads,   \* the threads that share the mutex
  LockMod    \* 2^32: lock_ is a uint32_t

ASSUME MutexAssumption ==
  /\ IsFiniteSet(Threads)
  /\ LockMod \in Nat
  /\ Cardinality(Threads) < LockMod

VARIABLES
  lock_,       \* std::atomic<uint32_t> Mutex::lock_
  is_locked_,  \* ScopedMutex::is_locked_ of each thread's guard
  op,          \* the call a thread is in: "Lock" or "TryLock"
  pc           \* where a thread is in that call

vars == <<lock_, is_locked_, op, pc>>

(* "none": no guard; "ready": a guard exists and its thread is outside of   *)
(* every call, in the critical section when is_locked_.                     *)
PCs == {"none", "ready", "load", "add", "undo", "yield"}

TypeOK ==
  /\ lock_ \in 0..(LockMod - 1)
  /\ is_locked_ \in [Threads -> BOOLEAN]
  /\ op \in [Threads -> {"Lock", "TryLock"}]
  /\ pc \in [Threads -> PCs]

Init ==
  /\ lock_ = 0
  /\ is_locked_ = [t \in Threads |-> FALSE]
  /\ op = [t \in Threads |-> "Lock"]
  /\ pc = [t \in Threads |-> "none"]

FetchAdd(n) == (n + 1) % LockMod
FetchSub(n) == (n - 1) % LockMod

Goto(t, l) == pc' = [pc EXCEPT ![t] = l]

(* TryLock has returned false: Lock yields and retries, TryLock is over.    *)
Fail(t) == Goto(t, IF op[t] = "Lock" THEN "yield" ELSE "ready")

(***************************************************************************)
(* The calls a thread makes on its guard.                                  *)
(***************************************************************************)

(* ScopedMutex(lock, owner): is_locked_(false), then Lock.                  *)
Construct(t) ==
  /\ pc[t] = "none"
  /\ Goto(t, "load")
  /\ op' = [op EXCEPT ![t] = "Lock"]
  /\ is_locked_' = [is_locked_ EXCEPT ![t] = FALSE]
  /\ UNCHANGED lock_

(* ScopedMutex::Lock on a guard that already owns the lock does nothing.    *)
CallLock(t) ==
  /\ pc[t] = "ready" /\ ~is_locked_[t]
  /\ Goto(t, "load")
  /\ op' = [op EXCEPT ![t] = "Lock"]
  /\ UNCHANGED <<lock_, is_locked_>>

CallTryLock(t) ==
  /\ pc[t] = "ready" /\ ~is_locked_[t]
  /\ Goto(t, "load")
  /\ op' = [op EXCEPT ![t] = "TryLock"]
  /\ UNCHANGED <<lock_, is_locked_>>

\* Faulty variant: Unlock() forgets to reset is_locked_.
UnlockKeepsFlag(t) ==
  /\ pc[t] = "ready" /\ is_locked_[t]
  /\ lock_' = FetchSub(lock_)
  /\ UNCHANGED <<is_locked_, op, pc>>

(* ScopedMutex::Unlock; on a guard that does not own the lock a no-op.      *)
CallUnlock(t) ==
  /\ pc[t] = "ready" /\ is_locked_[t]
  /\ lock_' = FetchSub(lock_)
  /\ is_locked_' = [is_locked_ EXCEPT ![t] = FALSE]
  /\ UNCHANGED <<op, pc>>

(* ~ScopedMutex: unlock when owned; the guard is gone.                      *)
Destruct(t) ==
  /\ pc[t] = "ready"
  /\ lock_' = IF is_locked_[t] THEN FetchSub(lock_) ELSE lock_
  /\ is_locked_' = [is_locked_ EXCEPT ![t] = FALSE]
  /\ Goto(t, "none")
  /\ UNCHANGED op

(***************************************************************************)
(* Mutex::TryLock, one action per access of the lock word.                 *)
(***************************************************************************)

TryLockLoad(t) ==
  /\ pc[t] = "load"
  /\ IF lock_ # 0 THEN Fail(t) ELSE Goto(t, "add")
  /\ UNCHANGED <<lock_, is_locked_, op>>

\* Faulty variant: the value fetch_add returned is not looked at.
TryLockAddUnchecked(t) ==
  /\ pc[t] = "add"
  /\ lock_' = FetchAdd(lock_)
  /\ is_locked_' = [is_locked_ EXCEPT ![t] = TRUE]
  /\ Goto(t, "ready")
  /\ UNCHANGED op

(* tkt = lock_.fetch_add(1): the lock is acquired exactly when tkt = 0.     *)
TryLockAdd(t) ==
  /\ pc[t] = "add"
  /\ lock_' = FetchAdd(lock_)
  /\ IF lock_ = 0
       THEN /\ is_locked_' = [is_locked_ EXCEPT ![t] = TRUE]
            /\ Goto(t, "ready")
       ELSE /\ Goto(t, "undo")
            /\ UNCHANGED is_locked_
  /\ UNCHANGED op

\* Faulty variant: the unit is given back twice, on a word that is signed.
TryLockUndoTwiceSigned(t) ==
  /\ pc[t] = "undo"
  /\ lock_' = lock_ - 2
  /\ Fail(t)
  /\ UNCHANGED <<is_locked_, op>>

\* Faulty variant: the failed attempt keeps its unit.
TryLockUndoKeepsUnit(t) ==
  /\ pc[t] = "undo"
  /\ Fail(t)
  /\ UNCHANGED <<lock_, is_locked_, op>>

TryLockUndo(t) ==
  /\ pc[t] = "undo"
  /\ lock_' = FetchSub(lock_)
  /\ Fail(t)
  /\ UNCHANGED <<is_locked_, op>>

(* Yield() between two attempts of Lock.                                    *)
LockYield(t) ==
  /\ pc[t] = "yield"
  /\ Goto(t, "load")
  /\ UNCHANGED <<lock_, is_locked_, op>>

(* The steps a thread takes inside a call: the scheduler never stops there. *)
InCall(t) == TryLockLoad(t) \/ TryLockAdd(t) \/ TryLockUndo(t) \/ LockYield(t)

Next == \E t \in Threads :
  \/ Construct(t) \/ CallLock(t) \/ CallTryLock(t)
  \/ CallUnlock(t) \/ Destruct(t)
  \/ InCall(t)

Spec == Init /\ [][Next]_vars

(* A thread inside Lock or TryLock keeps running (a preempted thread is     *)
(* scheduled again and Yield returns).  Nothing forces a thread to call, or *)
(* to leave the critical section.                                           *)
FairSpec == Spec /\ \A t \in Threads : WF_vars(InCall(t))

-----------------------------------------------------------------------------
(* The threads whose unit is in the lock word.                              *)
Claims == {t \in Threads : is_locked_[t] \/ pc[t] = "undo"}

(* At most one guard owns the mutex: the critical sections of test_lock.cc, *)
(* ticket_queue, mpsc resize and the page allocator rest on it.             *)
MutualExclusion ==
  \A s, t \in Threads : is_locked_[s] /\ is_locked_[t] => s = t

(* The word is exactly the number of units that will still be taken back,   *)
(* for every order of constructor, Lock, TryLock, Unlock and destructor: it *)
(* never wraps below zero, and a free mutex is never left marked busy.      *)
WordCountsClaims == lock_ = Cardinality(Claims)

(* The mutex implements the abstract lock.                                  *)
Abs == INSTANCE AbstractLock WITH owners <- {t \in Threads : is_locked_[t]}
ImplementsAbstractLock == Abs!Spec

(* While a thread waits in Lock the mutex does not stay free: losers of the *)
(* fetch_add race cannot keep each other out for ever.                      *)
LockNotLeftFree ==
  (\E t \in Threads : pc[t] \notin {"none", "ready"} /\ op[t] = "Lock")
     ~> (\E t \in Threads : is_locked_[t])
=============================================================================

------------------------------- MODULE RwLock -------------------------------
(***************************************************************************)
(* hshm::RwLock and its guards ScopedRwReadLock and ScopedRwWriteLock      *)
(* (thread/lock/rwlock.h).                                                 *)
(*                                                                         *)
(* The lock has a mode (kNone, kRead, kWrite), counts of the readers and   *)
(* writers that hold or want it, and tickets that queue the writers.       *)
(* Readers enter while the mode is kRead, the writer whose ticket is       *)
(* cur_writer_ enters while it is kWrite, and whoever finds a mode nobody  *)
(* uses any more resets it (UpdateMode).  Each access of an atomic is one  *)
(* action: the mode, the counter it is compared with and the exchange that *)
(* resets it are three different instants.                                 *)
(***************************************************************************)
EXTENDS Integers, FiniteSets

CONSTANTS
  Threads,      \* the threads that share the lock
  CurMod,       \* 2^32: cur_writer_ is a uint32_t, ticket_ a uint64_t
  SpuriousCAS,  \* compare_exchange_weak may fail although the values agree
  MaxCalls      \* bound: calls of ReadLock and WriteLock in a behaviour

ASSUME RwLockAssumption ==
  /\ IsFiniteSet(Threads)
  /\ CurMod \in Nat \ {0}
  /\ SpuriousCAS \in BOOLEAN
  /\ MaxCalls \in Nat

VARIABLES
  readers_, writers_, ticket_, mode_, cur_writer_,  \* the atomics
  pc,          \* each thread's step
  kind,        \* the guard it drives: "read" or "write"
  is_locked_,  \* the guard's is_locked_
  mode,        \* the local variable mode of ReadLock and WriteLock
  tkt,         \* the local variable tkt of WriteLock
  calls        \* number of calls so far, for the bound only

atomics == <<readers_, writers_, ticket_, mode_, cur_writer_>>
vars == <<atomics, pc, kind, is_locked_, mode, tkt, calls>>

Modes == {"kNone", "kRead", "kWrite"}
PCs == {"none", "ready", "count", "ticket", "load", "test", "cas", "enter",
        "reload", "turn", "turnover"}

TypeOK ==
  /\ readers_ \in Int /\ writers_ \in Int
  /\ ticket_ \in Nat /\ cur_writer_ \in 0..(CurMod - 1)
  /\ mode_ \in Modes
  /\ pc \in [Threads -> PCs]
  /\ kind \in [Threads -> {"read", "write"}]
  /\ is_locked_ \in [Threads -> BOOLEAN]
  /\ mode \in [Threads -> Modes]
  /\ tkt \in [Threads -> Nat]
  /\ calls \in Nat

Init ==
  /\ readers_ = 0 /\ writers_ = 0 /\ ticket_ = 0 /\ cur_writer_ = 0
  /\ mode_ = "kNone"
  /\ pc = [t \in Threads |-> "none"]
  /\ kind = [t \in Threads |-> "read"]
  /\ is_locked_ = [t \in Threads |-> FALSE]
  /\ mode = [t \in Threads |-> "kNone"]
  /\ tkt = [t \in Threads |-> 0]
  /\ calls = 0

Goto(t, l) == pc' = [pc EXCEPT ![t] = l]

(* The lock call returns and the guard records it.                          *)
Acquire(t) ==
  /\ Goto(t, "ready")
  /\ is_locked_' = [is_locked_ EXCEPT ![t] = TRUE]

(* Yield, then another round of the loop.                                   *)
Retry(t) == Goto(t, "load") /\ UNCHANGED is_locked_

-----------------------------------------------------------------------------
(* The guards.                                                              *)

(* A guard is made and locks at once.                                       *)
Construct(t, k) ==
  /\ pc[t] = "none" /\ calls < MaxCalls
  /\ calls' = calls + 1
  /\ kind' = [kind EXCEPT ![t] = k]
  /\ Goto(t, "count")
  /\ UNCHANGED <<atomics, is_locked_, mode, tkt>>

(* Lock on a guard that was unlocked before its end.                        *)
CallLock(t) ==
  /\ pc[t] = "ready" /\ ~is_locked_[t] /\ calls < MaxCalls
  /\ calls' = calls + 1
  /\ Goto(t, "count")
  /\ UNCHANGED <<atomics, kind, is_locked_, mode, tkt>>

\* Faulty variant: Unlock without the is_locked_ test, as a destructor after
\* an explicit Unlock would run it.
UnlockReaderAlways(t) ==
  /\ pc[t] = "ready" /\ kind[t] = "read"
  /\ readers_' = readers_ - 1
  /\ is_locked_' = [is_locked_ EXCEPT ![t] = FALSE]
  /\ UNCHANGED <<writers_, ticket_, mode_, cur_writer_, pc, kind, mode, tkt, calls>>

(* Unlock of a read guard: ReadUnlock.                                      *)
UnlockReader(t) ==
  /\ pc[t] = "ready" /\ is_locked_[t] /\ kind[t] = "read"
  /\ readers_' = readers_ - 1
  /\ is_locked_' = [is_locked_ EXCEPT ![t] = FALSE]
  /\ UNCHANGED <<writers_, ticket_, mode_, cur_writer_, pc, kind, mode, tkt, calls>>

(* Unlock of a write guard: WriteUnlock takes the writer out of the count   *)
(* and then passes the turn.                                                *)
UnlockWriter(t) ==
  /\ pc[t] = "ready" /\ is_locked_[t] /\ kind[t] = "write"
  /\ writers_' = writers_ - 1
  /\ is_locked_' = [is_locked_ EXCEPT ![t] = FALSE]
  /\ Goto(t, "turnover")
  /\ UNCHANGED <<readers_, ticket_, mode_, cur_writer_, kind, mode, tkt, calls>>

\* Faulty variant: fetch_sub where fetch_add is meant.
TurnoverBackwards(t) ==
  /\ pc[t] = "turnover"
  /\ cur_writer_' = cur_writer_ - 1
  /\ Goto(t, "ready")
  /\ UNCHANGED <<readers_, writers_, ticket_, mode_, kind, is_locked_, mode, tkt, calls>>

Turnover(t) ==
  /\ pc[t] = "turnover"
  /\ cur_writer_' = (cur_writer_ + 1) % CurMod
  /\ Goto(t, "ready")
  /\ UNCHANGED <<readers_, writers_, ticket_, mode_, kind, is_locked_, mode, tkt, calls>>

(* The guard's end; a locked guard is unlocked first.                       *)
Destruct(t) ==
  /\ pc[t] = "ready" /\ ~is_locked_[t]
  /\ Goto(t, "none")
  /\ UNCHANGED <<atomics, kind, is_locked_, mode, tkt, calls>>

-----------------------------------------------------------------------------
(* ReadLock and WriteLock.                                                  *)

(* readers_.fetch_add(1) or writers_.fetch_add(1).                          *)
CountIn(t) ==
  /\ pc[t] = "count"
  /\ IF kind[t] = "read"
       THEN /\ readers_' = readers_ + 1
            /\ Goto(t, "load")
            /\ UNCHANGED writers_
       ELSE /\ writers_' = writers_ + 1
            /\ Goto(t, "ticket")
            /\ UNCHANGED readers_
  /\ UNCHANGED <<ticket_, mode_, cur_writer_, kind, is_locked_, mode, tkt, calls>>

\* Faulty variant: the ticket is not taken, only read.
TakeTicketShared(t) ==
  /\ pc[t] = "ticket"
  /\ tkt' = [tkt EXCEPT ![t] = cur_writer_]
  /\ ticket_' = ticket_ + 1
  /\ Goto(t, "load")
  /\ UNCHANGED <<readers_, writers_, mode_, cur_writer_, kind, is_locked_, mode, calls>>

(* tkt = ticket_.fetch_add(1).                                              *)
TakeTicket(t) ==
  /\ pc[t] = "ticket"
  /\ tkt' = [tkt EXCEPT ![t] = ticket_]
  /\ ticket_' = ticket_ + 1
  /\ Goto(t, "load")
  /\ UNCHANGED <<readers_, writers_, mode_, cur_writer_, kind, is_locked_, mode, calls>>

(* What the loop does once UpdateMode has left m in the local variable.     *)
Decide(t, m) ==
  CASE m = "kNone" -> Goto(t, "enter") /\ UNCHANGED is_locked_
    [] m = "kRead" -> IF kind[t] = "read" THEN Acquire(t) ELSE Retry(t)
    [] m = "kWrite" -> IF kind[t] = "write"
                         THEN Goto(t, "turn") /\ UNCHANGED is_locked_
                         ELSE Retry(t)

(* UpdateMode: mode = mode_.load().                                         *)
LoadMode(t) ==
  /\ pc[t] = "load"
  /\ mode' = [mode EXCEPT ![t] = mode_]
  /\ Goto(t, "test")
  /\ UNCHANGED <<atomics, kind, is_locked_, tkt, calls>>

\* Faulty variant: nobody resets the mode after the last reader.
ModeUnusedWriteOnly(m) == m = "kWrite" /\ writers_ = 0

(* The counter of the mode m is zero now.                                   *)
ModeUnused(m) ==
  \/ m = "kRead" /\ readers_ = 0
  \/ m = "kWrite" /\ writers_ = 0

(* UpdateMode: the counter that goes with the loaded mode is loaded.        *)
TestCounter(t) ==
  /\ pc[t] = "test"
  /\ IF ModeUnused(mode[t])
       THEN Goto(t, "cas") /\ UNCHANGED is_locked_
       ELSE Decide(t, mode[t])
  /\ UNCHANGED <<atomics, kind, mode, tkt, calls>>

(* UpdateMode: compare_exchange_weak(mode, kNone).  On success the local    *)
(* variable keeps the old mode, on failure it gets the current one.         *)
ResetMode(t) ==
  /\ pc[t] = "cas"
  /\ \/ /\ mode_ = mode[t]
        /\ mode_' = "kNone"
        /\ Decide(t, mode[t])
        /\ UNCHANGED mode
     \/ /\ mode_ # mode[t] \/ SpuriousCAS
        /\ mode' = [mode EXCEPT ![t] = mode_]
        /\ Decide(t, mode_)
        /\ UNCHANGED mode_
  /\ UNCHANGED <<readers_, writers_, ticket_, cur_writer_, kind, tkt, calls>>

(* A reader's compare_exchange_weak(kNone, kRead).                          *)
EnterRead(t) ==
  /\ pc[t] = "enter" /\ kind[t] = "read"
  /\ \/ mode_ = "kNone" /\ mode_' = "kRead" /\ Acquire(t)
     \/ (mode_ # "kNone" \/ SpuriousCAS) /\ Retry(t) /\ UNCHANGED mode_
  /\ UNCHANGED <<readers_, writers_, ticket_, cur_writer_, kind, mode, tkt, calls>>

(* A writer's compare_exchange_weak(kNone, kWrite).                         *)
EnterWrite(t) ==
  /\ pc[t] = "enter" /\ kind[t] = "write"
  /\ \/ mode_ = "kNone" /\ mode_' = "kWrite"
     \/ (mode_ # "kNone" \/ SpuriousCAS) /\ UNCHANGED mode_
  /\ Goto(t, "reload")
  /\ UNCHANGED <<readers_, writers_, ticket_, cur_writer_, kind, is_locked_,
                 mode, tkt, calls>>

(* mode = mode_.load() after the exchange.                                  *)
ReloadMode(t) ==
  /\ pc[t] = "reload"
  /\ mode' = [mode EXCEPT ![t] = mode_]
  /\ Goto(t, IF mode_ = "kWrite" THEN "turn" ELSE "load")
  /\ UNCHANGED <<atomics, kind, is_locked_, tkt, calls>>

\* Faulty variant: a writer enters in write mode without its turn.
TestTurnIgnored(t) ==
  /\ pc[t] = "turn"
  /\ Acquire(t)
  /\ UNCHANGED <<atomics, kind, mode, tkt, calls>>

(* cur_writer_.load() == tkt.                                               *)
TestTurn(t) ==
  /\ pc[t] = "turn"
  /\ IF cur_writer_ = tkt[t] THEN Acquire(t) ELSE Retry(t)
  /\ UNCHANGED <<atomics, kind, mode, tkt, calls>>

InCall(t) ==
  \/ CountIn(t) \/ TakeTicket(t) \/ LoadMode(t) \/ TestCounter(t)
  \/ ResetMode(t) \/ EnterRead(t) \/ EnterWrite(t) \/ ReloadMode(t)
  \/ TestTurn(t) \/ Turnover(t)

Unlock(t) == UnlockReader(t) \/ UnlockWriter(t)

(* Nothing left to do: every guard is gone and the calls are used up.       *)
Finished ==
  /\ calls = MaxCalls /\ \A t \in Threads : pc[t] = "none"
  /\ UNCHANGED vars

Next ==
  \/ \E t \in Threads :
       \/ \E k \in {"read", "write"} : Construct(t, k)
       \/ CallLock(t) \/ Unlock(t) \/ Destruct(t)
       \/ InCall(t)
  \/ Finished

Spec == Init /\ [][Next]_vars

(* A compare_exchange_weak of t that changes the mode.                      *)
Exchanges(t) ==
  /\ ResetMode(t) \/ EnterRead(t) \/ EnterWrite(t)
  /\ mode_' # mode_

(* Threads inside a call keep running, critical sections end, and an        *)
(* exchange that finds the value it expects again and again does not fail   *)
(* spuriously every time.                                                   *)
FairSpec ==
  Spec /\ \A t \in Threads :
    WF_vars(InCall(t)) /\ WF_vars(Unlock(t)) /\ SF_vars(Exchanges(t))

-----------------------------------------------------------------------------
Readers == {t \in Threads : kind[t] = "read" /\ is_locked_[t]}
Writers == {t \in Threads : kind[t] = "write" /\ is_locked_[t]}
Waiting == {t \in Threads : pc[t] \notin {"none", "ready", "turnover"}}

(* The threads whose unit is in writers_, and those whose unit is in        *)
(* readers_: they hold the lock or want it.                                 *)
Counted(k) == {t \in Threads : /\ kind[t] = k
                               /\ \/ is_locked_[t]
                                  \/ t \in Waiting /\ pc[t] # "count"}

(* Writers that have a ticket and have not passed the turn yet.             *)
Queued == {t \in Threads : /\ kind[t] = "write"
                           /\ \/ is_locked_[t]
                              \/ pc[t] = "turnover"
                              \/ t \in Waiting /\ pc[t] \notin {"count", "ticket"}}

(* At most one writer is inside.                                            *)
WriterExclusion == \A s, t \in Writers : s = t

(* Writers enter in the order of their tickets: the one inside precedes     *)
(* every other one that has a ticket.                                       *)
WritersInTicketOrder ==
  \A s \in Writers, t \in Queued : s # t => tkt[s] < tkt[t]

(* The counters are the numbers of threads that hold or want the lock, for  *)
(* every sequence of calls on the guards: neither wraps below zero, and     *)
(* neither keeps a mode alive after its last user is gone.                  *)
CountersExact ==
  /\ readers_ = Cardinality(Counted("read"))
  /\ writers_ = Cardinality(Counted("write"))

(* No reader is inside together with a writer.                              *)
ReaderWriterExclusion == Readers = {} \/ Writers = {}

(* As long as critical sections end, every call of ReadLock and WriteLock   *)
(* returns once no new calls compete with it (the calls are finitely many,  *)
(* as in test_lock.cc).                                                     *)
EveryCallReturns == \A t \in Threads : t \in Waiting ~> t \notin Waiting
=============================================================================

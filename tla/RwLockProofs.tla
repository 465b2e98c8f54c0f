---------------------------- MODULE RwLockProofs ----------------------------
(***************************************************************************)
(* The writers' side of hshm::RwLock for every finite set of threads and   *)
(* every width of cur_writer_: the tickets let one writer in at a time, in *)
(* the order in which they were drawn, and both counters are exact.        *)
(***************************************************************************)
EXTENDS RwLock, FiniteSetTheorems, TLAPS

(* A guard that holds the lock is outside of every call.                    *)
LockedIsReady == \A t \in Threads : is_locked_[t] => pc[t] = "ready"

(* Only a write guard has a ticket to draw, a turn to await or to pass.     *)
WriterSteps ==
  \A t \in Threads : pc[t] \in {"ticket", "reload", "turn", "turnover"} => kind[t] = "write"

(* The tickets of the queue are distinct and none of them is past.          *)
TicketsAhead ==
  /\ cur_writer_ <= ticket_
  /\ \A t \in Queued : cur_writer_ <= tkt[t] /\ tkt[t] < ticket_
TicketsUnique == \A s, t \in Queued : tkt[s] = tkt[t] => s = t

(* The turn belongs to whoever is inside or about to pass it.               *)
HasTurn(t) == kind[t] = "write" /\ (is_locked_[t] \/ pc[t] = "turnover")
TurnHeld == \A t \in Threads : HasTurn(t) => tkt[t] = cur_writer_

IInv == /\ TypeOK /\ LockedIsReady /\ WriterSteps
        /\ TicketsAhead /\ TicketsUnique /\ TurnHeld
        /\ CountersExact

-----------------------------------------------------------------------------
(* One counter of the lock against the set of threads it counts.            *)
LEMMA CountedFinite ==
  ASSUME NEW k \in {"read", "write"}
  PROVE  IsFiniteSet(Counted(k)) /\ Cardinality(Counted(k)) \in Nat
<1>1. Counted(k) \subseteq Threads
  BY DEF Counted
<1> QED
  BY <1>1, FS_Subset, FS_CardinalityType, RwLockAssumption

(* A counter that is the size of a set follows an element that comes in.    *)
LEMMA UnitAdded ==
  ASSUME NEW S, IsFiniteSet(S), NEW t, t \notin S, NEW n \in Int,
         n = Cardinality(S)
  PROVE  n + 1 = Cardinality(S \cup {t})
BY FS_AddElement

(* A counter that is the size of a set follows an element that leaves.      *)
LEMMA UnitRemoved ==
  ASSUME NEW S, IsFiniteSet(S), NEW t \in S, NEW n \in Int,
         n = Cardinality(S)
  PROVE  n - 1 = Cardinality(S \ {t})
BY FS_RemoveElement

(* Passing the turn never moves it beyond the next ticket, not even when    *)
(* cur_writer_ wraps.                                                       *)
LEMMA TurnArithmetic ==
  ASSUME NEW n \in Nat
  PROVE  (n + 1) % CurMod \in 0..(CurMod - 1) /\ (n + 1) % CurMod <= n + 1
BY RwLockAssumption, SMT

-----------------------------------------------------------------------------
(* A free lock and idle threads satisfy the invariant.                      *)
LEMMA InitInvariant == Init => IInv
<1> SUFFICES ASSUME Init PROVE IInv
  OBVIOUS
<1>1. TypeOK
  BY RwLockAssumption DEF Init, TypeOK, PCs, Modes
<1>2. Queued = {} /\ Counted("read") = {} /\ Counted("write") = {}
  BY DEF Init, Queued, Counted, Waiting
<1>3. CountersExact
  BY <1>2, FS_EmptySet DEF Init, CountersExact
<1> QED
  BY <1>1, <1>2, <1>3
  DEF Init, IInv, LockedIsReady, WriterSteps, TicketsAhead, TicketsUnique,
      TurnHeld, HasTurn

(* The steps of a waiting thread that has its unit and its ticket.          *)
InLoop == {"load", "test", "cas", "enter", "reload", "turn"}

(* A step of the loop that neither enters nor leaves the lock.              *)
LEMMA LoopStep ==
  ASSUME IInv, NEW t \in Threads, pc[t] \in InLoop, NEW l \in InLoop,
         l \in {"reload", "turn"} => kind[t] = "write",
         pc' = [pc EXCEPT ![t] = l], mode_' \in Modes,
         mode' \in [Threads -> Modes],
         UNCHANGED <<readers_, writers_, ticket_, cur_writer_, kind, is_locked_,
                     tkt, calls>>
  PROVE  IInv'
<1> USE DEF IInv, InLoop, PCs
<1>1. TypeOK'
  BY DEF TypeOK
<1>2. LockedIsReady' /\ WriterSteps'
  BY DEF TypeOK, LockedIsReady, WriterSteps
<1>3. Queued' = Queued
  BY DEF TypeOK, Queued, Waiting
<1>4. Counted("read")' = Counted("read") /\ Counted("write")' = Counted("write")
  BY DEF TypeOK, Counted, Waiting
<1>5. TurnHeld'
  BY DEF TypeOK, TurnHeld, HasTurn
<1> QED
  BY <1>1, <1>2, <1>3, <1>4, <1>5 DEF TicketsAhead, TicketsUnique, CountersExact

(* A step of the loop that enters the lock: a writer only at its turn.      *)
LEMMA EnterStep ==
  ASSUME IInv, NEW t \in Threads, pc[t] \in InLoop, Acquire(t),
         kind[t] = "write" => tkt[t] = cur_writer_,
         mode_' \in Modes, mode' \in [Threads -> Modes],
         UNCHANGED <<readers_, writers_, ticket_, cur_writer_, kind, tkt, calls>>
  PROVE  IInv'
<1> USE DEF IInv, InLoop, PCs
<1>1. TypeOK'
  BY DEF TypeOK, Acquire, Goto
<1>2. LockedIsReady' /\ WriterSteps'
  BY DEF TypeOK, LockedIsReady, WriterSteps, Acquire, Goto
<1>3. Queued' = Queued
  BY DEF TypeOK, Queued, Waiting, Acquire, Goto
<1>4. Counted("read")' = Counted("read") /\ Counted("write")' = Counted("write")
  BY DEF TypeOK, Counted, Waiting, Acquire, Goto
<1>5. TurnHeld'
  BY DEF TypeOK, TurnHeld, HasTurn, Acquire, Goto
<1> QED
  BY <1>1, <1>2, <1>3, <1>4, <1>5 DEF TicketsAhead, TicketsUnique, CountersExact

(* What follows UpdateMode is one or the other.                             *)
LEMMA DecideStep ==
  ASSUME IInv, NEW t \in Threads, pc[t] \in InLoop,
         NEW m \in Modes, Decide(t, m),
         mode_' \in Modes, mode' \in [Threads -> Modes],
         UNCHANGED <<readers_, writers_, ticket_, cur_writer_, kind, tkt, calls>>
  PROVE  IInv'
<1>k. kind[t] \in {"read", "write"}
  BY DEF IInv, TypeOK
<1>1. CASE m = "kRead" /\ kind[t] = "read"
  BY <1>1, EnterStep DEF Decide
<1>2. CASE ~(m = "kRead" /\ kind[t] = "read")
  <2>1. UNCHANGED is_locked_
    BY <1>2, <1>k DEF Decide, Retry, Modes
  <2>2. \E l \in InLoop : /\ l \in {"reload", "turn"} => kind[t] = "write"
                          /\ pc' = [pc EXCEPT ![t] = l]
    BY <1>2, <1>k DEF Decide, Retry, Goto, Modes, InLoop
  <2> QED
    BY <2>1, <2>2, LoopStep
<1> QED
  BY <1>1, <1>2

(* A thread outside of every call that holds nothing begins a call or ends. *)
LEMMA OutsideStep ==
  ASSUME IInv, NEW t \in Threads, pc[t] \in {"none", "ready"}, ~is_locked_[t],
         NEW l \in {"none", "count"}, pc' = [pc EXCEPT ![t] = l],
         NEW k \in {"read", "write"}, kind' = [kind EXCEPT ![t] = k],
         calls' \in Nat, UNCHANGED <<atomics, is_locked_, mode, tkt>>
  PROVE  IInv'
<1> USE DEF IInv, PCs
<1>1. TypeOK'
  BY DEF TypeOK, atomics
<1>2. LockedIsReady' /\ WriterSteps'
  BY DEF TypeOK, LockedIsReady, WriterSteps
<1>3. Queued' = Queued
  BY DEF TypeOK, Queued, Waiting
<1>4. Counted("read")' = Counted("read") /\ Counted("write")' = Counted("write")
  BY DEF TypeOK, Counted, Waiting
<1>5. TurnHeld'
  BY DEF TypeOK, TurnHeld, HasTurn, atomics
<1> QED
  BY <1>1, <1>2, <1>3, <1>4, <1>5
  DEF TicketsAhead, TicketsUnique, CountersExact, atomics

(* fetch_add of readers_ or writers_.                                       *)
LEMMA CountInStep ==
  ASSUME IInv, NEW t \in Threads, CountIn(t)
  PROVE  IInv'
<1> USE DEF IInv, PCs
<1>k. kind[t] \in {"read", "write"}
  BY DEF TypeOK
<1>0. ~is_locked_[t] /\ pc[t] = "count"
  BY DEF LockedIsReady, CountIn
<1>1. PICK l \in {"load", "ticket"} :
        /\ pc' = [pc EXCEPT ![t] = l]
        /\ l = "load" <=> kind[t] = "read"
  BY <1>k DEF CountIn, Goto
<1>2. TypeOK'
  BY <1>1 DEF TypeOK, CountIn
<1>3. LockedIsReady' /\ WriterSteps'
  BY <1>0, <1>1, <1>k DEF TypeOK, LockedIsReady, WriterSteps, CountIn
<1>4. Queued' = Queued
  BY <1>0, <1>1 DEF TypeOK, Queued, Waiting, CountIn
<1>5. CountersExact'
  <2>1. CASE kind[t] = "read"
    <3>1. Counted("write")' = Counted("write")
      BY <1>0, <1>1, <2>1 DEF TypeOK, Counted, Waiting, CountIn
    <3>2. t \notin Counted("read")
      BY <1>0 DEF Counted
    <3>3. Counted("read")' = Counted("read") \cup {t}
      BY <1>0, <1>1, <2>1 DEF TypeOK, Counted, Waiting, CountIn
    <3> QED
      BY <2>1, <3>1, <3>2, <3>3, CountedFinite, UnitAdded
      DEF TypeOK, CountersExact, CountIn
  <2>2. CASE kind[t] = "write"
    <3>1. Counted("read")' = Counted("read")
      BY <1>0, <1>1, <2>2 DEF TypeOK, Counted, Waiting, CountIn
    <3>2. t \notin Counted("write")
      BY <1>0 DEF Counted
    <3>3. Counted("write")' = Counted("write") \cup {t}
      BY <1>0, <1>1, <2>2 DEF TypeOK, Counted, Waiting, CountIn
    <3> QED
      BY <2>2, <3>1, <3>2, <3>3, CountedFinite, UnitAdded
      DEF TypeOK, CountersExact, CountIn
  <2> QED
    BY <2>1, <2>2, <1>k
<1>6. TurnHeld'
  BY <1>0, <1>1 DEF TypeOK, TurnHeld, HasTurn, CountIn
<1> QED
  BY <1>2, <1>3, <1>4, <1>5, <1>6 DEF TicketsAhead, TicketsUnique, CountIn

(* fetch_add of ticket_: the new ticket is larger than every other.         *)
LEMMA TakeTicketStep ==
  ASSUME IInv, NEW t \in Threads, TakeTicket(t)
  PROVE  IInv'
<1> USE DEF IInv, PCs
<1>0. ~is_locked_[t] /\ pc[t] = "ticket" /\ kind[t] = "write"
  BY DEF LockedIsReady, WriterSteps, TakeTicket
<1>1. TypeOK'
  BY DEF TypeOK, TakeTicket, Goto
<1>2. LockedIsReady' /\ WriterSteps'
  BY <1>0 DEF TypeOK, LockedIsReady, WriterSteps, TakeTicket, Goto
<1>3. t \notin Queued /\ Queued' = Queued \cup {t}
  BY <1>0 DEF TypeOK, Queued, Waiting, TakeTicket, Goto
<1>4. Counted("read")' = Counted("read") /\ Counted("write")' = Counted("write")
  BY <1>0 DEF TypeOK, Counted, Waiting, TakeTicket, Goto
<1>5. \A s \in Queued : s \in Threads /\ tkt'[s] = tkt[s]
  BY <1>3 DEF TypeOK, Queued, TakeTicket
<1>6. tkt'[t] = ticket_ /\ ticket_' = ticket_ + 1 /\ UNCHANGED cur_writer_
  BY DEF TypeOK, TakeTicket
<1>7. TicketsAhead' /\ TicketsUnique'
  BY <1>3, <1>5, <1>6 DEF TypeOK, TicketsAhead, TicketsUnique
<1>8. TurnHeld'
  BY <1>0 DEF TypeOK, TurnHeld, HasTurn, TakeTicket, Goto
<1> QED
  BY <1>1, <1>2, <1>4, <1>7, <1>8 DEF CountersExact, TakeTicket

(* ReadUnlock: the reader leaves its counter.                               *)
LEMMA UnlockReaderStep ==
  ASSUME IInv, NEW t \in Threads, UnlockReader(t)
  PROVE  IInv'
<1> USE DEF IInv, PCs
<1>0. is_locked_[t] /\ pc[t] = "ready" /\ kind[t] = "read"
  BY DEF UnlockReader
<1>1. TypeOK'
  BY DEF TypeOK, UnlockReader
<1>2. LockedIsReady' /\ WriterSteps'
  BY DEF TypeOK, LockedIsReady, WriterSteps, UnlockReader
<1>3. Queued' = Queued
  BY <1>0 DEF TypeOK, Queued, Waiting, UnlockReader
<1>4. t \in Counted("read") /\ Counted("read")' = Counted("read") \ {t}
  BY <1>0 DEF TypeOK, Counted, Waiting, UnlockReader
<1>5. Counted("write")' = Counted("write")
  BY <1>0 DEF TypeOK, Counted, Waiting, UnlockReader
<1>6. CountersExact'
  BY <1>4, <1>5, CountedFinite, UnitRemoved
  DEF TypeOK, CountersExact, UnlockReader
<1>7. TurnHeld'
  BY <1>0 DEF TypeOK, TurnHeld, HasTurn, UnlockReader
<1> QED
  BY <1>1, <1>2, <1>3, <1>6, <1>7 DEF TicketsAhead, TicketsUnique, UnlockReader

(* WriteUnlock, first part: the writer keeps the turn until it has passed   *)
(* it on.                                                                   *)
LEMMA UnlockWriterStep ==
  ASSUME IInv, NEW t \in Threads, UnlockWriter(t)
  PROVE  IInv'
<1> USE DEF IInv, PCs
<1>0. is_locked_[t] /\ pc[t] = "ready" /\ kind[t] = "write"
  BY DEF UnlockWriter
<1>1. TypeOK'
  BY DEF TypeOK, UnlockWriter, Goto
<1>2. LockedIsReady' /\ WriterSteps'
  BY <1>0 DEF TypeOK, LockedIsReady, WriterSteps, UnlockWriter, Goto
<1>3. Queued' = Queued
  BY <1>0 DEF TypeOK, Queued, Waiting, UnlockWriter, Goto
<1>4. t \in Counted("write") /\ Counted("write")' = Counted("write") \ {t}
  BY <1>0 DEF TypeOK, Counted, Waiting, UnlockWriter, Goto
<1>5. Counted("read")' = Counted("read")
  BY <1>0 DEF TypeOK, Counted, Waiting, UnlockWriter, Goto
<1>6. CountersExact'
  BY <1>4, <1>5, CountedFinite, UnitRemoved
  DEF TypeOK, CountersExact, UnlockWriter
<1>7. TurnHeld'
  BY <1>0 DEF TypeOK, TurnHeld, HasTurn, UnlockWriter, Goto
<1> QED
  BY <1>1, <1>2, <1>3, <1>6, <1>7 DEF TicketsAhead, TicketsUnique, UnlockWriter

(* cur_writer_ moves to the next ticket, which at most one waiting writer   *)
(* has.                                                                     *)
LEMMA TurnoverStep ==
  ASSUME IInv, NEW t \in Threads, Turnover(t)
  PROVE  IInv'
<1> USE DEF IInv, PCs
<1>0. ~is_locked_[t] /\ pc[t] = "turnover" /\ kind[t] = "write"
  BY DEF LockedIsReady, WriterSteps, Turnover
<1>1. cur_writer_ \in Nat /\ ticket_ \in Nat /\ \A s \in Threads : tkt[s] \in Nat
  BY RwLockAssumption DEF TypeOK
<1>2. cur_writer_' \in 0..(CurMod - 1) /\ cur_writer_' <= cur_writer_ + 1
  BY <1>1, TurnArithmetic DEF Turnover
<1>3. TypeOK'
  BY <1>2 DEF TypeOK, Turnover, Goto
<1>4. LockedIsReady' /\ WriterSteps'
  BY <1>0 DEF TypeOK, LockedIsReady, WriterSteps, Turnover, Goto
<1>5. t \in Queued /\ Queued' = Queued \ {t}
  BY <1>0 DEF TypeOK, Queued, Waiting, Turnover, Goto
<1>6. Counted("read")' = Counted("read") /\ Counted("write")' = Counted("write")
  BY <1>0 DEF TypeOK, Counted, Waiting, Turnover, Goto
<1>7. tkt[t] = cur_writer_
  BY <1>0 DEF TurnHeld, HasTurn
<1>8. \A s \in Queued \ {t} : tkt[s] # cur_writer_
  BY <1>5, <1>7 DEF TicketsUnique
<1>9. \A s \in Queued : s \in Threads
  BY DEF Queued
<1>10. cur_writer_' \in Nat /\ UNCHANGED <<ticket_, tkt>>
  BY <1>2, RwLockAssumption DEF Turnover
<1>11. TicketsAhead'
  <2>1. cur_writer_' <= ticket_
    BY <1>1, <1>2, <1>5, <1>7, <1>10 DEF TicketsAhead
  <2>2. ASSUME NEW s \in Queued \ {t} PROVE cur_writer_' <= tkt[s] /\ tkt[s] < ticket_
    BY <1>1, <1>2, <1>8, <1>9, <1>10, <2>2 DEF TicketsAhead
  <2> QED
    BY <1>5, <1>10, <2>1, <2>2 DEF TicketsAhead
<1>12. TicketsUnique'
  BY <1>5, <1>10 DEF TicketsUnique
<1>13. TurnHeld'
  <2>1. ASSUME NEW s \in Threads, HasTurn(s)' PROVE FALSE
    <3>1. s # t /\ HasTurn(s)
      BY <1>0, <2>1 DEF TypeOK, HasTurn, Turnover, Goto
    <3>2. s \in Queued
      BY <3>1 DEF HasTurn, Queued
    <3> QED
      BY <1>8, <3>1, <3>2 DEF TurnHeld
  <2> QED
    BY <2>1 DEF TurnHeld
<1> QED
  BY <1>3, <1>4, <1>6, <1>11, <1>12, <1>13 DEF CountersExact, Turnover

-----------------------------------------------------------------------------
(* Every step of readers and writers preserves the invariant.               *)
LEMMA NextInvariant == IInv /\ [Next]_vars => IInv'
<1> SUFFICES ASSUME IInv, [Next]_vars PROVE IInv'
  OBVIOUS
<1>a. TypeOK /\ LockedIsReady /\ WriterSteps
  BY DEF IInv
<1>1. ASSUME NEW t \in Threads, NEW k \in {"read", "write"}, Construct(t, k)
      PROVE  IInv'
  <2>1. ~is_locked_[t]
    BY <1>a, <1>1 DEF LockedIsReady, Construct
  <2>2. calls' \in Nat
    BY <1>a, <1>1 DEF TypeOK, Construct
  <2> QED
    BY <1>1, <2>1, <2>2, OutsideStep DEF Construct, Goto
<1>2. ASSUME NEW t \in Threads, CallLock(t) \/ Destruct(t) PROVE IInv'
  <2>1. kind[t] \in {"read", "write"} /\ kind' = [kind EXCEPT ![t] = kind[t]]
    BY <1>a, <1>2 DEF TypeOK, CallLock, Destruct
  <2>2. calls' \in Nat
    BY <1>a, <1>2 DEF TypeOK, CallLock, Destruct
  <2> QED
    BY <1>2, <2>1, <2>2, OutsideStep DEF CallLock, Destruct, Goto
<1>3. ASSUME NEW t \in Threads, Unlock(t) PROVE IInv'
  BY <1>3, UnlockReaderStep, UnlockWriterStep DEF Unlock
<1>4. ASSUME NEW t \in Threads, CountIn(t) \/ TakeTicket(t) \/ Turnover(t)
      PROVE  IInv'
  BY <1>4, CountInStep, TakeTicketStep, TurnoverStep
<1>5. ASSUME NEW t \in Threads, LoadMode(t) PROVE IInv'
  <2>1. mode_' \in Modes /\ mode' \in [Threads -> Modes]
    BY <1>a, <1>5 DEF TypeOK, LoadMode, atomics
  <2> QED
    BY <1>5, <2>1, LoopStep DEF LoadMode, Goto, InLoop, atomics
<1>6. ASSUME NEW t \in Threads, TestCounter(t) PROVE IInv'
  <2>1. mode_' \in Modes /\ mode' \in [Threads -> Modes] /\ mode[t] \in Modes
    BY <1>a, <1>6 DEF TypeOK, TestCounter, atomics
  <2>2. CASE ModeUnused(mode[t])
    BY <1>6, <2>1, <2>2, LoopStep DEF TestCounter, Goto, InLoop, atomics
  <2>3. CASE ~ModeUnused(mode[t])
    BY <1>6, <2>1, <2>3, DecideStep DEF TestCounter, InLoop, atomics
  <2> QED
    BY <2>2, <2>3
<1>7. ASSUME NEW t \in Threads, ResetMode(t) PROVE IInv'
  <2>1. mode_' \in Modes /\ mode' \in [Threads -> Modes] /\ mode[t] \in Modes
    BY <1>a, <1>7 DEF TypeOK, ResetMode, Modes
  <2>2. \E m \in Modes : Decide(t, m)
    BY <1>a, <1>7, <2>1 DEF TypeOK, ResetMode
  <2> QED
    BY <1>7, <2>1, <2>2, DecideStep DEF ResetMode, InLoop
<1>8. ASSUME NEW t \in Threads, EnterRead(t) PROVE IInv'
  <2>1. mode_' \in Modes /\ mode' \in [Threads -> Modes]
    BY <1>a, <1>8 DEF TypeOK, EnterRead, Modes
  <2>2. CASE Acquire(t)
    BY <1>8, <2>1, <2>2, EnterStep DEF EnterRead, InLoop
  <2>3. CASE Retry(t)
    BY <1>8, <2>1, <2>3, LoopStep DEF EnterRead, Retry, Goto, InLoop
  <2> QED
    BY <1>8, <2>2, <2>3 DEF EnterRead
<1>9. ASSUME NEW t \in Threads, EnterWrite(t) PROVE IInv'
  <2>1. mode_' \in Modes /\ mode' \in [Threads -> Modes]
    BY <1>a, <1>9 DEF TypeOK, EnterWrite, Modes
  <2> QED
    BY <1>9, <2>1, LoopStep DEF EnterWrite, Goto, InLoop
<1>10. ASSUME NEW t \in Threads, ReloadMode(t) PROVE IInv'
  <2>1. mode_' \in Modes /\ mode' \in [Threads -> Modes]
    BY <1>a, <1>10 DEF TypeOK, ReloadMode, atomics
  <2>2. kind[t] = "write"
    BY <1>a, <1>10 DEF WriterSteps, ReloadMode
  <2> QED
    BY <1>10, <2>1, <2>2, LoopStep DEF ReloadMode, Goto, InLoop, atomics
<1>11. ASSUME NEW t \in Threads, TestTurn(t) PROVE IInv'
  <2>1. mode_' \in Modes /\ mode' \in [Threads -> Modes]
    BY <1>a, <1>11 DEF TypeOK, TestTurn, atomics
  <2>2. CASE cur_writer_ = tkt[t]
    BY <1>11, <2>1, <2>2, EnterStep DEF TestTurn, InLoop, atomics
  <2>3. CASE cur_writer_ # tkt[t]
    BY <1>11, <2>1, <2>3, LoopStep DEF TestTurn, Retry, Goto, InLoop, atomics
  <2> QED
    BY <2>2, <2>3
<1>12. CASE UNCHANGED vars
  <2>1. Queued' = Queued
    BY <1>12 DEF vars, Queued, Waiting
  <2>2. Counted("read")' = Counted("read") /\ Counted("write")' = Counted("write")
    BY <1>12 DEF vars, Counted, Waiting
  <2> QED
    BY <1>12, <2>1, <2>2
    DEF vars, atomics, IInv, TypeOK, LockedIsReady, WriterSteps, TicketsAhead,
        TicketsUnique, TurnHeld, HasTurn, CountersExact
<1> QED
  BY <1>1, <1>2, <1>3, <1>4, <1>5, <1>6, <1>7, <1>8, <1>9, <1>10, <1>11, <1>12
  DEF Next, InCall, Finished

(* Every reachable state satisfies the inductive invariant.                 *)
THEOREM RwLockInvariant == Spec => []IInv
  BY InitInvariant, NextInvariant, PTL DEF Spec

(* cur_writer_ stays inside its width; tickets and steps keep their types.  *)
THEOREM RwLockTypeCorrect == Spec => []TypeOK
  BY RwLockInvariant, PTL DEF IInv

(* readers_ and writers_ never wrap and count exactly the guards that hold  *)
(* or want the lock, whatever the interleaving.                             *)
THEOREM RwLockCountersExact == Spec => []CountersExact
  BY RwLockInvariant, PTL DEF IInv

(* Two write guards never hold the lock together.                           *)
THEOREM RwLockWriterExclusion == Spec => []WriterExclusion
<1>1. IInv => WriterExclusion
  BY DEF IInv, TurnHeld, HasTurn, TicketsUnique, Queued, Writers, WriterExclusion
<1> QED
  BY <1>1, RwLockInvariant, PTL

(* The writer inside precedes every other one that has drawn a ticket.      *)
THEOREM RwLockTicketOrder == Spec => []WritersInTicketOrder
<1>1. IInv => WritersInTicketOrder
  <2> SUFFICES ASSUME IInv, NEW s \in Writers, NEW t \in Queued, s # t
               PROVE  tkt[s] < tkt[t]
    BY DEF WritersInTicketOrder
  <2>1. s \in Queued /\ tkt[s] = cur_writer_
    BY DEF IInv, TurnHeld, HasTurn, Queued, Writers
  <2>2. tkt[s] # tkt[t] /\ cur_writer_ <= tkt[t]
    BY <2>1 DEF IInv, TicketsUnique, TicketsAhead
  <2>3. tkt[s] \in Nat /\ tkt[t] \in Nat
    BY <2>1 DEF IInv, TypeOK, Queued
  <2> QED
    BY <2>1, <2>2, <2>3
<1> QED
  BY <1>1, RwLockInvariant, PTL
=============================================================================

---------------------------- MODULE LogSysProofs -----------------------------
(***************************************************************************)
(* Theorems about the writing and flushing of the redo log: write_lock and *)
(* flush_lock do what LogSysLemmas assumes of them, since they are the     *)
(* lock of GroupCommitProofs; so its invariant holds, and the properties   *)
(* of LogSys with it.                                                      *)
(***************************************************************************)
EXTENDS LogSysLemmas

(* The two locks are the lock of GroupCommitProofs, whose lemmas about an    *)
(* arbitrary user are used here.                                             *)

WL == INSTANCE GroupCommitProofs WITH
    Callback <- Lsn, MaxValue <- MaxLsn + 1, m_value <- w_value,
    m_pending_value <- w_pending, m_lock <- w_lock,
    m_waiters_list <- w_waiters, m_pending_callbacks <- w_callbacks,
    call <- w_call, completed <- w_completed, issued <- {}

FL == INSTANCE GroupCommitProofs WITH
    Callback <- Lsn, MaxValue <- MaxLsn + 1, m_value <- f_value,
    m_pending_value <- f_pending, m_lock <- f_lock,
    m_waiters_list <- f_waiters, m_pending_callbacks <- f_callbacks,
    call <- f_call, completed <- f_completed, issued <- {}

\* A step of write_lock is a step of the lock.
LEMMA WriteSteps ==
  ASSUME NEW t \in Thread, write_lock!Step(t)
  PROVE  WL!Step(t)
<1> USE Zenon
<1> write_lock!FastPath(t) => WL!FastPath(t)
  BY DEF write_lock!FastPath, WL!FastPath, write_lock!Goto, WL!Goto,
     write_lock!OwnCallback, WL!OwnCallback, write_lock!Complete,
     WL!Complete, write_lock!ReturnExpired, WL!ReturnExpired,
     write_lock!lockVars, WL!lockVars
<1> write_lock!LoopTest(t) => WL!LoopTest(t)
  BY DEF write_lock!LoopTest, WL!LoopTest, write_lock!Goto, WL!Goto,
     write_lock!OwnCallback, WL!OwnCallback, write_lock!Complete,
     WL!Complete, write_lock!ReturnExpired, WL!ReturnExpired,
     write_lock!lockVars, WL!lockVars
<1> write_lock!AcquireExpired(t) => WL!AcquireExpired(t)
  BY DEF write_lock!AcquireExpired, WL!AcquireExpired,
     write_lock!Goto, WL!Goto, write_lock!OwnCallback, WL!OwnCallback,
     write_lock!Complete, WL!Complete, write_lock!ReturnExpired,
     WL!ReturnExpired, write_lock!lockVars, WL!lockVars,
     write_lock!ExpiredUnderMutex, WL!ExpiredUnderMutex
<1> write_lock!AcquireLock(t) => WL!AcquireLock(t)
  BY DEF write_lock!AcquireLock, WL!AcquireLock, write_lock!Goto,
     WL!Goto, write_lock!OwnCallback, WL!OwnCallback,
     write_lock!QueueCallback, WL!QueueCallback,
     write_lock!ExpiredUnderMutex, WL!ExpiredUnderMutex
<1> write_lock!AcquireQueue(t) => WL!AcquireQueue(t)
  BY DEF write_lock!AcquireQueue, WL!AcquireQueue, write_lock!Goto,
     WL!Goto, write_lock!OwnCallback, WL!OwnCallback,
     write_lock!QueueCallback, WL!QueueCallback,
     write_lock!ExpiredUnderMutex, WL!ExpiredUnderMutex,
     write_lock!MayQueue, WL!MayQueue
<1> write_lock!AcquireWait(t) => WL!AcquireWait(t)
  BY DEF write_lock!AcquireWait, WL!AcquireWait, write_lock!Goto,
     WL!Goto, write_lock!MayQueue, WL!MayQueue,
     write_lock!ExpiredUnderMutex, WL!ExpiredUnderMutex
<1> write_lock!SemaWait(t) => WL!SemaWait(t)
  BY DEF write_lock!SemaWait, WL!SemaWait, write_lock!Goto, WL!Goto,
     write_lock!lockVars, WL!lockVars
<1> write_lock!WakeLeader(t) => WL!WakeLeader(t)
  BY DEF write_lock!WakeLeader, WL!WakeLeader, write_lock!Wake,
     WL!Wake, write_lock!Goto, WL!Goto, write_lock!lockVars, WL!lockVars
<1> write_lock!RunCallbacks(t) => WL!RunCallbacks(t)
  BY DEF write_lock!RunCallbacks, WL!RunCallbacks,
     write_lock!Complete, WL!Complete, write_lock!lockVars, WL!lockVars
<1> write_lock!WakeRest(t) => WL!WakeRest(t)
  BY DEF write_lock!WakeRest, WL!WakeRest, write_lock!Wake, WL!Wake,
     write_lock!Goto, WL!Goto, write_lock!lockVars, WL!lockVars
<1> QED
  BY DEF write_lock!Step, WL!Step

(* The steps of the log on write_lock are steps of the lock as its own module has them. *)
LEMMA WriteCalls ==
  ASSUME NEW t \in Thread, NEW num, NEW cb
  PROVE  /\ write_lock!StartAcquire(t, num, cb) => WL!StartAcquire(t, num, cb)
         /\ write_lock!Release(t, num) => WL!Release(t, num)
         /\ write_lock!set_pending(num) => WL!set_pending(num)
<1> USE Zenon
<1> write_lock!StartAcquire(t, num, cb) => WL!StartAcquire(t, num, cb)
  BY DEF write_lock!StartAcquire, WL!StartAcquire,
     write_lock!IdleFrame, WL!IdleFrame, write_lock!lockVars, WL!lockVars
<1> write_lock!Release(t, num) => WL!Release(t, num)
  BY DEF write_lock!Release, WL!Release, write_lock!IdleFrame,
     WL!IdleFrame
<1> write_lock!set_pending(num) => WL!set_pending(num)
  BY DEF write_lock!set_pending, WL!set_pending
<1> QED
  OBVIOUS

\* The two descriptions of write_lock are the same.
LEMMA WriteIsLock == (WL!LockOK <=> WriteOK) /\ (WL!LockOK' <=> WriteOK')
<1> WL!PendingCb = write_lock!PendingCb
  BY Zenon DEF WL!PendingCb, WL!AnyCallback, write_lock!PendingCb, write_lock!AnyCallback
<1> WL!Waiter = write_lock!Waiter
  BY Zenon DEF WL!Waiter, write_lock!Waiter
<1> WL!Frame = write_lock!Frame
  BY Zenon
  DEF WL!Frame, WL!AnyCallback, WL!InAcquire, WL!InRelease, WL!Returned,
      write_lock!Frame, write_lock!AnyCallback, write_lock!InAcquire,
      write_lock!InRelease, write_lock!Returned
<1> (WL!TypeOK <=> WriteTypes) /\ (WL!TypeOK' <=> WriteTypes')
  BY DEF WL!TypeOK, WriteTypes
<1> QED
  BY Zenon
  DEF WL!LockOK, WL!OneOwner, WL!NothingTooEarly, WL!QueuedCallback,
      WriteOK, WriteOwner, WriteEarly, WriteQueued

(* A step of the log keeps what write_lock guarantees and gives its effect. *)
LEMMA WriteLockDoes ==
  ASSUME WriteOK, NEW t \in Thread
  PROVE  WriteDoes(t)
<1> WL!LockOK
  BY WriteIsLock, Zenon
<1>1. ASSUME NEW num \in Nat, NEW cb \in Lsn \cup {Dummy, NoCallback},
             w_call[t].pc # "ACQUIRED", write_lock!StartAcquire(t, num, cb)
      PROVE  WriteStarted(t, num, cb)
  <2> cb \in WL!AnyCallback \cup {NoCallback}
    BY DEF WL!AnyCallback
  <2> USE Zenon
  <2> WL!StartAcquire(t, num, cb)
    BY <1>1, WriteCalls
  <2> QED
    BY <1>1, LockConstants, WL!LockStart, WriteIsLock DEF WriteStarted
<1>2. ASSUME NEW num \in Nat, w_value <= num, num <= MaxLsn,
             w_call[t].pc = "ACQUIRED", write_lock!Release(t, num)
      PROVE  WriteLeader(t, num)
  <2> WL!Release(t, num)
    BY <1>2, WriteCalls, Zenon
  <2> w_value \in Nat
    BY DEF WriteOK, WriteTypes
  <2> num \in w_value..(MaxLsn + 1)
    BY <1>2, LockConstants
  <2> QED
    BY <1>2, LockConstants, WL!LockRelease, WriteIsLock, Zenon DEF WriteLeader
<1>3. ASSUME write_lock!Step(t)
      PROVE  WriteStepped(t)
  <2> USE Zenon
  <2> WL!Step(t)
    BY <1>3, WriteSteps
  <2> WL!InAcquire = write_lock!InAcquire /\ WL!InRelease = write_lock!InRelease
    BY DEF WL!InAcquire, write_lock!InAcquire, WL!InRelease, write_lock!InRelease
  <2> QED
    BY LockConstants, WL!LockStep, WriteIsLock DEF WriteStepped
<1>4. ASSUME NEW num \in Nat, write_lock!set_pending(num)
      PROVE  WritePending
  <2> WL!set_pending(num)
    BY <1>4, WriteCalls, Zenon
  <2> waiter' = waiter /\ UNCHANGED <<w_value, w_callbacks, w_call, w_completed>>
    BY <1>4 DEF write_lock!set_pending
  <2> QED
    BY LockConstants, WL!LockPending, WriteIsLock, Zenon DEF WritePending
<1>5. ASSUME w_call[t].pc # "ACQUIRED", LeaveW(t), UNCHANGED <<wLockVars, waiter>>
      PROVE  WriteIdle(t)
  <2> w_call' = [w_call EXCEPT ![t] = WL!IdleFrame]
    BY <1>5, Zenon DEF LeaveW, write_lock!IdleFrame, WL!IdleFrame
  <2> UNCHANGED <<WL!lockVars, waiter, w_completed, {}>>
    BY <1>5 DEF wLockVars, WL!lockVars
  <2> WL!LockOK' /\ w_call'[t] = WL!IdleFrame
      /\ \A u \in Thread \ {t} : w_call'[u] = w_call[u]
    BY <1>5, LockConstants, WL!LockLeave, Zenon
  <2> WriteOK'
    BY WriteIsLock, Zenon
  <2> QED
    BY DEF WL!IdleFrame, WriteIdle
<1> QED
  BY <1>1, <1>2, <1>3, <1>4, <1>5, Zenon DEF WriteDoes

\* The same for flush_lock.
LEMMA FlushSteps ==
  ASSUME NEW t \in Thread, flush_lock!Step(t)
  PROVE  FL!Step(t)
<1> USE Zenon
<1> flush_lock!FastPath(t) => FL!FastPath(t)
  BY DEF flush_lock!FastPath, FL!FastPath, flush_lock!Goto, FL!Goto,
     flush_lock!OwnCallback, FL!OwnCallback, flush_lock!Complete,
     FL!Complete, flush_lock!ReturnExpired, FL!ReturnExpired,
     flush_lock!lockVars, FL!lockVars
<1> flush_lock!LoopTest(t) => FL!LoopTest(t)
  BY DEF flush_lock!LoopTest, FL!LoopTest, flush_lock!Goto, FL!Goto,
     flush_lock!OwnCallback, FL!OwnCallback, flush_lock!Complete,
     FL!Complete, flush_lock!ReturnExpired, FL!ReturnExpired,
     flush_lock!lockVars, FL!lockVars
<1> flush_lock!AcquireExpired(t) => FL!AcquireExpired(t)
  BY DEF flush_lock!AcquireExpired, FL!AcquireExpired,
     flush_lock!Goto, FL!Goto, flush_lock!OwnCallback, FL!OwnCallback,
     flush_lock!Complete, FL!Complete, flush_lock!ReturnExpired,
     FL!ReturnExpired, flush_lock!lockVars, FL!lockVars,
     flush_lock!ExpiredUnderMutex, FL!ExpiredUnderMutex
<1> flush_lock!AcquireLock(t) => FL!AcquireLock(t)
  BY DEF flush_lock!AcquireLock, FL!AcquireLock, flush_lock!Goto,
     FL!Goto, flush_lock!OwnCallback, FL!OwnCallback,
     flush_lock!QueueCallback, FL!QueueCallback,
     flush_lock!ExpiredUnderMutex, FL!ExpiredUnderMutex
<1> flush_lock!AcquireQueue(t) => FL!AcquireQueue(t)
  BY DEF flush_lock!AcquireQueue, FL!AcquireQueue, flush_lock!Goto,
     FL!Goto, flush_lock!OwnCallback, FL!OwnCallback,
     flush_lock!QueueCallback, FL!QueueCallback,
     flush_lock!ExpiredUnderMutex, FL!ExpiredUnderMutex,
     flush_lock!MayQueue, FL!MayQueue
<1> flush_lock!AcquireWait(t) => FL!AcquireWait(t)
  BY DEF flush_lock!AcquireWait, FL!AcquireWait, flush_lock!Goto,
     FL!Goto, flush_lock!MayQueue, FL!MayQueue,
     flush_lock!ExpiredUnderMutex, FL!ExpiredUnderMutex
<1> flush_lock!SemaWait(t) => FL!SemaWait(t)
  BY DEF flush_lock!SemaWait, FL!SemaWait, flush_lock!Goto, FL!Goto,
     flush_lock!lockVars, FL!lockVars
<1> flush_lock!WakeLeader(t) => FL!WakeLeader(t)
  BY DEF flush_lock!WakeLeader, FL!WakeLeader, flush_lock!Wake,
     FL!Wake, flush_lock!Goto, FL!Goto, flush_lock!lockVars, FL!lockVars
<1> flush_lock!RunCallbacks(t) => FL!RunCallbacks(t)
  BY DEF flush_lock!RunCallbacks, FL!RunCallbacks,
     flush_lock!Complete, FL!Complete, flush_lock!lockVars, FL!lockVars
<1> flush_lock!WakeRest(t) => FL!WakeRest(t)
  BY DEF flush_lock!WakeRest, FL!WakeRest, flush_lock!Wake, FL!Wake,
     flush_lock!Goto, FL!Goto, flush_lock!lockVars, FL!lockVars
<1> QED
  BY DEF flush_lock!Step, FL!Step

(* The steps of the log on flush_lock are steps of the lock as its own module has them. *)
LEMMA FlushCalls ==
  ASSUME NEW t \in Thread, NEW num, NEW cb
  PROVE  /\ flush_lock!StartAcquire(t, num, cb) => FL!StartAcquire(t, num, cb)
         /\ flush_lock!Release(t, num) => FL!Release(t, num)
         /\ flush_lock!set_pending(num) => FL!set_pending(num)
<1> USE Zenon
<1> flush_lock!StartAcquire(t, num, cb) => FL!StartAcquire(t, num, cb)
  BY DEF flush_lock!StartAcquire, FL!StartAcquire,
     flush_lock!IdleFrame, FL!IdleFrame, flush_lock!lockVars, FL!lockVars
<1> flush_lock!Release(t, num) => FL!Release(t, num)
  BY DEF flush_lock!Release, FL!Release, flush_lock!IdleFrame,
     FL!IdleFrame
<1> flush_lock!set_pending(num) => FL!set_pending(num)
  BY DEF flush_lock!set_pending, FL!set_pending
<1> QED
  OBVIOUS

\* The two descriptions of flush_lock are the same.
LEMMA FlushIsLock == (FL!LockOK <=> FlushOK) /\ (FL!LockOK' <=> FlushOK')
<1> FL!PendingCb = flush_lock!PendingCb
  BY Zenon DEF FL!PendingCb, FL!AnyCallback, flush_lock!PendingCb, flush_lock!AnyCallback
<1> FL!Waiter = flush_lock!Waiter
  BY Zenon DEF FL!Waiter, flush_lock!Waiter
<1> FL!Frame = flush_lock!Frame
  BY Zenon
  DEF FL!Frame, FL!AnyCallback, FL!InAcquire, FL!InRelease, FL!Returned,
      flush_lock!Frame, flush_lock!AnyCallback, flush_lock!InAcquire,
      flush_lock!InRelease, flush_lock!Returned
<1> (FL!TypeOK <=> FlushTypes) /\ (FL!TypeOK' <=> FlushTypes')
  BY DEF FL!TypeOK, FlushTypes
<1> QED
  BY Zenon
  DEF FL!LockOK, FL!OneOwner, FL!NothingTooEarly, FL!QueuedCallback,
      FlushOK, FlushOwner, FlushEarly, FlushQueued

(* A step of the log keeps what flush_lock guarantees and gives its effect. *)
LEMMA FlushLockDoes ==
  ASSUME FlushOK, NEW t \in Thread
  PROVE  FlushDoes(t)
<1> FL!LockOK
  BY FlushIsLock, Zenon
<1>1. ASSUME NEW num \in Nat, NEW cb \in Lsn \cup {Dummy, NoCallback},
             f_call[t].pc # "ACQUIRED", flush_lock!StartAcquire(t, num, cb)
      PROVE  FlushStarted(t, num, cb)
  <2> cb \in FL!AnyCallback \cup {NoCallback}
    BY DEF FL!AnyCallback
  <2> USE Zenon
  <2> FL!StartAcquire(t, num, cb)
    BY <1>1, FlushCalls
  <2> QED
    BY <1>1, LockConstants, FL!LockStart, FlushIsLock DEF FlushStarted
<1>2. ASSUME NEW num \in Nat, f_value <= num, num <= MaxLsn,
             f_call[t].pc = "ACQUIRED", flush_lock!Release(t, num)
      PROVE  FlushLeader(t, num)
  <2> FL!Release(t, num)
    BY <1>2, FlushCalls, Zenon
  <2> f_value \in Nat
    BY DEF FlushOK, FlushTypes
  <2> num \in f_value..(MaxLsn + 1)
    BY <1>2, LockConstants
  <2> QED
    BY <1>2, LockConstants, FL!LockRelease, FlushIsLock, Zenon DEF FlushLeader
<1>3. ASSUME flush_lock!Step(t)
      PROVE  FlushStepped(t)
  <2> USE Zenon
  <2> FL!Step(t)
    BY <1>3, FlushSteps
  <2> FL!InAcquire = flush_lock!InAcquire /\ FL!InRelease = flush_lock!InRelease
    BY DEF FL!InAcquire, flush_lock!InAcquire, FL!InRelease, flush_lock!InRelease
  <2> QED
    BY LockConstants, FL!LockStep, FlushIsLock DEF FlushStepped
<1>4. ASSUME NEW num \in Nat, flush_lock!set_pending(num)
      PROVE  FlushPending
  <2> FL!set_pending(num)
    BY <1>4, FlushCalls, Zenon
  <2> waiter' = waiter /\ UNCHANGED <<f_value, f_callbacks, f_call, f_completed>>
    BY <1>4 DEF flush_lock!set_pending
  <2> QED
    BY LockConstants, FL!LockPending, FlushIsLock, Zenon DEF FlushPending
<1>5. ASSUME f_call[t].pc # "ACQUIRED", LeaveF(t), UNCHANGED <<fLockVars, waiter>>
      PROVE  FlushIdle(t)
  <2> f_call' = [f_call EXCEPT ![t] = FL!IdleFrame]
    BY <1>5, Zenon DEF LeaveF, flush_lock!IdleFrame, FL!IdleFrame
  <2> UNCHANGED <<FL!lockVars, waiter, f_completed, {}>>
    BY <1>5 DEF fLockVars, FL!lockVars
  <2> FL!LockOK' /\ f_call'[t] = FL!IdleFrame
      /\ \A u \in Thread \ {t} : f_call'[u] = f_call[u]
    BY <1>5, LockConstants, FL!LockLeave, Zenon
  <2> FlushOK'
    BY FlushIsLock, Zenon
  <2> QED
    BY DEF FL!IdleFrame, FlushIdle
<1> QED
  BY <1>1, <1>2, <1>3, <1>4, <1>5, Zenon DEF FlushDoes

(* Every step of the log keeps what both locks guarantee. *)
LEMMA LocksDoHold ==
  ASSUME LogInv, NEW t \in Thread
  PROVE  LocksDo(t)
<1> WriteOK /\ FlushOK
  BY Zenon DEF LogInv
<1> QED
  BY WriteLockDoes, FlushLockDoes, Zenon DEF LocksDo

-----------------------------------------------------------------------------
(* The invariant and the theorems *)

(* The invariant holds initially. *)
LEMMA InitInv == Init => LogInv
<1> SUFFICES ASSUME Init PROVE LogInv
  OBVIOUS
<1> WriteOK
  <2> USE Zenon
  <2> WL!ClientInit
    BY DEF Init, WL!ClientInit, write_lock!Init, WL!Init,
       write_lock!IdleFrame, WL!IdleFrame
  <2> QED
    BY LockConstants, WL!LockInit, WriteIsLock
<1> FlushOK
  <2> USE Zenon
  <2> FL!ClientInit
    BY DEF Init, FL!ClientInit, flush_lock!Init, FL!Init,
       flush_lock!IdleFrame, FL!IdleFrame
  <2> QED
    BY LockConstants, FL!LockInit, FlushIsLock
<1> QED
  BY InitRest, Zenon

(* The invariant holds in every reachable state. *)
LEMMA AlwaysInv == Spec => []LogInv
<1>1. LogInv /\ [Next]_vars => LogInv'
  BY NextInv, LocksDoHold, Zenon
<1> QED
  BY <1>1, InitInv, PTL DEF Spec

\* The variables of log_t and of the program state stay in their types.
THEOREM LogTypeCorrect == Spec => []TypeOK
  BY InvTypes, AlwaysInv, PTL

\* The value of write_lock never exceeds write_lsn, nor that the LSN, the
\* value of flush_lock never exceeds flushed_to_disk_lsn, nor that the value of
\* write_lock: what value() tells a caller of log_write_up_to() is true.
THEOREM ValuesNeverAhead == Spec => []ValuesBehindFile
<1>1. LogInv => ValuesBehindFile
  BY DEF LogInv
<1> QED
  BY <1>1, AlwaysInv, PTL

\* The assertions of set_pending(), release(), write_buf() and log_t::flush()
\* never fail.
THEOREM NoAssertionFails == Spec => []AssertionsHold
  BY InvAssertions, AlwaysInv, PTL

\* At most one thread writes the log file at a time, and nobody else writes or
\* syncs it while set_write_through() reopens it.
THEOREM OneWriter == Spec => []FileExclusive
  BY InvExclusive, AlwaysInv, PTL

\* A commit is acknowledged, by log_write_up_to() returning or by its callback
\* on write_lock, only when it is in the log file.
THEOREM WrittenBeforeAnswer == Spec => []WrittenAcknowledged
  BY InvWritten, AlwaysInv, PTL

\* The two release() calls of log_write_and_flush(), which ignores what they
\* return, return zero: no callback is left without a leader.
THEOREM NothingIgnored == Spec => []IgnoredReturnIsZero
<1>1. LogInv => IgnoredReturnIsZero
  BY DEF LogInv, ThreadOK, CallOK, IgnoredReturnIsZero
<1> QED
  BY <1>1, AlwaysInv, PTL

\* The values of the locks, write_lsn and flushed_to_disk_lsn never decrease.
THEOREM NothingTakenBack == Spec => ValuesGrow
<1>1. LogInv /\ [Next]_vars => [Grow]_vars
  BY GrowStep, LocksDoHold, Zenon
<1>2. Spec => [][Grow]_vars
  BY <1>1, AlwaysInv, PTL DEF Spec
<1> QED
  BY <1>2 DEF ValuesGrow, Grow

\* In a server whose innodb_log_file_write_through is not changed while it
\* runs, whoever is told that the log is durable up to an LSN (by the return of
\* log_write_up_to(), by a callback on flush_lock, by flushed_to_disk_lsn) finds
\* it on stable storage.
THEOREM DurableWhenAnswered ==
  ASSUME Resizers = {}
  PROVE  Spec => []DurableAcknowledged
<1>1. LogInv /\ SyncInv /\ [Next]_vars => SyncInv'
  BY SyncStep
<1> QED
  BY <1>1, SyncInit, InvDurable, AlwaysInv, PTL DEF Spec

=============================================================================

--------------------------- MODULE GroupCommitLock ---------------------------
(***************************************************************************)
(* The group_commit_lock of storage/innobase/log/log0sync.{h,cc}: a mutex  *)
(* with a monotone value.  acquire(num) returns as soon as the value has   *)
(* reached num (EXPIRED), or with the lock held (ACQUIRED), or leaves a    *)
(* completion callback behind (CALLBACK_QUEUED).  release(num) publishes a *)
(* new value, completes the requests it covers and elects a new leader.    *)
(*                                                                         *)
(* Every section of the code under m_mtx is one action.  What runs outside *)
(* m_mtx (the tests of value(), the semaphore, the wake-ups and callbacks  *)
(* after unlock) is a step of its own, so that all interleavings of those  *)
(* steps with other threads' critical sections are explored.               *)
(*                                                                         *)
(* The linked list of waiters and the vector of callbacks are sets: their  *)
(* order only decides WHICH waiter is elected and WHICH pending number     *)
(* release() returns, and the model allows every choice.                   *)
(***************************************************************************)
EXTENDS Naturals

CONSTANTS
    Thread,         \* the threads that use the lock
    Callback,       \* completion callbacks of asynchronous requests
    Dummy,          \* log0log.cc's dummy_callback, which does nothing
    NoCallback,     \* nullptr: a synchronous request
    MaxValue        \* bound on the numbers requested and published

ASSUME CallbackAssumption == /\ Dummy \notin Callback
                             /\ NoCallback \notin Callback \cup {Dummy}

ASSUME MaxValueAssumption == MaxValue \in Nat

VARIABLES
    m_value, m_pending_value, m_lock, m_waiters_list, m_pending_callbacks,
    waiter,     \* thread_local_waiter of every thread
    call,       \* what each thread is doing in the lock: its stack frame
    completed   \* the callbacks that have been run, with their numbers

lockVars == <<m_value, m_pending_value, m_lock, m_waiters_list,
              m_pending_callbacks>>
vars == <<lockVars, waiter, call, completed>>

AnyCallback == Callback \cup {Dummy}

PendingCb == [num : Nat, cb : AnyCallback]

Waiter == [m_value : Nat, m_signalled : BOOLEAN,
           m_group_commit_leader : BOOLEAN]

(***************************************************************************)
(* "fast" .. "sleep" are places in acquire(), "leader" .. "rest" places in *)
(* release() after m_mtx is unlocked; the others are between two calls.    *)
(***************************************************************************)
InAcquire == {"fast", "test", "mutex", "sleep"}
InRelease == {"leader", "callbacks", "rest"}
Returned  == {"ACQUIRED", "EXPIRED", "CALLBACK_QUEUED", "released"}

Frame == [pc   : {"idle"} \cup InAcquire \cup InRelease \cup Returned,
          num  : Nat,                              \* argument of acquire()
          cb   : AnyCallback \cup {NoCallback},    \* argument of acquire()
          wake : SUBSET Thread,                    \* release(): wakeup_list
          cbs  : SUBSET PendingCb,                 \* release(): callbacks[]
          ret  : Nat]                              \* release(): ret

IdleFrame == [pc |-> "idle", num |-> 0, cb |-> NoCallback,
              wake |-> {}, cbs |-> {}, ret |-> 0]

Init ==
    /\ m_value = 0
    /\ m_pending_value = 0
    /\ m_lock = FALSE
    /\ m_waiters_list = {}
    /\ m_pending_callbacks = {}
    /\ waiter = [t \in Thread |-> [m_value |-> 0, m_signalled |-> FALSE,
                                   m_group_commit_leader |-> FALSE]]
    /\ call = [t \in Thread |-> IdleFrame]
    /\ completed = {}

-----------------------------------------------------------------------------
(* acquire(num, callback) *)

Goto(t, pc) == call' = [call EXCEPT ![t].pc = pc]

\* The call itself: control enters the loop at the top of acquire().
StartAcquire(t, num, cb) ==
    /\ call' = [call EXCEPT ![t] = [IdleFrame EXCEPT !.pc = "fast",
                                                     !.num = num, !.cb = cb]]
    /\ UNCHANGED <<lockVars, waiter, completed>>

\* Mutant: a synchronous request queues a null callback.
OwnCallback_Null(t) == {[num |-> call[t].num, cb |-> call[t].cb]}

\* The callback argument of t's call, as a set with no or one member.
OwnCallback(t) ==
    {[num |-> call[t].num, cb |-> c] : c \in {call[t].cb} \ {NoCallback}}

\* Running callbacks; the dummy one has no effect.
Complete(cbs) == completed' = completed \cup {c \in cbs : c.cb # Dummy}

\* Mutant: do_completion_callback() is forgotten.
ReturnExpired_NoCallback(t) == Goto(t, "EXPIRED") /\ UNCHANGED completed

\* do_completion_callback(callback); return EXPIRED
ReturnExpired(t) == Goto(t, "EXPIRED") /\ Complete(OwnCallback(t))

\* The first test of value().  The spin repeats the same test once more,
\* which is the same as taking this step later.
FastPath(t) ==
    /\ call[t].pc = "fast"
    /\ IF call[t].num <= m_value
         THEN ReturnExpired(t) /\ UNCHANGED waiter
         ELSE /\ waiter' = [waiter EXCEPT ![t] =
                    [@ EXCEPT !.m_value = call[t].num,
                              !.m_group_commit_leader = FALSE]]
              /\ Goto(t, "test")
              /\ UNCHANGED completed
    /\ UNCHANGED lockVars

\* Mutant: an elected leader whose number is reached does not lead.
LoopTest_IgnoreLeader(t) ==
    /\ call[t].pc = "test"
    /\ IF call[t].num > m_value
         THEN Goto(t, "mutex") /\ UNCHANGED completed
         ELSE ReturnExpired(t)
    /\ UNCHANGED <<lockVars, waiter>>

\* The condition of the while loop, evaluated without m_mtx.
LoopTest(t) ==
    /\ call[t].pc = "test"
    /\ IF call[t].num > m_value \/ waiter[t].m_group_commit_leader
         THEN Goto(t, "mutex") /\ UNCHANGED completed
         ELSE ReturnExpired(t)
    /\ UNCHANGED <<lockVars, waiter>>

\* Mutant: off by one.
ExpiredUnderMutex_OffByOne(t) ==
    /\ call[t].num <= m_value + 1
    /\ ~waiter[t].m_group_commit_leader \/ m_lock

\* m_mtx held: the value is there, and nobody needs this thread to lead.
ExpiredUnderMutex(t) ==
    /\ call[t].num <= m_value
    /\ ~waiter[t].m_group_commit_leader \/ m_lock

AcquireExpired(t) ==
    /\ call[t].pc = "mutex"
    /\ ExpiredUnderMutex(t)
    /\ ReturnExpired(t)
    /\ UNCHANGED <<lockVars, waiter>>

QueueCallback(t) ==
    m_pending_callbacks' = m_pending_callbacks \cup OwnCallback(t)

\* Mutant: m_lock is not tested.
AcquireLock_NoTest(t) ==
    /\ call[t].pc = "mutex"
    /\ ~ExpiredUnderMutex(t)
    /\ m_lock' = TRUE
    /\ QueueCallback(t)
    /\ Goto(t, "ACQUIRED")
    /\ UNCHANGED <<m_value, m_pending_value, m_waiters_list, waiter, completed>>

\* m_mtx held: the lock is free; this thread becomes the leader.
AcquireLock(t) ==
    /\ call[t].pc = "mutex"
    /\ ~ExpiredUnderMutex(t)
    /\ ~m_lock
    /\ m_lock' = TRUE
    /\ QueueCallback(t)
    /\ Goto(t, "ACQUIRED")
    /\ UNCHANGED <<m_value, m_pending_value, m_waiters_list, waiter, completed>>

\* m_mtx held: another leader is at work; may the callback be left to it?
MayQueue(t) == /\ call[t].cb # NoCallback
               /\ m_waiters_list # {} \/ call[t].num <= m_pending_value

AcquireQueue(t) ==
    /\ call[t].pc = "mutex"
    /\ ~ExpiredUnderMutex(t)
    /\ m_lock
    /\ MayQueue(t)
    /\ QueueCallback(t)
    /\ Goto(t, "CALLBACK_QUEUED")
    /\ UNCHANGED <<m_value, m_pending_value, m_lock, m_waiters_list, waiter,
                   completed>>

\* m_mtx held: link the thread into the waiters' list, unlock and sleep.
AcquireWait(t) ==
    /\ call[t].pc = "mutex"
    /\ ~ExpiredUnderMutex(t)
    /\ m_lock
    /\ ~MayQueue(t)
    /\ waiter' = [waiter EXCEPT ![t].m_group_commit_leader = FALSE]
    /\ m_waiters_list' = m_waiters_list \cup {t}
    /\ Goto(t, "sleep")
    /\ UNCHANGED <<m_value, m_pending_value, m_lock, m_pending_callbacks,
                   completed>>

\* Mutant: the semaphore stays signalled.
SemaWait_NoReset(t) ==
    /\ call[t].pc = "sleep"
    /\ waiter[t].m_signalled
    /\ Goto(t, "test")
    /\ UNCHANGED <<lockVars, waiter, completed>>

\* binary_semaphore::wait(): the futex is abstracted to its condition.
SemaWait(t) ==
    /\ call[t].pc = "sleep"
    /\ waiter[t].m_signalled
    /\ waiter' = [waiter EXCEPT ![t].m_signalled = FALSE]
    /\ Goto(t, "test")
    /\ UNCHANGED <<lockVars, completed>>

-----------------------------------------------------------------------------
(* release(num) *)

\* The caller owns the lock, and num >= value(): ut_a() and ut_ad() in the
\* code, an obligation of the clients here.
set_pending(num) ==
    /\ m_pending_value' = num
    /\ UNCHANGED <<m_value, m_lock, m_waiters_list, m_pending_callbacks,
                   waiter, call, completed>>

\* The section under m_mtx.
Release(t, num) ==
    LET woken == {u \in m_waiters_list : waiter[u].m_value <= num}
        due   == {c \in m_pending_callbacks : c.num <= num}
        rest  == m_waiters_list \ woken
        left  == m_pending_callbacks \ due
        Return(wake, ret) ==
            call' = [call EXCEPT ![t] =
                        [IdleFrame EXCEPT !.pc = "leader", !.wake = wake,
                                          !.cbs = due,
                                          !.ret = ret]]
        Elect(u) == /\ waiter' = [waiter EXCEPT ![u].m_group_commit_leader = TRUE]
                    /\ m_waiters_list' = rest \ {u}
                    /\ Return(woken \cup {u}, 0)
    IN  /\ m_lock' = FALSE
        /\ m_value' = num
        /\ m_pending_callbacks' = left
        /\ \/ \E u \in rest : Elect(u)
           \/ rest = {} /\ left # {} /\ \E u \in woken : Elect(u)
           \/ /\ rest = {} /\ left # {} /\ woken = {}
              /\ \E c \in left : Return({}, c.num)
              /\ UNCHANGED waiter
              /\ m_waiters_list' = {}
           \/ /\ rest = {} /\ left = {}
              /\ Return(woken, 0)
              /\ UNCHANGED waiter
              /\ m_waiters_list' = {}
        /\ UNCHANGED <<m_pending_value, completed>>

\* binary_semaphore::wake() on u, which is unlinked from the wakeup list.
Wake(t, u, pc) ==
    /\ waiter' = [waiter EXCEPT ![u].m_signalled = TRUE]
    /\ call' = [call EXCEPT ![t] =
                  [call[t] EXCEPT !.wake = call[t].wake \ {u}, !.pc = pc]]

\* The designated leader is woken first ...
WakeLeader(t) ==
    /\ call[t].pc = "leader"
    /\ \/ \E u \in call[t].wake : /\ waiter[u].m_group_commit_leader
                                  /\ Wake(t, u, "callbacks")
       \/ /\ \A u \in call[t].wake : ~waiter[u].m_group_commit_leader
          /\ Goto(t, "callbacks")
          /\ UNCHANGED waiter
    /\ UNCHANGED <<lockVars, completed>>

\* ... then the callbacks are run ...
RunCallbacks(t) ==
    /\ call[t].pc = "callbacks"
    /\ Complete(call[t].cbs)
    /\ call' = [call EXCEPT ![t] = [@ EXCEPT !.pc = "rest", !.cbs = {}]]
    /\ UNCHANGED <<lockVars, waiter>>

\* ... then the other waiters are woken, one by one, and release() returns.
WakeRest(t) ==
    /\ call[t].pc = "rest"
    /\ \/ \E u \in call[t].wake : Wake(t, u, "rest")
       \/ call[t].wake = {} /\ Goto(t, "released") /\ UNCHANGED waiter
    /\ UNCHANGED <<lockVars, completed>>

\* Everything a thread does on its own once it has called acquire/release.
Step(t) == \/ FastPath(t) \/ LoopTest(t)
           \/ AcquireExpired(t) \/ AcquireLock(t)
           \/ AcquireQueue(t) \/ AcquireWait(t) \/ SemaWait(t)
           \/ WakeLeader(t) \/ RunCallbacks(t) \/ WakeRest(t)

=============================================================================

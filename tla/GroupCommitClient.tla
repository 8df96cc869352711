-------------------------- MODULE GroupCommitClient --------------------------
(***************************************************************************)
(* group_commit_lock under its most general client.  log_write_up_to(),    *)
(* log_write_and_flush() and log_resize_acquire()/log_resize_release() of  *)
(* log0log.cc use the lock in one pattern: acquire(); when ACQUIRED, any   *)
(* set_pending() and one release(num) with num >= value(); when release()  *)
(* returns a number, acquire() again for that number with dummy_callback.  *)
(* This client does nothing else, and any of this in any order.            *)
(***************************************************************************)
EXTENDS GroupCommitLock

VARIABLE issued     \* the callbacks handed to acquire() so far

clientVars == <<vars, issued>>

ClientInit == Init /\ issued = {}

\* A thread outside the lock calls acquire(), synchronously or with a callback
\* that has not been used before.
Acquire(t) ==
    /\ call[t].pc = "idle"
    /\ \E num \in 1..MaxValue, cb \in (Callback \ issued) \cup {NoCallback} :
         /\ StartAcquire(t, num, cb)
         /\ issued' = issued \cup ({cb} \cap Callback)

\* The owner announces the value it is about to publish.
SetPending(t) ==
    /\ call[t].pc = "ACQUIRED"
    /\ \E num \in m_value..MaxValue : set_pending(num)
    /\ UNCHANGED issued

\* The owner publishes a value and gives the lock up.
OwnerRelease(t) ==
    /\ call[t].pc = "ACQUIRED"
    /\ \E num \in m_value..MaxValue : Release(t, num)
    /\ UNCHANGED issued

\* "goto repeat": callbacks are left and nobody was there to be elected.
Again(t) ==
    /\ call[t].pc = "released"
    /\ call[t].ret # 0
    /\ StartAcquire(t, call[t].ret, Dummy)
    /\ UNCHANGED issued

\* The request is finished, or left to its callback.
Finish(t) ==
    /\ \/ call[t].pc \in {"EXPIRED", "CALLBACK_QUEUED"}
       \/ call[t].pc = "released" /\ call[t].ret = 0
    /\ call' = [call EXCEPT ![t] = IdleFrame]
    /\ UNCHANGED <<lockVars, waiter, completed, issued>>

Next == \E t \in Thread : \/ Acquire(t) \/ SetPending(t) \/ OwnerRelease(t)
                          \/ Again(t) \/ Finish(t)
                          \/ Step(t) /\ UNCHANGED issued

Spec == ClientInit /\ [][Next]_clientVars

-----------------------------------------------------------------------------
\* Types: every variable has the type log0sync.{h,cc} declares for it.
TypeOK ==
    /\ m_value \in Nat
    /\ m_pending_value \in Nat
    /\ m_lock \in BOOLEAN
    /\ m_waiters_list \in SUBSET Thread
    /\ m_pending_callbacks \in SUBSET PendingCb
    /\ waiter \in [Thread -> Waiter]
    /\ call \in [Thread -> Frame]
    /\ completed \in SUBSET PendingCb
    /\ issued \in SUBSET Callback

\* Mutual exclusion: at most one thread is between acquire() returning
\* ACQUIRED and its release(), and m_lock says whether there is one.  Two
\* leaders would write or flush the log at the same time.
OneOwner ==
    /\ m_lock <=> \E t \in Thread : call[t].pc = "ACQUIRED"
    /\ \A t, u \in Thread :
         call[t].pc = "ACQUIRED" /\ call[u].pc = "ACQUIRED" => t = u

\* A request reported as done is done: acquire() returns EXPIRED, and a
\* callback is run, only when the value has reached the number asked for.
NothingTooEarly ==
    /\ \A t \in Thread : call[t].pc = "EXPIRED" => call[t].num <= m_value
    /\ \A c \in completed : c.num <= m_value
    /\ \A t \in Thread : \A c \in call[t].cbs : c.num <= m_value

\* The places where callback c can be: in the frame of an acquire() that has
\* not handed it over, in m_pending_callbacks, in the callbacks[] of a
\* release() that has unlocked m_mtx, or run.
Places(c) ==
    {<<"acquire", t>> : t \in {u \in Thread : /\ call[u].cb = c
                                              /\ call[u].pc \in InAcquire}}
    \cup {<<"pending", p.num>> : p \in {q \in m_pending_callbacks : q.cb = c}}
    \cup {<<"release", t>> : t \in {u \in Thread :
                                      \E p \in call[u].cbs : p.cb = c}}
    \cup {<<"completed", p.num>> : p \in {q \in completed : q.cb = c}}

\* No callback is lost or run twice: from the call of acquire() on, it is in
\* exactly one place, through queueing, erasure by release() and the run.
CallbackOnce == \A c \in issued : \E p \in Places(c) : Places(c) = {p}

\* A thread that will take the free lock without anybody's help: the elected
\* leader on its way out of the semaphore, an acquire() whose number is not
\* reached, or a release() that returned a pending number.
Responsible(t) ==
    \/ /\ waiter[t].m_group_commit_leader
       /\ t \notin m_waiters_list
       /\ call[t].pc \in {"sleep", "test", "mutex"}
    \/ /\ call[t].num > m_value
       /\ call[t].pc \in {"fast", "test", "mutex"}
    \/ /\ call[t].ret > m_value
       /\ call[t].pc \in InRelease \cup {"released"}

\* Nobody is stranded: while the lock is free and a waiter sleeps in the list
\* or a callback is pending, some thread is bound to take the lock.  This is
\* what the election at the end of release() and its return value are for.
NobodyStranded ==
    ~m_lock /\ (m_waiters_list # {} \/ m_pending_callbacks # {})
        => \E t \in Thread : Responsible(t)

\* No lost wake-up: a sleeping thread is linked in m_waiters_list, or about to
\* be woken by exactly one release(), or signalled - and only one of these.
Wakers(t) == {u \in Thread : t \in call[u].wake}
NoLostWakeup ==
    \A t \in Thread :
        /\ call[t].pc = "sleep" =>
             \/ /\ t \in m_waiters_list
                /\ Wakers(t) = {} /\ ~waiter[t].m_signalled
             \/ /\ t \notin m_waiters_list /\ ~waiter[t].m_signalled
                /\ \E u \in Thread : Wakers(t) = {u}
             \/ /\ t \notin m_waiters_list /\ waiter[t].m_signalled
                /\ Wakers(t) = {}
        /\ call[t].pc # "sleep" =>
             t \notin m_waiters_list /\ Wakers(t) = {} /\ ~waiter[t].m_signalled

=============================================================================

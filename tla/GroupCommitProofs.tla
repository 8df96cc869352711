-------------------------- MODULE GroupCommitProofs --------------------------
(***************************************************************************)
(* Proofs about group_commit_lock under its most general client, for any   *)
(* set of threads, any callbacks and any bound on the values: it has one   *)
(* owner, reports nothing too early, loses or repeats no wake-up and no    *)
(* callback, and strands nobody.                                           *)
(***************************************************************************)
EXTENDS GroupCommitClient, TLAPS


-----------------------------------------------------------------------------
(* The records of the lock *)

\* What is assigned to a thread_local_waiter is a waiter.
LEMMA WaiterUpdate ==
  ASSUME NEW w \in [Thread -> Waiter], NEW t \in Thread
  PROVE  /\ [w EXCEPT ![t].m_signalled = TRUE] \in [Thread -> Waiter]
         /\ [w EXCEPT ![t].m_signalled = FALSE] \in [Thread -> Waiter]
         /\ [w EXCEPT ![t].m_group_commit_leader = TRUE] \in [Thread -> Waiter]
         /\ [w EXCEPT ![t].m_group_commit_leader = FALSE] \in [Thread -> Waiter]
  BY Zenon DEF Waiter

\* A return from the lock, or a move within it.
LEMMA FrameGoto ==
  ASSUME NEW c \in [Thread -> Frame], NEW t \in Thread,
         NEW pc \in {"idle"} \cup InAcquire \cup InRelease \cup Returned
  PROVE  [c EXCEPT ![t].pc = pc] \in [Thread -> Frame]
  BY DEF Frame

\* The steps of release() after m_mtx is unlocked keep its frame a frame.
LEMMA FrameUpdate ==
  ASSUME NEW f \in Frame
  PROVE  /\ [f EXCEPT !.pc = "rest", !.cbs = {}] \in Frame
         /\ \A pc \in {"callbacks", "rest"}, u \in Thread :
              [f EXCEPT !.wake = f.wake \ {u}, !.pc = pc] \in Frame
  BY Zenon DEF Frame, InRelease

\* A call of acquire(), and the frame of release() when it unlocks m_mtx.
LEMMA FrameNew ==
  /\ IdleFrame \in Frame
  /\ \A num \in Nat, cb \in AnyCallback \cup {NoCallback} :
       [IdleFrame EXCEPT !.pc = "fast", !.num = num, !.cb = cb] \in Frame
  /\ \A wake \in SUBSET Thread, cbs \in SUBSET PendingCb, ret \in Nat :
       [IdleFrame EXCEPT !.pc = "leader", !.wake = wake, !.cbs = cbs,
                         !.ret = ret] \in Frame
  BY Zenon DEF IdleFrame, Frame, InAcquire, InRelease

(* The fields of a call record and of a pending callback. *)
LEMMA FrameFields ==
  ASSUME NEW f \in Frame
  PROVE  /\ f.num \in Nat /\ f.ret \in Nat
         /\ f.cb \in AnyCallback \cup {NoCallback}
         /\ f.wake \in SUBSET Thread /\ f.cbs \in SUBSET PendingCb
  BY DEF Frame

\* The callback of a call is a pending callback in the sense of log0sync.h.
LEMMA OwnCallbackType ==
  ASSUME TypeOK, NEW t \in Thread
  PROVE  OwnCallback(t) \in SUBSET PendingCb
  BY FrameFields DEF TypeOK, OwnCallback, PendingCb

-----------------------------------------------------------------------------
(* Types *)

(* The initial state is well typed. *)
LEMMA TypeInit == ClientInit => TypeOK
<1> SUFFICES ASSUME ClientInit PROVE TypeOK
  OBVIOUS
<1>1. waiter \in [Thread -> Waiter]
  BY DEF ClientInit, Init, Waiter
<1>2. call \in [Thread -> Frame]
  BY FrameNew, Zenon DEF ClientInit, Init
<1> QED
  BY <1>1, <1>2, Zenon DEF ClientInit, Init, TypeOK

(* release() keeps the types, whatever value it publishes. *)
LEMMA TypeRelease ==
  ASSUME TypeOK, NEW t \in Thread, OwnerRelease(t)
  PROVE  TypeOK'
<1>1. PICK num \in m_value..MaxValue : Release(t, num)
  BY DEF OwnerRelease
<1>2. num \in Nat
  BY MaxValueAssumption DEF TypeOK
<1> DEFINE woken == {u \in m_waiters_list : waiter[u].m_value <= num}
           due   == {c \in m_pending_callbacks : c.num <= num}
           F(wake, ret) == [IdleFrame EXCEPT !.pc = "leader", !.wake = wake,
                                             !.cbs = due, !.ret = ret]
<1>3. /\ m_lock' = FALSE /\ m_value' = num
      /\ m_pending_callbacks' \in SUBSET PendingCb
      /\ m_waiters_list' \in SUBSET Thread
      /\ UNCHANGED <<m_pending_value, completed, issued>>
  BY <1>1, Zenon DEF Release, OwnerRelease, TypeOK
<1>4. PICK wake \in SUBSET Thread, ret \in Nat :
        call' = [call EXCEPT ![t] = F(wake, ret)]
  <2>1. CASE \E u \in m_waiters_list :
               call' = [call EXCEPT ![t] = F(woken \cup {u}, 0)]
    BY <2>1, Zenon DEF TypeOK
  <2>2. CASE \E c \in m_pending_callbacks :
               call' = [call EXCEPT ![t] = F({}, c.num)]
    BY <2>2, Zenon DEF TypeOK, PendingCb
  <2>3. CASE call' = [call EXCEPT ![t] = F(woken, 0)]
    BY <2>3, Zenon DEF TypeOK
  <2> QED
    BY <1>1, <2>1, <2>2, <2>3, Zenon DEF Release
<1>5. call' \in [Thread -> Frame]
  <2>1. due \in SUBSET PendingCb
    BY DEF TypeOK
  <2>2. F(wake, ret) \in Frame
    BY <2>1, FrameNew, Zenon
  <2> QED
    BY <1>4, <2>2 DEF TypeOK
<1>6. waiter' \in [Thread -> Waiter]
  <2>1. ASSUME NEW u \in m_waiters_list,
               waiter' = [waiter EXCEPT ![u].m_group_commit_leader = TRUE]
        PROVE  waiter' \in [Thread -> Waiter]
    <3>1. u \in Thread
      BY DEF TypeOK
    <3> QED
      BY <2>1, <3>1, WaiterUpdate, Zenon DEF TypeOK
  <2>2. \/ waiter' = waiter
        \/ \E u \in m_waiters_list :
             waiter' = [waiter EXCEPT ![u].m_group_commit_leader = TRUE]
    BY <1>1, Zenon DEF Release
  <2> QED
    BY <2>1, <2>2 DEF TypeOK
<1> QED
  BY <1>2, <1>3, <1>5, <1>6, Zenon DEF TypeOK

(* Every step of the lock taken by one thread keeps the types. *)
LEMMA TypeStep ==
  ASSUME TypeOK, NEW t \in Thread, Step(t), UNCHANGED issued
  PROVE  TypeOK'
<1>1. ASSUME NEW pc \in {"idle"} \cup InAcquire \cup InRelease \cup Returned,
             Goto(t, pc)
      PROVE  call' \in [Thread -> Frame]
  BY <1>1, FrameGoto, Zenon DEF TypeOK, Goto
<1>2. ASSUME NEW u \in Thread, NEW pc \in {"callbacks", "rest"}, Wake(t, u, pc)
      PROVE  call' \in [Thread -> Frame] /\ waiter' \in [Thread -> Waiter]
  BY <1>2, FrameUpdate, WaiterUpdate, Zenon DEF TypeOK, Wake
<1>3. call[t].wake \in SUBSET Thread /\ call[t].cbs \in SUBSET PendingCb
  BY FrameFields DEF TypeOK
<1>4. CASE FastPath(t)
  <2>1. call' \in [Thread -> Frame]
    BY <1>1, <1>4 DEF FastPath, ReturnExpired, InAcquire, Returned
  <2>2. waiter' \in [Thread -> Waiter]
    <3>1. CASE call[t].num <= m_value
      BY <1>4, <3>1 DEF TypeOK, FastPath
    <3>2. CASE ~(call[t].num <= m_value)
      <4> DEFINE w == [waiter[t] EXCEPT !.m_value = call[t].num,
                                        !.m_group_commit_leader = FALSE]
      <4>1. waiter' = [waiter EXCEPT ![t] = w]
        BY <1>4, <3>2 DEF FastPath
      <4>2. w \in Waiter
        BY FrameFields, Zenon DEF TypeOK, Waiter
      <4> QED
        BY <4>1, <4>2 DEF TypeOK
    <3> QED
      BY <3>1, <3>2
  <2> QED
    BY <1>4, <2>1, <2>2, OwnCallbackType
    DEF TypeOK, FastPath, ReturnExpired, Complete, lockVars
<1>5. CASE LoopTest(t)
  <2>1. call' \in [Thread -> Frame]
    BY <1>1, <1>5 DEF LoopTest, ReturnExpired, InAcquire, Returned
  <2> QED
    BY <1>5, <2>1, OwnCallbackType
    DEF TypeOK, LoopTest, ReturnExpired, Complete, lockVars
<1>6. CASE AcquireExpired(t)
  <2>1. call' \in [Thread -> Frame]
    BY <1>1, <1>6 DEF AcquireExpired, ReturnExpired, Returned
  <2> QED
    BY <1>6, <2>1, OwnCallbackType
    DEF TypeOK, AcquireExpired, ReturnExpired, Complete, lockVars
<1>7. CASE AcquireLock(t)
  <2>1. call' \in [Thread -> Frame]
    BY <1>1, <1>7 DEF AcquireLock, Returned
  <2> QED
    BY <1>7, <2>1, OwnCallbackType DEF TypeOK, AcquireLock, QueueCallback
<1>8. CASE AcquireQueue(t)
  <2>1. call' \in [Thread -> Frame]
    BY <1>1, <1>8 DEF AcquireQueue, Returned
  <2> QED
    BY <1>8, <2>1, OwnCallbackType DEF TypeOK, AcquireQueue, QueueCallback
<1>9. CASE AcquireWait(t)
  <2>1. call' \in [Thread -> Frame]
    BY <1>1, <1>9 DEF AcquireWait, InAcquire
  <2>2. waiter' \in [Thread -> Waiter]
    BY <1>9, WaiterUpdate, Zenon DEF TypeOK, AcquireWait
  <2> QED
    BY <1>9, <2>1, <2>2 DEF TypeOK, AcquireWait
<1>10. CASE SemaWait(t)
  <2>1. call' \in [Thread -> Frame]
    BY <1>1, <1>10 DEF SemaWait, InAcquire
  <2>2. waiter' \in [Thread -> Waiter]
    BY <1>10, WaiterUpdate, Zenon DEF TypeOK, SemaWait
  <2> QED
    BY <1>10, <2>1, <2>2 DEF TypeOK, SemaWait, lockVars
<1>11. CASE WakeLeader(t)
  <2>1. call' \in [Thread -> Frame] /\ waiter' \in [Thread -> Waiter]
    BY <1>1, <1>2, <1>3, <1>11 DEF TypeOK, WakeLeader, InRelease
  <2> QED
    BY <1>11, <2>1 DEF TypeOK, WakeLeader, lockVars
<1>12. CASE RunCallbacks(t)
  <2>1. call' \in [Thread -> Frame]
    BY <1>12, FrameUpdate, Zenon DEF TypeOK, RunCallbacks
  <2> QED
    BY <1>3, <1>12, <2>1 DEF TypeOK, RunCallbacks, Complete, lockVars
<1>13. CASE WakeRest(t)
  <2>1. call' \in [Thread -> Frame] /\ waiter' \in [Thread -> Waiter]
    BY <1>1, <1>2, <1>3, <1>13 DEF TypeOK, WakeRest, Returned
  <2> QED
    BY <1>13, <2>1 DEF TypeOK, WakeRest, lockVars
<1> QED
  BY <1>4, <1>5, <1>6, <1>7, <1>8, <1>9, <1>10, <1>11, <1>12, <1>13 DEF Step

-----------------------------------------------------------------------------
(* What the actions do to the frames *)

(* A move inside a call changes the place of its own thread and nothing else. *)
LEMMA GotoEffect ==
  ASSUME TypeOK, NEW t \in Thread, NEW pc, Goto(t, pc)
  PROVE  /\ \A u \in Thread \ {t} : call'[u] = call[u]
         /\ call'[t].pc = pc
         /\ call'[t].num = call[t].num /\ call'[t].cb = call[t].cb
         /\ call'[t].wake = call[t].wake /\ call'[t].cbs = call[t].cbs
         /\ call'[t].ret = call[t].ret
  BY DEF TypeOK, Goto, Frame

(* Waking a thread touches its semaphore and the list of the waker only. *)
LEMMA WakeEffect ==
  ASSUME TypeOK, NEW t \in Thread, NEW u \in Thread, NEW pc, Wake(t, u, pc)
  PROVE  /\ \A v \in Thread \ {t} : call'[v] = call[v]
         /\ call'[t].pc = pc /\ call'[t].wake = call[t].wake \ {u}
         /\ call'[t].num = call[t].num /\ call'[t].cb = call[t].cb
         /\ call'[t].cbs = call[t].cbs /\ call'[t].ret = call[t].ret
         /\ \A v \in Thread \ {u} : waiter'[v] = waiter[v]
         /\ waiter'[u].m_signalled = TRUE
         /\ waiter'[u].m_group_commit_leader = waiter[u].m_group_commit_leader
  BY DEF TypeOK, Wake, Frame, Waiter

(* Running the callbacks empties the list of the thread that runs them. *)
LEMMA RunCallbacksEffect ==
  ASSUME TypeOK, NEW t \in Thread, RunCallbacks(t)
  PROVE  /\ \A u \in Thread \ {t} : call'[u] = call[u]
         /\ call'[t].pc = "rest" /\ call'[t].cbs = {}
         /\ call'[t].num = call[t].num /\ call'[t].cb = call[t].cb
         /\ call'[t].wake = call[t].wake /\ call'[t].ret = call[t].ret
  BY DEF TypeOK, RunCallbacks, Frame

(* Starting an operation opens the call record of its thread only. *)
LEMMA StartEffect ==
  ASSUME TypeOK, NEW t \in Thread, NEW num, NEW cb, StartAcquire(t, num, cb)
  PROVE  /\ \A u \in Thread \ {t} : call'[u] = call[u]
         /\ call'[t].pc = "fast" /\ call'[t].num = num /\ call'[t].cb = cb
         /\ call'[t].wake = {} /\ call'[t].cbs = {} /\ call'[t].ret = 0
         /\ UNCHANGED <<lockVars, waiter, completed>>
  BY DEF TypeOK, StartAcquire, IdleFrame

\* The section of release() under m_mtx: whoever is elected or woken comes
\* from the list of waiters, and if callbacks are left over with nobody to
\* elect, the number of one of them is returned.
LEMMA ReleaseEffect ==
  ASSUME TypeOK, NEW t \in Thread, NEW num \in Nat, Release(t, num)
  PROVE  /\ \A u \in Thread \ {t} : call'[u] = call[u]
         /\ call'[t].pc = "leader"
         /\ call'[t].wake \in SUBSET m_waiters_list
         /\ m_waiters_list' = m_waiters_list \ call'[t].wake
         /\ \A c \in call'[t].cbs : c.num <= num
         /\ m_lock' = FALSE /\ m_value' = num
         /\ completed' = completed
         /\ \/ \E u \in call'[t].wake :
                 waiter' = [waiter EXCEPT ![u].m_group_commit_leader = TRUE]
            \/ /\ waiter' = waiter /\ m_waiters_list' = {}
               /\ m_pending_callbacks' = {} \/ call'[t].ret > num
<1> DEFINE woken == {u \in m_waiters_list : waiter[u].m_value <= num}
           due   == {c \in m_pending_callbacks : c.num <= num}
           rest  == m_waiters_list \ woken
           left  == m_pending_callbacks \ due
           F(wake, ret) == [IdleFrame EXCEPT !.pc = "leader", !.wake = wake,
                                             !.cbs = due, !.ret = ret]
           Returns(wake, ret) == call' = [call EXCEPT ![t] = F(wake, ret)]
           Elects(u) ==
             /\ waiter' = [waiter EXCEPT ![u].m_group_commit_leader = TRUE]
             /\ m_waiters_list' = rest \ {u}
             /\ Returns(woken \cup {u}, 0)
<1>1. /\ m_lock' = FALSE /\ m_value' = num
      /\ completed' = completed /\ m_pending_callbacks' = left
  BY Zenon DEF Release
<1>2. \/ \E u \in rest : Elects(u)
      \/ rest = {} /\ \E u \in woken : Elects(u)
      \/ /\ rest = {} /\ woken = {} /\ waiter' = waiter /\ m_waiters_list' = {}
         /\ \E c \in left : Returns({}, c.num)
      \/ /\ rest = {} /\ left = {} /\ waiter' = waiter /\ m_waiters_list' = {}
         /\ Returns(woken, 0)
  BY Zenon DEF Release
<1>3. ASSUME NEW wake, NEW ret, Returns(wake, ret)
      PROVE  /\ \A u \in Thread \ {t} : call'[u] = call[u]
             /\ call'[t].pc = "leader" /\ call'[t].wake = wake
             /\ call'[t].cbs = due /\ call'[t].ret = ret
  BY <1>3 DEF TypeOK, IdleFrame
<1>4. ASSUME NEW u \in m_waiters_list, Elects(u)
      PROVE  /\ \A v \in Thread \ {t} : call'[v] = call[v]
             /\ call'[t].pc = "leader" /\ call'[t].cbs = due
             /\ call'[t].wake = woken \cup {u}
             /\ m_waiters_list' = m_waiters_list \ call'[t].wake
             /\ waiter' = [waiter EXCEPT ![u].m_group_commit_leader = TRUE]
  <2>1. call'[t].wake = woken \cup {u}
    BY <1>3, <1>4, Zenon
  <2> QED
    BY <1>3, <1>4, <2>1, Zenon
<1>5. CASE \E u \in m_waiters_list : Elects(u)
  <2>1. PICK u \in m_waiters_list : Elects(u)
    BY <1>5, Zenon
  <2>2. /\ \A v \in Thread \ {t} : call'[v] = call[v]
        /\ call'[t].pc = "leader" /\ call'[t].cbs = due
        /\ call'[t].wake = woken \cup {u}
        /\ m_waiters_list' = m_waiters_list \ call'[t].wake
        /\ waiter' = [waiter EXCEPT ![u].m_group_commit_leader = TRUE]
    BY <1>4, <2>1, Zenon
  <2> HIDE DEF Elects, Returns, F
  <2>3. call'[t].wake \in SUBSET m_waiters_list /\ u \in call'[t].wake
    BY <2>1, <2>2
  <2>4. \A c \in call'[t].cbs : c.num <= num
    BY <2>2
  <2> QED
    BY <1>1, <2>2, <2>3, <2>4, Zenon
<1>6. CASE /\ rest = {} /\ woken = {} /\ waiter' = waiter
           /\ m_waiters_list' = {}
           /\ \E c \in left : Returns({}, c.num)
  <2>1. PICK c \in left : Returns({}, c.num)
    BY <1>6, Zenon
  <2>2. c.num > num
    BY DEF TypeOK, PendingCb
  <2>3. /\ \A u \in Thread \ {t} : call'[u] = call[u]
        /\ call'[t].pc = "leader" /\ call'[t].wake = {}
        /\ call'[t].cbs = due /\ call'[t].ret = c.num
    BY <1>3, <2>1, Zenon
  <2> QED
    BY <1>1, <1>6, <2>2, <2>3
<1>7. CASE /\ rest = {} /\ left = {} /\ waiter' = waiter
           /\ m_waiters_list' = {}
           /\ Returns(woken, 0)
  BY <1>1, <1>3, <1>7, Zenon
<1> QED
  BY <1>2, <1>5, <1>6, <1>7, Zenon

-----------------------------------------------------------------------------
(* What a step inside acquire() or release() may do *)

\* A step inside acquire() or release() takes a free lock or leaves m_lock
\* alone; no step of an owner is among them.
LEMMA StepLock ==
  ASSUME TypeOK, NEW t \in Thread, Step(t)
  PROVE  /\ \A u \in Thread \ {t} : call'[u] = call[u]
         /\ m_value' = m_value
         /\ call[t].pc # "ACQUIRED"
         /\ \/ call'[t].pc # "ACQUIRED" /\ m_lock' = m_lock
            \/ call'[t].pc = "ACQUIRED" /\ m_lock' = TRUE /\ m_lock = FALSE
<1>1. CASE FastPath(t)
  BY <1>1, GotoEffect DEF FastPath, ReturnExpired, lockVars
<1>2. CASE LoopTest(t)
  BY <1>2, GotoEffect DEF LoopTest, ReturnExpired, lockVars
<1>3. CASE AcquireExpired(t)
  BY <1>3, GotoEffect DEF AcquireExpired, ReturnExpired, lockVars
<1>4. CASE AcquireLock(t)
  BY <1>4, GotoEffect, Zenon DEF AcquireLock, TypeOK
<1>5. CASE AcquireQueue(t)
  BY <1>5, GotoEffect DEF AcquireQueue
<1>6. CASE AcquireWait(t)
  BY <1>6, GotoEffect DEF AcquireWait
<1>7. CASE SemaWait(t)
  BY <1>7, GotoEffect DEF SemaWait, lockVars
<1>8. CASE WakeLeader(t)
  <2>1. call[t].wake \in SUBSET Thread
    BY FrameFields DEF TypeOK
  <2>2. ASSUME NEW u \in call[t].wake, Wake(t, u, "callbacks")
        PROVE  /\ \A v \in Thread \ {t} : call'[v] = call[v]
               /\ call'[t].pc = "callbacks"
    BY <2>1, <2>2, WakeEffect, Zenon
  <2>3. ASSUME Goto(t, "callbacks")
        PROVE  /\ \A v \in Thread \ {t} : call'[v] = call[v]
               /\ call'[t].pc = "callbacks"
    BY <2>3, GotoEffect
  <2> QED
    BY <1>8, <2>2, <2>3 DEF WakeLeader, lockVars
<1>9. CASE RunCallbacks(t)
  BY <1>9, RunCallbacksEffect, Zenon DEF RunCallbacks, lockVars
<1>10. CASE WakeRest(t)
  <2>1. call[t].wake \in SUBSET Thread
    BY FrameFields DEF TypeOK
  <2>2. ASSUME NEW u \in call[t].wake, Wake(t, u, "rest")
        PROVE  /\ \A v \in Thread \ {t} : call'[v] = call[v]
               /\ call'[t].pc = "rest"
    BY <2>1, <2>2, WakeEffect, Zenon
  <2>3. ASSUME Goto(t, "released")
        PROVE  /\ \A v \in Thread \ {t} : call'[v] = call[v]
               /\ call'[t].pc = "released"
    BY <2>3, GotoEffect
  <2> QED
    BY <1>10, <2>2, <2>3 DEF WakeRest, lockVars
<1> QED
  BY <1>1, <1>2, <1>3, <1>4, <1>5, <1>6, <1>7, <1>8, <1>9, <1>10, Zenon DEF Step

(* An expired caller leaves acquire() without changing the lock. *)
LEMMA ExpiredEffect ==
  ASSUME TypeOK, NothingTooEarly, NEW t \in Thread, ReturnExpired(t),
         call[t].num <= m_value
  PROVE  /\ call'[t].num <= m_value
         /\ \A c \in completed' : c.num <= m_value
         /\ \A c \in call'[t].cbs : c.num <= m_value
<1>1. call'[t].num = call[t].num /\ call'[t].cbs = call[t].cbs
  BY GotoEffect DEF ReturnExpired
<1>2. \A c \in OwnCallback(t) : c.num <= m_value
  BY DEF OwnCallback
<1>3. completed' \subseteq completed \cup OwnCallback(t)
  BY DEF ReturnExpired, Complete
<1> QED
  BY <1>1, <1>2, <1>3 DEF NothingTooEarly

(* No step of the lock answers a caller before its number is covered. *)
LEMMA StepEarly ==
  ASSUME TypeOK, NothingTooEarly, NEW t \in Thread, Step(t)
  PROVE  /\ call'[t].pc = "EXPIRED" => call'[t].num <= m_value
         /\ \A c \in completed' : c.num <= m_value
         /\ \A c \in call'[t].cbs : c.num <= m_value
<1> DEFINE Goal == /\ call'[t].pc = "EXPIRED" => call'[t].num <= m_value
                   /\ \A c \in completed' : c.num <= m_value
                   /\ \A c \in call'[t].cbs : c.num <= m_value
<1>0. call[t].num \in Nat /\ m_value \in Nat /\ call[t].wake \in SUBSET Thread
  BY FrameFields DEF TypeOK
<1>1. ASSUME NEW pc, pc # "EXPIRED", Goto(t, pc), completed' = completed
      PROVE  Goal
  BY <1>1, GotoEffect DEF NothingTooEarly
<1>2. ASSUME NEW u \in call[t].wake, NEW pc, pc # "EXPIRED", Wake(t, u, pc),
             completed' = completed
      PROVE  Goal
  <2>1. u \in Thread
    BY <1>0
  <2>2. call'[t].pc = pc /\ call'[t].cbs = call[t].cbs
    BY Zenon, <1>2, <2>1, WakeEffect
  <2> QED
    BY <1>2, <2>2 DEF NothingTooEarly
<1>3. CASE FastPath(t)
  <2>1. CASE call[t].num <= m_value
    BY <1>3, <2>1, ExpiredEffect DEF FastPath
  <2>2. CASE ~(call[t].num <= m_value)
    BY <1>1, <1>3, <2>2 DEF FastPath
  <2> QED
    BY <2>1, <2>2
<1>4. CASE LoopTest(t)
  <2>1. CASE call[t].num > m_value \/ waiter[t].m_group_commit_leader
    BY <1>1, <1>4, <2>1 DEF LoopTest
  <2>2. CASE ~(call[t].num > m_value \/ waiter[t].m_group_commit_leader)
    BY <1>0, <1>4, <2>2, ExpiredEffect DEF LoopTest
  <2> QED
    BY <2>1, <2>2
<1>5. CASE AcquireExpired(t)
  BY <1>5, ExpiredEffect DEF AcquireExpired, ExpiredUnderMutex
<1>6. CASE AcquireLock(t)
  BY <1>1, <1>6 DEF AcquireLock
<1>7. CASE AcquireQueue(t)
  BY <1>1, <1>7 DEF AcquireQueue
<1>8. CASE AcquireWait(t)
  BY <1>1, <1>8 DEF AcquireWait
<1>9. CASE SemaWait(t)
  BY <1>1, <1>9 DEF SemaWait
<1>10. CASE WakeLeader(t)
  BY <1>1, <1>2, <1>10 DEF WakeLeader
<1>11. CASE RunCallbacks(t)
  BY Zenon, <1>11, RunCallbacksEffect DEF RunCallbacks, Complete, NothingTooEarly
<1>12. CASE WakeRest(t)
  BY <1>1, <1>2, <1>12 DEF WakeRest
<1> QED
  BY <1>3, <1>4, <1>5, <1>6, <1>7, <1>8, <1>9, <1>10, <1>11, <1>12 DEF Step

-----------------------------------------------------------------------------
(* The lock in the hands of any user *)

\* A request without a callback is not left to a callback.
QueuedCallback ==
    \A t \in Thread : call[t].pc = "CALLBACK_QUEUED" => call[t].cb # NoCallback

\* All that the users of a lock rely on.
LockOK == TypeOK /\ OneOwner /\ NothingTooEarly /\ QueuedCallback

(* The guarantees of the lock hold initially. *)
LEMMA LockInit == ClientInit => LockOK
<1> SUFFICES ASSUME ClientInit PROVE LockOK
  OBVIOUS
<1>1. TypeOK
  BY TypeInit
<1>2. OneOwner /\ NothingTooEarly /\ QueuedCallback
  BY DEF ClientInit, Init, OneOwner, NothingTooEarly, QueuedCallback, IdleFrame
<1> QED
  BY <1>1, <1>2, Zenon DEF LockOK

\* acquire() is called.
LEMMA LockStart ==
  ASSUME LockOK, NEW t \in Thread, NEW num \in Nat,
         NEW cb \in AnyCallback \cup {NoCallback},
         call[t].pc # "ACQUIRED", StartAcquire(t, num, cb), UNCHANGED issued
  PROVE  /\ LockOK'
         /\ \A u \in Thread \ {t} : call'[u] = call[u]
         /\ call'[t].pc = "fast" /\ call'[t].num = num /\ call'[t].cb = cb
         /\ call'[t].ret = 0
         /\ m_value' = m_value /\ m_pending_callbacks' = m_pending_callbacks
         /\ waiter' = waiter /\ completed' = completed
<1> TypeOK /\ OneOwner /\ NothingTooEarly /\ QueuedCallback
  BY DEF LockOK
<1>1. /\ \A u \in Thread \ {t} : call'[u] = call[u]
      /\ call'[t].pc = "fast" /\ call'[t].num = num /\ call'[t].cb = cb
      /\ call'[t].wake = {} /\ call'[t].cbs = {} /\ call'[t].ret = 0
      /\ UNCHANGED <<lockVars, waiter, completed>>
  BY StartEffect
<1>2. call' \in [Thread -> Frame]
  BY FrameNew, Zenon DEF TypeOK, StartAcquire
<1>3. TypeOK'
  BY <1>1, <1>2 DEF TypeOK, lockVars
<1>4. OneOwner'
  BY <1>1 DEF OneOwner, lockVars
<1>5. NothingTooEarly'
  BY <1>1 DEF NothingTooEarly, lockVars
<1>6. QueuedCallback'
  BY <1>1 DEF QueuedCallback
<1> QED
  BY <1>1, <1>3, <1>4, <1>5, <1>6, Zenon DEF LockOK, lockVars

\* The owner calls release().
LEMMA LockRelease ==
  ASSUME LockOK, NEW t \in Thread, NEW num \in m_value..MaxValue,
         call[t].pc = "ACQUIRED", Release(t, num), UNCHANGED issued
  PROVE  /\ LockOK'
         /\ \A u \in Thread \ {t} : call'[u] = call[u]
         /\ call'[t].pc = "leader" /\ call'[t].cb = NoCallback
         /\ \/ call'[t].ret = 0
            \/ \E c \in m_pending_callbacks : c.num > num /\ call'[t].ret = c.num
         /\ m_value' = num /\ m_pending_callbacks' \subseteq m_pending_callbacks
         /\ completed' = completed
<1> TypeOK /\ OneOwner /\ NothingTooEarly /\ QueuedCallback
  BY DEF LockOK
<1>0. num \in Nat /\ num >= m_value /\ m_value \in Nat
  BY MaxValueAssumption DEF TypeOK
<1>1. TypeOK'
  BY TypeRelease, Zenon DEF OwnerRelease
<1>2. /\ \A u \in Thread \ {t} : call'[u] = call[u]
      /\ call'[t].pc = "leader"
      /\ \A c \in call'[t].cbs : c.num <= num
      /\ m_lock' = FALSE /\ m_value' = num /\ completed' = completed
  BY <1>0, ReleaseEffect, Zenon
<1>3. m_pending_callbacks' = {c \in m_pending_callbacks : ~(c.num <= num)}
  <2>1. m_pending_callbacks' = m_pending_callbacks \ {c \in m_pending_callbacks : c.num <= num}
    BY Zenon DEF Release
  <2> QED
    BY <2>1
<1>4. OneOwner'
  BY <1>2, Zenon DEF OneOwner
<1>5. NothingTooEarly'
  <2>1. /\ \A u \in Thread : call[u].num \in Nat
        /\ \A u \in Thread : \A c \in call[u].cbs : c.num \in Nat
        /\ \A c \in completed : c.num \in Nat
    BY FrameFields DEF TypeOK, PendingCb
  <2> QED
    BY <1>0, <1>2, <2>1 DEF NothingTooEarly
<1>6. QueuedCallback'
  BY <1>2 DEF QueuedCallback
<1>7. /\ call'[t].cb = NoCallback
      /\ \/ call'[t].ret = 0
         \/ \E c \in m_pending_callbacks : c.num > num /\ call'[t].ret = c.num
  <2> DEFINE due == {c \in m_pending_callbacks : c.num <= num}
             F(wake, ret) == [IdleFrame EXCEPT !.pc = "leader", !.wake = wake,
                                               !.cbs = due, !.ret = ret]
  <2>1. ASSUME NEW wake, NEW ret, call' = [call EXCEPT ![t] = F(wake, ret)]
        PROVE  call'[t].cb = NoCallback /\ call'[t].ret = ret
    BY <2>1 DEF TypeOK, IdleFrame
  <2>2. \/ \E wake : call' = [call EXCEPT ![t] = F(wake, 0)]
        \/ \E c \in m_pending_callbacks \ due :
             call' = [call EXCEPT ![t] = F({}, c.num)]
    BY Zenon DEF Release
  <2>3. \A c \in m_pending_callbacks \ due : c.num > num
    BY <1>0 DEF TypeOK, PendingCb
  <2> HIDE DEF F, due
  <2>4. CASE \E wake : call' = [call EXCEPT ![t] = F(wake, 0)]
    BY <2>1, <2>4, Zenon
  <2>5. CASE \E c \in m_pending_callbacks \ due :
               call' = [call EXCEPT ![t] = F({}, c.num)]
    <3>1. PICK c \in m_pending_callbacks \ due :
                call' = [call EXCEPT ![t] = F({}, c.num)]
      BY Zenon, <2>5
    <3> QED
      BY <2>1, <2>3, <3>1, Zenon
  <2> QED
    BY <2>2, <2>4, <2>5, Zenon
<1> QED
  BY <1>1, <1>2, <1>3, <1>4, <1>5, <1>6, <1>7 DEF LockOK

\* The thread goes on inside acquire() or release().
LEMMA LockStep ==
  ASSUME LockOK, NEW t \in Thread, Step(t), UNCHANGED issued
  PROVE  /\ LockOK'
         /\ \A u \in Thread \ {t} : call'[u] = call[u]
         /\ call'[t].num = call[t].num /\ call'[t].cb = call[t].cb
         /\ call'[t].ret = call[t].ret
         /\ \/ /\ call[t].pc \in InAcquire
               /\ call'[t].pc \in InAcquire \cup {"ACQUIRED", "EXPIRED", "CALLBACK_QUEUED"}
            \/ /\ call[t].pc \in InRelease
               /\ call'[t].pc \in InRelease \cup {"released"}
         /\ m_value' = m_value
         /\ \A c \in m_pending_callbacks' :
              \/ c \in m_pending_callbacks
              \/ call[t].cb # NoCallback /\ c.num = call[t].num
<1> TypeOK /\ OneOwner /\ NothingTooEarly /\ QueuedCallback
  BY DEF LockOK
<1> DEFINE From == \/ /\ call[t].pc \in InAcquire
                      /\ call'[t].pc \in InAcquire \cup {"ACQUIRED", "EXPIRED", "CALLBACK_QUEUED"}
                   \/ /\ call[t].pc \in InRelease
                      /\ call'[t].pc \in InRelease \cup {"released"}
           Same == /\ call'[t].num = call[t].num /\ call'[t].cb = call[t].cb
                   /\ call'[t].ret = call[t].ret
           Mine == /\ From /\ Same
                   /\ call'[t].pc = "CALLBACK_QUEUED" => call'[t].cb # NoCallback
           Pending == \A c \in m_pending_callbacks' :
                        \/ c \in m_pending_callbacks
                        \/ call[t].cb # NoCallback /\ c.num = call[t].num
<1>0. \A c \in OwnCallback(t) : call[t].cb # NoCallback /\ c.num = call[t].num
  BY DEF OwnCallback
<1>1. ASSUME NEW pc, Goto(t, pc)
      PROVE  Same /\ call'[t].pc = pc
  BY <1>1, GotoEffect
<1>2. ASSUME NEW u \in call[t].wake, NEW pc, Wake(t, u, pc)
      PROVE  Same /\ call'[t].pc = pc
  <2>1. u \in Thread
    BY FrameFields DEF TypeOK
  <2> QED
    BY Zenon, <1>2, <2>1, WakeEffect
<1>3. Mine /\ Pending
  <2>1. CASE FastPath(t)
    BY <1>1, <2>1 DEF FastPath, ReturnExpired, lockVars, InAcquire
  <2>2. CASE LoopTest(t)
    BY <1>1, <2>2 DEF LoopTest, ReturnExpired, lockVars, InAcquire
  <2>3. CASE AcquireExpired(t)
    BY <1>1, <2>3 DEF AcquireExpired, ReturnExpired, lockVars, InAcquire
  <2>4. CASE AcquireLock(t)
    BY <1>0, <1>1, <2>4 DEF AcquireLock, QueueCallback, InAcquire
  <2>5. CASE AcquireQueue(t)
    BY <1>0, <1>1, <2>5 DEF AcquireQueue, QueueCallback, MayQueue, InAcquire
  <2>6. CASE AcquireWait(t)
    BY <1>1, <2>6 DEF AcquireWait, InAcquire
  <2>7. CASE SemaWait(t)
    BY <1>1, <2>7 DEF SemaWait, lockVars, InAcquire
  <2>8. CASE WakeLeader(t)
    BY <1>1, <1>2, <2>8 DEF WakeLeader, lockVars, InRelease
  <2>9. CASE RunCallbacks(t)
    BY Zenon, <2>9, RunCallbacksEffect DEF RunCallbacks, lockVars, InRelease
  <2>10. CASE WakeRest(t)
    BY <1>1, <1>2, <2>10 DEF WakeRest, lockVars, InRelease
  <2> QED
    BY <2>1, <2>2, <2>3, <2>4, <2>5, <2>6, <2>7, <2>8, <2>9, <2>10, Zenon DEF Step
<1>4. TypeOK'
  BY TypeStep
<1>5. /\ \A u \in Thread \ {t} : call'[u] = call[u]
      /\ m_value' = m_value
  BY Zenon, StepLock
<1>6. OneOwner'
  <2>1. CASE call'[t].pc # "ACQUIRED" /\ m_lock' = m_lock
    BY <2>1, StepLock, Zenon DEF OneOwner
  <2>2. CASE call'[t].pc = "ACQUIRED" /\ m_lock' = TRUE /\ m_lock = FALSE
    BY <2>2, StepLock, Zenon DEF OneOwner
  <2> QED
    BY <2>1, <2>2, StepLock, Zenon
<1>7. NothingTooEarly'
  BY <1>5, StepEarly DEF NothingTooEarly
<1>8. QueuedCallback'
  BY <1>3, <1>5 DEF QueuedCallback
<1> QED
  BY <1>3, <1>4, <1>5, <1>6, <1>7, <1>8, Zenon DEF LockOK

\* The owner calls set_pending().
LEMMA LockPending ==
  ASSUME LockOK, NEW num \in Nat, set_pending(num), UNCHANGED issued
  PROVE  LockOK'
  BY DEF LockOK, TypeOK, OneOwner, NothingTooEarly, QueuedCallback, set_pending

\* A call has returned, and its result is known.
LEMMA LockLeave ==
  ASSUME LockOK, NEW t \in Thread, call[t].pc # "ACQUIRED",
         call' = [call EXCEPT ![t] = IdleFrame],
         UNCHANGED <<lockVars, waiter, completed, issued>>
  PROVE  /\ LockOK'
         /\ \A u \in Thread \ {t} : call'[u] = call[u]
         /\ call'[t] = IdleFrame
<1> TypeOK /\ OneOwner /\ NothingTooEarly /\ QueuedCallback
  BY DEF LockOK
<1>1. (\A u \in Thread \ {t} : call'[u] = call[u]) /\ call'[t] = IdleFrame
  BY DEF TypeOK
<1>2. IdleFrame.pc = "idle" /\ IdleFrame.cbs = {}
  BY DEF IdleFrame
<1>3. TypeOK'
  BY FrameNew, Zenon DEF TypeOK, lockVars
<1>4. OneOwner' /\ NothingTooEarly' /\ QueuedCallback'
  BY <1>1, <1>2 DEF OneOwner, NothingTooEarly, QueuedCallback, lockVars
<1> QED
  BY <1>1, <1>3, <1>4, Zenon DEF LockOK

\* Nothing happens to this lock, but perhaps to the waiters it shares with
\* another one.
LEMMA LockSame ==
  ASSUME LockOK, waiter' \in [Thread -> Waiter],
         UNCHANGED <<lockVars, call, completed, issued>>
  PROVE  LockOK'
  BY DEF LockOK, TypeOK, OneOwner, NothingTooEarly, QueuedCallback, lockVars


-----------------------------------------------------------------------------
(* Type correctness: inductive as it stands *)

(* Entering acquire() keeps the types. *)
LEMMA TypeAcquire ==
  ASSUME TypeOK, NEW t \in Thread, Acquire(t) \/ Again(t)
  PROVE  TypeOK'
<1>1. PICK num \in Nat, cb \in AnyCallback \cup {NoCallback} :
        StartAcquire(t, num, cb)
  BY MaxValueAssumption, FrameFields DEF Acquire, Again, TypeOK, AnyCallback
<1>2. call' \in [Thread -> Frame]
  BY <1>1, FrameNew, Zenon DEF TypeOK, StartAcquire
<1>3. issued' \in SUBSET Callback
  BY DEF Acquire, Again, TypeOK
<1> QED
  BY <1>1, <1>2, <1>3 DEF TypeOK, StartAcquire, lockVars

(* Every step of the lock and its clients keeps the types. *)
LEMMA TypeNext == TypeOK /\ [Next]_clientVars => TypeOK'
<1> SUFFICES ASSUME TypeOK, [Next]_clientVars PROVE TypeOK'
  OBVIOUS
<1>1. CASE UNCHANGED clientVars
  BY <1>1 DEF TypeOK, clientVars, vars, lockVars
<1>2. ASSUME NEW t \in Thread, SetPending(t) PROVE TypeOK'
  BY <1>2, MaxValueAssumption DEF TypeOK, SetPending, set_pending
<1>3. ASSUME NEW t \in Thread, Finish(t) PROVE TypeOK'
  BY <1>3, FrameNew, Zenon DEF TypeOK, Finish, lockVars
<1> QED
  BY <1>1, <1>2, <1>3, TypeAcquire, TypeRelease, TypeStep DEF Next

\* Every reachable state is well typed: release() returns numbers, wakes
\* threads and runs callbacks that were handed to acquire() with a number.
THEOREM TypeCorrect == Spec => []TypeOK
  BY TypeInit, TypeNext, PTL DEF Spec

(* Leaving an operation resets the record of the thread that leaves. *)
LEMMA FinishEffect ==
  ASSUME TypeOK, NEW t \in Thread, Finish(t)
  PROVE  /\ \A u \in Thread \ {t} : call'[u] = call[u]
         /\ call'[t] = IdleFrame
         /\ UNCHANGED <<lockVars, waiter, completed>>
  BY DEF TypeOK, Finish

-----------------------------------------------------------------------------
(* Mutual exclusion *)

(* Every step keeps the owner unique. *)
LEMMA OneOwnerNext ==
  TypeOK /\ OneOwner /\ [Next]_clientVars => OneOwner'
<1> SUFFICES ASSUME TypeOK, OneOwner, [Next]_clientVars PROVE OneOwner'
  OBVIOUS
<1>1. CASE UNCHANGED clientVars
  BY <1>1 DEF OneOwner, clientVars, vars, lockVars
<1>2. ASSUME NEW t \in Thread, Acquire(t) \/ Again(t) PROVE OneOwner'
  <2>1. PICK num, cb : StartAcquire(t, num, cb)
    BY <1>2 DEF Acquire, Again
  <2>2. call[t].pc # "ACQUIRED"
    BY <1>2 DEF Acquire, Again
  <2> QED
    BY <2>1, <2>2, StartEffect DEF OneOwner, lockVars
<1>3. ASSUME NEW t \in Thread, SetPending(t) PROVE OneOwner'
  BY <1>3 DEF OneOwner, SetPending, set_pending
<1>4. ASSUME NEW t \in Thread, OwnerRelease(t) PROVE OneOwner'
  <2>1. PICK num \in Nat : Release(t, num)
    BY <1>4, MaxValueAssumption DEF OwnerRelease, TypeOK
  <2> QED
    BY <1>4, <2>1, ReleaseEffect, Zenon DEF OneOwner, OwnerRelease
<1>5. ASSUME NEW t \in Thread, Finish(t) PROVE OneOwner'
  BY <1>5, FinishEffect DEF OneOwner, Finish, IdleFrame, lockVars
<1>6. ASSUME NEW t \in Thread, Step(t) PROVE OneOwner'
  <2>1. CASE call'[t].pc # "ACQUIRED" /\ m_lock' = m_lock
    BY <1>6, <2>1, StepLock, Zenon DEF OneOwner
  <2>2. CASE call'[t].pc = "ACQUIRED" /\ m_lock' = TRUE /\ m_lock = FALSE
    BY <1>6, <2>2, StepLock, Zenon DEF OneOwner
  <2> QED
    BY <1>6, <2>1, <2>2, StepLock, Zenon
<1> QED
  BY <1>1, <1>2, <1>3, <1>4, <1>5, <1>6 DEF Next

\* At most one thread is the leader of the group commit lock at any time, so
\* that the redo log is written, or flushed, by one thread.
THEOREM MutualExclusion == Spec => []OneOwner
<1>1. ClientInit => OneOwner
  BY DEF ClientInit, Init, OneOwner, IdleFrame
<1> QED
  BY <1>1, TypeCorrect, OneOwnerNext, PTL DEF Spec

-----------------------------------------------------------------------------
(* Nothing too early *)

(* No step answers a caller before its number is covered. *)
LEMMA NothingTooEarlyNext ==
  TypeOK /\ NothingTooEarly /\ [Next]_clientVars => NothingTooEarly'
<1> SUFFICES ASSUME TypeOK, NothingTooEarly, [Next]_clientVars
             PROVE  NothingTooEarly'
  OBVIOUS
<1>1. CASE UNCHANGED clientVars
  BY <1>1 DEF NothingTooEarly, clientVars, vars, lockVars
<1>2. ASSUME NEW t \in Thread, Acquire(t) \/ Again(t) PROVE NothingTooEarly'
  <2>1. PICK num, cb : StartAcquire(t, num, cb)
    BY <1>2 DEF Acquire, Again
  <2> QED
    BY <2>1, StartEffect DEF NothingTooEarly, lockVars
<1>3. ASSUME NEW t \in Thread, SetPending(t) PROVE NothingTooEarly'
  BY <1>3 DEF NothingTooEarly, SetPending, set_pending
<1>4. ASSUME NEW t \in Thread, OwnerRelease(t) PROVE NothingTooEarly'
  <2>1. PICK num \in Nat : Release(t, num) /\ num >= m_value
    BY <1>4, MaxValueAssumption DEF OwnerRelease, TypeOK
  <2>2. /\ \A u \in Thread : call[u].num \in Nat
        /\ \A u \in Thread : \A c \in call[u].cbs : c.num \in Nat
        /\ \A c \in completed : c.num \in Nat
        /\ m_value \in Nat
    BY FrameFields DEF TypeOK, PendingCb
  <2>3. /\ m_value' = num /\ completed' = completed
        /\ \A u \in Thread \ {t} : call'[u] = call[u]
        /\ call'[t].pc = "leader"
        /\ \A c \in call'[t].cbs : c.num <= num
    BY Zenon, <2>1, ReleaseEffect
  <2> QED
    BY <2>1, <2>2, <2>3 DEF NothingTooEarly
<1>5. ASSUME NEW t \in Thread, Finish(t) PROVE NothingTooEarly'
  BY <1>5, FinishEffect DEF NothingTooEarly, IdleFrame, lockVars
<1>6. ASSUME NEW t \in Thread, Step(t) PROVE NothingTooEarly'
  BY Zenon, <1>6, StepLock, StepEarly DEF NothingTooEarly
<1> QED
  BY <1>1, <1>2, <1>3, <1>4, <1>5, <1>6 DEF Next

\* acquire() reports EXPIRED, and release() runs a completion callback, only
\* when the value has reached the number: no commit is acknowledged early.
THEOREM NeverTooEarly == Spec => []NothingTooEarly
<1>1. ClientInit => NothingTooEarly
  BY DEF ClientInit, Init, NothingTooEarly, IdleFrame
<1> QED
  BY <1>1, TypeCorrect, NothingTooEarlyNext, PTL DEF Spec

-----------------------------------------------------------------------------
(* NoLostWakeup *)

\* The inductive form of NoLostWakeup, one fact per way of being asleep; the
\* last conjunct says that nothing is left in a wakeup_list that was walked.
SleepInv ==
    /\ \A t \in m_waiters_list :
         /\ call[t].pc = "sleep" /\ waiter[t].m_signalled = FALSE
         /\ \A u \in Thread : t \notin call[u].wake
    /\ \A t, u \in Thread : t \in call[u].wake =>
         /\ call[t].pc = "sleep" /\ waiter[t].m_signalled = FALSE
         /\ t \notin m_waiters_list
    /\ \A t, u, v \in Thread :
         t \in call[u].wake /\ t \in call[v].wake => u = v
    /\ \A t \in Thread : waiter[t].m_signalled = TRUE => call[t].pc = "sleep"
    /\ \A t \in Thread : call[t].pc = "sleep" =>
         \/ t \in m_waiters_list \/ waiter[t].m_signalled = TRUE
         \/ \E u \in Thread : t \in call[u].wake
    /\ \A t \in Thread : call[t].pc \notin InRelease => call[t].wake = {}

(* The sleepers' invariant excludes a lost wake-up. *)
LEMMA SleepInvImplies == TypeOK /\ SleepInv => NoLostWakeup
<1> SUFFICES ASSUME TypeOK, SleepInv, NEW t \in Thread
             PROVE  /\ call[t].pc = "sleep" =>
                         \/ /\ t \in m_waiters_list
                            /\ Wakers(t) = {} /\ ~waiter[t].m_signalled
                         \/ /\ t \notin m_waiters_list
                            /\ ~waiter[t].m_signalled
                            /\ \E u \in Thread : Wakers(t) = {u}
                         \/ /\ t \notin m_waiters_list
                            /\ waiter[t].m_signalled
                            /\ Wakers(t) = {}
                    /\ call[t].pc # "sleep" =>
                         /\ t \notin m_waiters_list /\ Wakers(t) = {}
                         /\ ~waiter[t].m_signalled
  BY Zenon DEF NoLostWakeup
<1>1. waiter[t].m_signalled \in BOOLEAN
  BY DEF TypeOK, Waiter
<1>2. ASSUME \A u \in Thread : t \notin call[u].wake PROVE Wakers(t) = {}
  BY <1>2 DEF Wakers
<1>3. ASSUME NEW u \in Thread, t \in call[u].wake PROVE Wakers(t) = {u}
  BY <1>3 DEF Wakers, SleepInv
<1>4. CASE t \in m_waiters_list
  BY <1>2, <1>4 DEF SleepInv
<1>5. CASE \E u \in Thread : t \in call[u].wake
  BY <1>3, <1>5 DEF SleepInv
<1>6. CASE t \notin m_waiters_list /\ \A u \in Thread : t \notin call[u].wake
  BY <1>1, <1>2, <1>6 DEF SleepInv
<1> QED
  BY <1>4, <1>5, <1>6

\* A step of t that neither sleeps, wakes nor moves anything between the lists.
LEMMA SleepQuiet ==
  ASSUME SleepInv, NEW t \in Thread,
         \A u \in Thread \ {t} : call'[u] = call[u],
         call'[t].wake = call[t].wake,
         call[t].pc # "sleep", call'[t].pc # "sleep",
         call'[t].pc \notin InRelease => call'[t].wake = {},
         m_waiters_list' = m_waiters_list,
         \A u \in Thread : waiter'[u].m_signalled = waiter[u].m_signalled,
         m_waiters_list \in SUBSET Thread
  PROVE  SleepInv'
<1>1. \A u \in Thread : call'[u].wake = call[u].wake
  OBVIOUS
<1>2. \A u \in Thread : call'[u].pc = "sleep" <=> call[u].pc = "sleep"
  OBVIOUS
<1> QED
  BY <1>1, <1>2 DEF SleepInv

\* The thread is linked into the list before m_mtx is unlocked.
LEMMA SleepWait ==
  ASSUME TypeOK, SleepInv, NEW t \in Thread, AcquireWait(t)
  PROVE  SleepInv'
<1>1. /\ \A u \in Thread \ {t} : call'[u] = call[u]
      /\ call'[t].pc = "sleep" /\ call'[t].wake = call[t].wake
  BY GotoEffect DEF AcquireWait
<1>2. call[t].pc = "mutex" /\ m_waiters_list' = m_waiters_list \cup {t}
  BY DEF AcquireWait
<1>3. \A u \in Thread : waiter'[u].m_signalled = waiter[u].m_signalled
  BY DEF AcquireWait, TypeOK, Waiter
<1>4. /\ call[t].wake = {} /\ t \notin m_waiters_list
      /\ waiter[t].m_signalled = FALSE
      /\ \A u \in Thread : t \notin call[u].wake
  BY Zenon, <1>2 DEF SleepInv, InRelease, TypeOK, Waiter
<1>5. m_waiters_list \in SUBSET Thread
  BY DEF TypeOK
<1>6. \A u \in Thread : call'[u].wake = call[u].wake
  BY <1>1
<1> QED
  BY <1>1, <1>2, <1>3, <1>4, <1>5, <1>6 DEF SleepInv

(* Leaving the semaphore keeps the sleepers' invariant. *)
LEMMA SleepSema ==
  ASSUME TypeOK, SleepInv, NEW t \in Thread, SemaWait(t)
  PROVE  SleepInv'
<1>1. /\ \A u \in Thread \ {t} : call'[u] = call[u]
      /\ call'[t].pc = "test" /\ call'[t].wake = call[t].wake
  BY GotoEffect DEF SemaWait
<1>2. /\ call[t].pc = "sleep" /\ waiter[t].m_signalled = TRUE
      /\ m_waiters_list' = m_waiters_list
  BY DEF SemaWait, lockVars, TypeOK, Waiter
<1>3. /\ \A u \in Thread \ {t} : waiter'[u] = waiter[u]
      /\ waiter'[t].m_signalled = FALSE
  BY DEF SemaWait, TypeOK, Waiter
<1>4. /\ call[t].wake = {} /\ t \notin m_waiters_list
      /\ \A u \in Thread : t \notin call[u].wake
  BY <1>2 DEF SleepInv, InRelease
<1>5. m_waiters_list \in SUBSET Thread
  BY DEF TypeOK
<1>6. \A u \in Thread : call'[u].wake = call[u].wake
  BY <1>1
<1> QED
  BY <1>1, <1>2, <1>3, <1>4, <1>5, <1>6 DEF SleepInv

(* Waking the next thread of a list keeps the sleepers' invariant. *)
LEMMA SleepWake ==
  ASSUME TypeOK, SleepInv, NEW t \in Thread, NEW u \in Thread,
         NEW pc \in {"callbacks", "rest"}, u \in call[t].wake, Wake(t, u, pc),
         m_waiters_list' = m_waiters_list
  PROVE  SleepInv'
<1>1. /\ \A v \in Thread \ {t} : call'[v] = call[v]
      /\ call'[t].pc = pc /\ call'[t].wake = call[t].wake \ {u}
      /\ \A v \in Thread \ {u} : waiter'[v] = waiter[v]
      /\ waiter'[u].m_signalled = TRUE
  BY Zenon, WakeEffect
<1>2. call[t].pc \in InRelease /\ pc \in InRelease /\ pc # "sleep"
  BY DEF SleepInv, InRelease
<1>3. call[t].pc # "sleep"
  BY <1>2 DEF InRelease
<1>4. /\ call[u].pc = "sleep" /\ u \notin m_waiters_list /\ u # t
      /\ \A v \in Thread \ {t} : u \notin call[v].wake
  BY Zenon, <1>3 DEF SleepInv
<1>5. m_waiters_list \in SUBSET Thread
  BY DEF TypeOK
<1>6. \A v \in Thread : /\ call'[v].pc = "sleep" <=> call[v].pc = "sleep"
                        /\ call'[v].wake = call[v].wake \ {u}
  BY <1>1, <1>2, <1>3, <1>4
<1> QED
  BY <1>1, <1>2, <1>4, <1>5, <1>6 DEF SleepInv

(* release() keeps the sleepers' invariant: who leaves the queue is on the wake list. *)
LEMMA SleepRelease ==
  ASSUME TypeOK, SleepInv, NEW t \in Thread, NEW num \in Nat,
         call[t].pc = "ACQUIRED", Release(t, num)
  PROVE  SleepInv'
<1>1. /\ \A u \in Thread \ {t} : call'[u] = call[u]
      /\ call'[t].pc = "leader"
      /\ call'[t].wake \in SUBSET m_waiters_list
      /\ m_waiters_list' = m_waiters_list \ call'[t].wake
  BY Zenon, ReleaseEffect
<1>2. \A u \in Thread : waiter'[u].m_signalled = waiter[u].m_signalled
  <2>1. \/ waiter' = waiter
        \/ \E u \in m_waiters_list :
             waiter' = [waiter EXCEPT ![u].m_group_commit_leader = TRUE]
    BY Zenon, <1>1, ReleaseEffect
  <2> QED
    BY <2>1 DEF TypeOK, Waiter
<1>3. call[t].wake = {} /\ t \notin m_waiters_list
  BY DEF SleepInv, InRelease
<1>4. m_waiters_list \in SUBSET Thread
  BY DEF TypeOK
<1>5. \A u \in Thread : call'[u].pc = "sleep" <=> call[u].pc = "sleep"
  BY <1>1
<1>6. "leader" \in InRelease
  BY DEF InRelease
<1> QED
  BY <1>1, <1>2, <1>3, <1>4, <1>5, <1>6 DEF SleepInv

(* Every step inside the lock keeps the sleepers' invariant. *)
LEMMA SleepStep ==
  ASSUME TypeOK, SleepInv, NEW t \in Thread, Step(t)
  PROVE  SleepInv'
<1>0. m_waiters_list \in SUBSET Thread /\ call[t].wake \in SUBSET Thread
  BY Zenon, FrameFields DEF TypeOK
<1>1. ASSUME NEW pc, pc # "sleep", call[t].pc # "sleep", Goto(t, pc),
             pc \in InRelease \/ call[t].wake = {},
             m_waiters_list' = m_waiters_list,
             \A u \in Thread : waiter'[u].m_signalled = waiter[u].m_signalled
      PROVE  SleepInv'
  <2>1. /\ \A u \in Thread \ {t} : call'[u] = call[u]
        /\ call'[t].pc = pc /\ call'[t].wake = call[t].wake
    BY Zenon, <1>1, GotoEffect
  <2> QED
    BY Zenon, <1>0, <1>1, <2>1, SleepQuiet
<1>2. call[t].pc \in InAcquire => call[t].wake = {}
  BY Zenon DEF SleepInv, InAcquire, InRelease
<1>3. CASE FastPath(t)
  <2>1. \A u \in Thread : waiter'[u].m_signalled = waiter[u].m_signalled
    <3> DEFINE w == [waiter[t] EXCEPT !.m_value = call[t].num,
                                      !.m_group_commit_leader = FALSE]
    <3>1. waiter' = waiter \/ waiter' = [waiter EXCEPT ![t] = w]
      BY <1>3 DEF FastPath
    <3>2. w.m_signalled = waiter[t].m_signalled
      BY DEF TypeOK, Waiter
    <3> QED
      BY Zenon, <3>1, <3>2 DEF TypeOK
  <2> QED
    BY <1>1, <1>2, <1>3, <2>1 DEF FastPath, ReturnExpired, lockVars, InAcquire
<1>4. CASE LoopTest(t)
  BY Zenon, <1>1, <1>2, <1>4 DEF LoopTest, ReturnExpired, lockVars, InAcquire
<1>5. CASE AcquireExpired(t)
  BY Zenon, <1>1, <1>2, <1>5 DEF AcquireExpired, ReturnExpired, lockVars, InAcquire
<1>6. CASE AcquireLock(t)
  BY Zenon, <1>1, <1>2, <1>6 DEF AcquireLock, InAcquire
<1>7. CASE AcquireQueue(t)
  BY Zenon, <1>1, <1>2, <1>7 DEF AcquireQueue, InAcquire
<1>8. CASE AcquireWait(t)
  BY <1>8, SleepWait
<1>9. CASE SemaWait(t)
  BY <1>9, SleepSema
<1>10. CASE WakeLeader(t)
  <2>1. CASE Goto(t, "callbacks") /\ UNCHANGED waiter
    BY Zenon, <1>1, <1>10, <2>1 DEF WakeLeader, lockVars, InRelease
  <2>2. ASSUME NEW u \in call[t].wake, Wake(t, u, "callbacks") PROVE SleepInv'
    BY Zenon, <1>0, <1>10, <2>2, SleepWake DEF WakeLeader, lockVars
  <2> QED
    BY <1>10, <2>1, <2>2 DEF WakeLeader
<1>11. CASE RunCallbacks(t)
  <2>1. /\ \A u \in Thread \ {t} : call'[u] = call[u]
        /\ call'[t].pc = "rest" /\ call'[t].wake = call[t].wake
    BY Zenon, <1>11, RunCallbacksEffect
  <2>2. /\ call[t].pc = "callbacks" /\ "rest" \in InRelease
        /\ m_waiters_list' = m_waiters_list /\ waiter' = waiter
    BY <1>11 DEF RunCallbacks, InRelease, lockVars
  <2> QED
    BY Zenon, <1>0, <2>1, <2>2, SleepQuiet
<1>12. CASE WakeRest(t)
  <2>1. CASE call[t].wake = {} /\ Goto(t, "released") /\ UNCHANGED waiter
    BY Zenon, <1>1, <1>12, <2>1 DEF WakeRest, lockVars
  <2>2. ASSUME NEW u \in call[t].wake, Wake(t, u, "rest") PROVE SleepInv'
    BY Zenon, <1>0, <1>12, <2>2, SleepWake DEF WakeRest, lockVars
  <2> QED
    BY <1>12, <2>1, <2>2 DEF WakeRest
<1> QED
  BY <1>3, <1>4, <1>5, <1>6, <1>7, <1>8, <1>9, <1>10, <1>11, <1>12 DEF Step

(* Every step of the lock and its clients keeps the sleepers' invariant. *)
LEMMA SleepNext == TypeOK /\ SleepInv /\ [Next]_clientVars => SleepInv'
<1> SUFFICES ASSUME TypeOK, SleepInv, [Next]_clientVars PROVE SleepInv'
  OBVIOUS
<1>0. m_waiters_list \in SUBSET Thread
  BY DEF TypeOK
<1>1. CASE UNCHANGED clientVars
  BY Zenon, <1>1 DEF SleepInv, clientVars, vars, lockVars
<1>2. ASSUME NEW t \in Thread, Acquire(t) \/ Again(t) PROVE SleepInv'
  <2>1. PICK num, cb : StartAcquire(t, num, cb)
    BY <1>2 DEF Acquire, Again
  <2>2. call[t].pc \in {"idle", "released"}
    BY <1>2 DEF Acquire, Again
  <2>3. call[t].wake = {}
    BY <2>2 DEF SleepInv, InRelease
  <2>4. /\ \A u \in Thread \ {t} : call'[u] = call[u]
        /\ call'[t].pc = "fast" /\ call'[t].wake = {}
        /\ m_waiters_list' = m_waiters_list /\ waiter' = waiter
    BY <2>1, StartEffect DEF lockVars
  <2> QED
    BY Zenon, <1>0, <2>2, <2>3, <2>4, SleepQuiet
<1>3. ASSUME NEW t \in Thread, SetPending(t) PROVE SleepInv'
  BY Zenon, <1>3 DEF SleepInv, SetPending, set_pending
<1>4. ASSUME NEW t \in Thread, OwnerRelease(t) PROVE SleepInv'
  <2>1. PICK num \in Nat : Release(t, num)
    BY <1>4, MaxValueAssumption DEF OwnerRelease, TypeOK
  <2> QED
    BY <1>4, <2>1, SleepRelease DEF OwnerRelease
<1>5. ASSUME NEW t \in Thread, Finish(t) PROVE SleepInv'
  <2>1. call[t].pc \in {"EXPIRED", "CALLBACK_QUEUED", "released"}
    BY <1>5 DEF Finish
  <2>2. call[t].wake = {}
    BY Zenon, <2>1 DEF SleepInv, InRelease
  <2>3. /\ \A u \in Thread \ {t} : call'[u] = call[u]
        /\ call'[t].pc = "idle" /\ call'[t].wake = {}
        /\ m_waiters_list' = m_waiters_list /\ waiter' = waiter
    BY <1>5, FinishEffect DEF lockVars, IdleFrame
  <2> QED
    BY Zenon, <1>0, <2>1, <2>2, <2>3, SleepQuiet
<1>6. ASSUME NEW t \in Thread, Step(t) PROVE SleepInv'
  BY <1>6, SleepStep
<1> QED
  BY <1>1, <1>2, <1>3, <1>4, <1>5, <1>6 DEF Next

(* The sleepers' invariant holds in every reachable state. *)
LEMMA SleepAlways == Spec => []SleepInv
<1>1. ClientInit => SleepInv
  BY DEF ClientInit, Init, SleepInv, IdleFrame
<1> QED
  BY <1>1, TypeCorrect, SleepNext, PTL DEF Spec

\* A thread asleep in acquire() is in the list, or in the wakeup_list of one
\* release(), or signalled, and never in two of these places: every wake-up
\* is sent exactly once, after m_mtx has been released by whoever sends it.
THEOREM WakeupsExact == Spec => []NoLostWakeup
  BY TypeCorrect, SleepAlways, SleepInvImplies, PTL

-----------------------------------------------------------------------------
(* NobodyStranded *)

\* While the lock is free, a responsible thread stays responsible until it
\* takes the lock, whatever it and the others do.
LEMMA ResponsibleStep ==
  ASSUME TypeOK, SleepInv, NEW t \in Thread, Step(t), m_lock = FALSE,
         m_lock' = FALSE, NEW r \in Thread, Responsible(r)
  PROVE  Responsible(r)'
<1>0. call[t].num \in Nat /\ m_value \in Nat /\ call[t].wake \in SUBSET Thread
      /\ call[t].ret \in Nat /\ call[r].num \in Nat
  BY Zenon, FrameFields DEF TypeOK
<1>1. m_value' = m_value /\ \A u \in Thread \ {t} : call'[u] = call[u]
  BY Zenon, StepLock
<1>2. ASSUME \A u \in Thread : waiter'[u].m_group_commit_leader
                                 = waiter[u].m_group_commit_leader,
             m_waiters_list' = m_waiters_list,
             \/ r # t
             \/ /\ call'[t].num = call[t].num /\ call'[t].ret = call[t].ret
                /\ \/ call[t].pc \in {"test", "sleep"}
                      /\ call'[t].pc \in {"test", "mutex"}
                   \/ call[t].pc \in InRelease
                      /\ call'[t].pc \in InRelease \cup {"released"}
      PROVE  Responsible(r)'
  BY Zenon, <1>1, <1>2 DEF Responsible, InRelease
<1>3. CASE FastPath(t)
  <2>1. CASE r # t
    <3>1. waiter'[r] = waiter[r] /\ m_waiters_list' = m_waiters_list
      BY <1>3, <2>1 DEF FastPath, lockVars, TypeOK
    <3> QED
      BY Zenon, <1>1, <2>1, <3>1 DEF Responsible
  <2>2. CASE r = t
    <3>1. call[t].pc = "fast" /\ call[t].num > m_value
      BY <1>3, <2>2 DEF FastPath, Responsible, InRelease
    <3>2. Goto(t, "test")
      BY <1>0, <1>3, <3>1 DEF FastPath
    <3> QED
      BY Zenon, <1>1, <2>2, <3>1, <3>2, GotoEffect DEF Responsible
  <2> QED
    BY <2>1, <2>2
<1>4. CASE LoopTest(t)
  <2>1. waiter' = waiter /\ m_waiters_list' = m_waiters_list
    BY Zenon, <1>4 DEF LoopTest, lockVars
  <2>2. CASE r = t
    <3>1. call[t].num > m_value \/ waiter[t].m_group_commit_leader
      BY Zenon, <1>4, <2>2 DEF LoopTest, Responsible, InRelease
    <3>2. Goto(t, "mutex") /\ call[t].pc = "test"
      BY Zenon, <1>4, <3>1 DEF LoopTest
    <3> QED
      BY Zenon, <1>2, <2>1, <3>2, GotoEffect
  <2> QED
    BY Zenon, <1>2, <2>1, <2>2
<1>5. CASE AcquireExpired(t)
  <2>1. waiter' = waiter /\ m_waiters_list' = m_waiters_list
    BY <1>5 DEF AcquireExpired, lockVars
  <2>2. r # t
    BY <1>0, <1>5
    DEF AcquireExpired, ExpiredUnderMutex, Responsible, InRelease
  <2> QED
    BY <1>2, <2>1, <2>2
<1>6. CASE SemaWait(t)
  <2>1. /\ \A u \in Thread : waiter'[u].m_group_commit_leader
                               = waiter[u].m_group_commit_leader
        /\ m_waiters_list' = m_waiters_list
    BY <1>6 DEF SemaWait, lockVars, TypeOK, Waiter
  <2>2. Goto(t, "test") /\ call[t].pc = "sleep"
    BY <1>6 DEF SemaWait
  <2> QED
    BY Zenon, <1>2, <2>1, <2>2, GotoEffect
<1>7. ASSUME NEW u \in call[t].wake, NEW pc \in {"callbacks", "rest"},
             Wake(t, u, pc), call[t].pc \in InRelease, UNCHANGED lockVars
      PROVE  Responsible(r)'
  <2>1. u \in Thread
    BY <1>0
  <2>2. /\ call'[t].pc = pc
        /\ call'[t].num = call[t].num /\ call'[t].ret = call[t].ret
        /\ \A v \in Thread \ {u} : waiter'[v] = waiter[v]
        /\ waiter'[u].m_group_commit_leader = waiter[u].m_group_commit_leader
    BY Zenon, <1>7, <2>1, WakeEffect
  <2> QED
    BY Zenon, <1>2, <1>7, <2>2 DEF lockVars, InRelease
<1>8. CASE WakeLeader(t)
  <2>1. CASE Goto(t, "callbacks") /\ UNCHANGED waiter
    BY Zenon, <1>2, <1>8, <2>1, GotoEffect DEF WakeLeader, lockVars, InRelease
  <2> QED
    BY Zenon, <1>7, <1>8, <2>1 DEF WakeLeader, InRelease
<1>9. CASE RunCallbacks(t)
  BY Zenon, <1>2, <1>9, RunCallbacksEffect DEF RunCallbacks, lockVars, InRelease
<1>10. CASE WakeRest(t)
  <2>1. CASE Goto(t, "released") /\ UNCHANGED waiter
    BY Zenon, <1>2, <1>10, <2>1, GotoEffect DEF WakeRest, lockVars, InRelease
  <2> QED
    BY Zenon, <1>7, <1>10, <2>1 DEF WakeRest, InRelease
<1> QED
  BY <1>3, <1>4, <1>5, <1>6, <1>8, <1>9, <1>10
  DEF Step, AcquireLock, AcquireQueue, AcquireWait

\* At release(): whoever is elected is asleep, out of the list and marked.
LEMMA ResponsibleRelease ==
  ASSUME TypeOK, SleepInv, NEW t \in Thread, NEW num \in Nat,
         call[t].pc = "ACQUIRED", Release(t, num)
  PROVE  NobodyStranded'
<1>1. /\ \A u \in Thread \ {t} : call'[u] = call[u]
      /\ call'[t].pc = "leader" /\ m_value' = num
      /\ call'[t].wake \in SUBSET m_waiters_list
      /\ m_waiters_list' = m_waiters_list \ call'[t].wake
  BY Zenon, ReleaseEffect
<1>2. ASSUME NEW u \in call'[t].wake,
             waiter' = [waiter EXCEPT ![u].m_group_commit_leader = TRUE]
      PROVE  NobodyStranded'
  <2>1. u \in Thread /\ u \in m_waiters_list
    BY <1>1, <1>2 DEF TypeOK
  <2>2. call[u].pc = "sleep"
    BY Zenon, <2>1 DEF SleepInv
  <2>3. call'[u].pc = "sleep" /\ u \notin m_waiters_list'
    BY <1>1, <1>2, <2>1, <2>2
  <2>4. waiter'[u].m_group_commit_leader
    BY <1>2, <2>1 DEF TypeOK, Waiter
  <2> QED
    BY Zenon, <2>1, <2>3, <2>4 DEF NobodyStranded, Responsible
<1>3. CASE /\ m_waiters_list' = {}
           /\ m_pending_callbacks' = {} \/ call'[t].ret > num
  BY Zenon, <1>1, <1>3 DEF NobodyStranded, Responsible, InRelease
<1> QED
  BY Zenon, <1>2, <1>3, ReleaseEffect

(* Every step keeps the queue attended. *)
LEMMA StrandedNext ==
  TypeOK /\ OneOwner /\ SleepInv /\ NobodyStranded /\ [Next]_clientVars
    => NobodyStranded'
<1> SUFFICES ASSUME TypeOK, OneOwner, SleepInv, NobodyStranded,
                    [Next]_clientVars
             PROVE  NobodyStranded'
  OBVIOUS
<1>0. m_lock \in BOOLEAN /\ m_value \in Nat
  BY DEF TypeOK
<1>1. CASE UNCHANGED clientVars
  BY Zenon, <1>1 DEF NobodyStranded, Responsible, clientVars, vars, lockVars
<1>2. ASSUME NEW t \in Thread, Acquire(t) \/ Again(t) PROVE NobodyStranded'
  <2>1. PICK num, cb : /\ StartAcquire(t, num, cb)
                       /\ Again(t) => num = call[t].ret
    BY Zenon, <1>2 DEF Acquire, Again
  <2>2. /\ \A u \in Thread \ {t} : call'[u] = call[u]
        /\ call'[t].pc = "fast" /\ call'[t].num = num
        /\ UNCHANGED <<lockVars, waiter>>
    BY Zenon, <2>1, StartEffect
  <2>3. call[t].pc = "idle" \/ (call[t].pc = "released" /\ Again(t))
    BY Zenon, <1>2 DEF Acquire, Again
  <2>4. ASSUME NEW r \in Thread, Responsible(r) PROVE Responsible(r)'
    <3>1. CASE r = t
      BY Zenon, <2>1, <2>2, <2>3, <2>4, <3>1 DEF Responsible, lockVars, InRelease
    <3>2. CASE r # t
      BY Zenon, <2>2, <2>4, <3>2 DEF Responsible, lockVars
    <3> QED
      BY <3>1, <3>2
  <2> QED
    BY Zenon, <2>2, <2>4 DEF NobodyStranded, lockVars
<1>3. ASSUME NEW t \in Thread, SetPending(t) PROVE NobodyStranded'
  BY <1>3 DEF NobodyStranded, Responsible, SetPending, set_pending
<1>4. ASSUME NEW t \in Thread, OwnerRelease(t) PROVE NobodyStranded'
  <2>1. PICK num \in Nat : Release(t, num)
    BY <1>4, MaxValueAssumption DEF OwnerRelease, TypeOK
  <2> QED
    BY Zenon, <1>4, <2>1, ResponsibleRelease DEF OwnerRelease
<1>5. ASSUME NEW t \in Thread, Finish(t) PROVE NobodyStranded'
  <2>1. /\ \A u \in Thread \ {t} : call'[u] = call[u]
        /\ UNCHANGED <<lockVars, waiter>>
    BY Zenon, <1>5, FinishEffect
  <2>2. ~Responsible(t)
    BY <1>0, <1>5 DEF Finish, Responsible, InRelease
  <2>3. ASSUME NEW r \in Thread, Responsible(r) PROVE Responsible(r)'
    BY Zenon, <2>1, <2>2, <2>3 DEF Responsible, lockVars
  <2> QED
    BY <2>1, <2>3 DEF NobodyStranded, lockVars
<1>6. ASSUME NEW t \in Thread, Step(t) PROVE NobodyStranded'
  <2>1. CASE m_lock' = FALSE /\ m_lock = FALSE
    <3>1. /\ m_waiters_list' = m_waiters_list
          /\ m_pending_callbacks' = m_pending_callbacks
      BY <1>6, <2>1
      DEF Step, FastPath, LoopTest, AcquireExpired, AcquireLock, AcquireQueue,
          AcquireWait, SemaWait, WakeLeader, RunCallbacks, WakeRest, lockVars
    <3>2. ASSUME NEW r \in Thread, Responsible(r) PROVE Responsible(r)'
      BY Zenon, <1>6, <2>1, <3>2, ResponsibleStep
    <3> QED
      BY <2>1, <3>1, <3>2 DEF NobodyStranded
  <2>2. CASE m_lock' = TRUE
    BY <2>2 DEF NobodyStranded
  <2> QED
    BY Zenon, <1>0, <1>6, <2>1, <2>2, StepLock
<1> QED
  BY <1>1, <1>2, <1>3, <1>4, <1>5, <1>6 DEF Next

\* While the lock is free, a queued callback or a listed waiter always has a
\* thread that is bound to take the lock: the election in release(), or the
\* number it returns, is enough for every interleaving and every client.
THEOREM NeverStranded == Spec => []NobodyStranded
<1>1. ClientInit => NobodyStranded
  BY DEF ClientInit, Init, NobodyStranded
<1> QED
  BY <1>1, TypeCorrect, MutualExclusion, SleepAlways, StrandedNext, PTL
  DEF Spec

-----------------------------------------------------------------------------
(* Every callback is run once *)

\* Thread t is in acquire() with a callback it has not handed over.
Asks(t) == call[t].pc \in InAcquire /\ call[t].cb \in Callback

\* A callback handed to acquire() is in some place ...
CallbackSomewhere ==
    \A c \in issued : \/ \E t \in Thread : Asks(t) /\ call[t].cb = c
                      \/ \E p \in m_pending_callbacks : p.cb = c
                      \/ \E t \in Thread : \E p \in call[t].cbs : p.cb = c
                      \/ \E p \in completed : p.cb = c

\* ... one that was not handed over yet is nowhere ...
CallbackIssued ==
    /\ \A t \in Thread : Asks(t) => call[t].cb \in issued
    /\ \A p \in m_pending_callbacks : p.cb \in Callback => p.cb \in issued
    /\ \A t \in Thread : \A p \in call[t].cbs : p.cb \in Callback => p.cb \in issued
    /\ \A p \in completed : p.cb \in issued

\* ... there are no two of it in places of the same kind ...
CallbackUnique ==
    /\ \A t, u \in Thread : Asks(t) /\ Asks(u) /\ call[t].cb = call[u].cb => t = u
    /\ \A p, q \in m_pending_callbacks : p.cb = q.cb /\ p.cb \in Callback => p = q
    /\ \A t, u \in Thread : \A p \in call[t].cbs, q \in call[u].cbs :
         p.cb = q.cb /\ p.cb \in Callback => p = q /\ t = u
    /\ \A p, q \in completed : p.cb = q.cb => p = q

\* ... nor of different kinds.
CallbackApart ==
    /\ \A t \in Thread : Asks(t) =>
         /\ \A p \in m_pending_callbacks : p.cb # call[t].cb
         /\ \A u \in Thread : \A p \in call[u].cbs : p.cb # call[t].cb
         /\ \A p \in completed : p.cb # call[t].cb
    /\ \A p \in m_pending_callbacks : p.cb \in Callback =>
         /\ \A u \in Thread : \A q \in call[u].cbs : q.cb # p.cb
         /\ \A q \in completed : q.cb # p.cb
    /\ \A u \in Thread : \A q \in call[u].cbs : \A p \in completed : q.cb # p.cb

\* callbacks[] of release() is empty before and after it is walked.
CallbackArray ==
    \A t \in Thread : call[t].pc \notin {"leader", "callbacks"} => call[t].cbs = {}

CallbackInv == /\ CallbackSomewhere /\ CallbackIssued /\ CallbackUnique
               /\ CallbackApart /\ CallbackArray

\* A step of one thread that moves no callback.
LEMMA CallbackQuiet ==
  ASSUME CallbackInv,
         UNCHANGED <<m_pending_callbacks, completed, issued>>,
         \A u \in Thread : /\ Asks(u)' <=> Asks(u)
                           /\ Asks(u) => call'[u].cb = call[u].cb
                           /\ call'[u].cbs = call[u].cbs
                           /\ call'[u].pc \notin {"leader", "callbacks"}
                                => call'[u].cbs = {}
  PROVE  CallbackInv'
<1> USE DEF CallbackInv
<1>1. CallbackSomewhere'
  BY DEF CallbackSomewhere
<1>2. CallbackIssued'
  BY Zenon DEF CallbackIssued
<1>3. CallbackUnique'
  BY Zenon DEF CallbackUnique
<1>4. CallbackApart'
  BY DEF CallbackApart
<1> QED
  BY Zenon, <1>1, <1>2, <1>3, <1>4 DEF CallbackArray

\* acquire() is called with a callback that was never used.
LEMMA CallbackStart ==
  ASSUME TypeOK, CallbackInv, NEW t \in Thread, Acquire(t)
  PROVE  CallbackInv'
<1>1. PICK cb \in (Callback \ issued) \cup {NoCallback} :
        /\ \E num \in 1..MaxValue : StartAcquire(t, num, cb)
        /\ issued' = issued \cup ({cb} \cap Callback)
  BY DEF Acquire
<1>2. /\ \A u \in Thread \ {t} : call'[u] = call[u]
      /\ call'[t].pc = "fast" /\ call'[t].cb = cb /\ call'[t].cbs = {}
      /\ m_pending_callbacks' = m_pending_callbacks /\ completed' = completed
  BY Zenon, <1>1, StartEffect DEF lockVars
<1>3. ~Asks(t) /\ call[t].cbs = {}
  BY DEF Acquire, Asks, InAcquire, CallbackInv, CallbackArray
<1>4. \A u \in Thread : call'[u].cbs = call[u].cbs
  BY Zenon, <1>2, <1>3, SMTT(30)
<1>5. CASE cb \in Callback
  <2>1. issued' = issued \cup {cb} /\ cb \notin issued
    BY <1>1, <1>5, CallbackAssumption
  <2>2. Asks(t)' /\ \A u \in Thread \ {t} : Asks(u)' <=> Asks(u)
    BY Zenon, <1>2, <1>5 DEF Asks, InAcquire
  <2>3. CallbackSomewhere'
    <3>1. \E u \in Thread : Asks(u)' /\ call'[u].cb = cb
      BY Zenon, <1>2, <2>2
    <3>2. \A c \in issued :
             (\E u \in Thread : Asks(u) /\ call[u].cb = c)
               => (\E u \in Thread : Asks(u)' /\ call'[u].cb = c)
      BY Zenon, <1>2, <1>3, <2>2
    <3>3. \A c \in issued :
             (\E u \in Thread : \E p \in call[u].cbs : p.cb = c)
               => (\E u \in Thread : \E p \in call'[u].cbs : p.cb = c)
      BY <1>4
    <3> QED
      BY Zenon, <1>2, <2>1, <3>1, <3>2, <3>3 DEF CallbackInv, CallbackSomewhere
  <2>4. CallbackIssued'
    BY Zenon, <1>2, <1>4, <2>1, <2>2 DEF CallbackInv, CallbackIssued
  <2>5. CallbackUnique'
    <3>1. \A u, v \in Thread : Asks(u)' /\ Asks(v)' /\ call'[u].cb = call'[v].cb => u = v
      BY <1>2, <2>1, <2>2 DEF CallbackInv, CallbackUnique, CallbackIssued
    <3> QED
      BY Zenon, <1>2, <1>4, <3>1 DEF CallbackInv, CallbackUnique
  <2>6. CallbackApart'
    BY <1>2, <1>4, <1>5, <2>1, <2>2
    DEF CallbackInv, CallbackApart, CallbackIssued
  <2>7. CallbackArray'
    BY <1>2 DEF CallbackInv, CallbackArray
  <2> QED
    BY <2>3, <2>4, <2>5, <2>6, <2>7 DEF CallbackInv
<1>6. CASE cb \notin Callback
  <2>1. issued' = issued
    BY <1>1, <1>6
  <2>2. \A u \in Thread : Asks(u)' <=> Asks(u)
    BY Zenon, <1>2, <1>3, <1>6 DEF Asks
  <2>3. \A u \in Thread : /\ Asks(u) => call'[u].cb = call[u].cb
                          /\ call'[u].pc \notin {"leader", "callbacks"}
                                => call'[u].cbs = {}
    BY <1>2, <1>3 DEF CallbackInv, CallbackArray
  <2> QED
    BY Zenon, <1>2, <1>4, <2>1, <2>2, <2>3, CallbackQuiet
<1> QED
  BY <1>5, <1>6

\* acquire() hands its callback over: it queues it, or runs it itself.
LEMMA CallbackHand ==
  ASSUME TypeOK, CallbackInv, NEW t \in Thread, call[t].pc \in InAcquire,
         NEW pc, pc \notin InAcquire \cup {"leader", "callbacks"}, Goto(t, pc),
         UNCHANGED issued,
         \/ QueueCallback(t) /\ UNCHANGED completed
         \/ Complete(OwnCallback(t)) /\ UNCHANGED m_pending_callbacks
  PROVE  CallbackInv'
<1>1. /\ \A u \in Thread \ {t} : call'[u] = call[u]
      /\ call'[t].pc = pc /\ call'[t].cbs = call[t].cbs
  BY Zenon, GotoEffect
<1>2. ~Asks(t)' /\ \A u \in Thread \ {t} : Asks(u)' <=> Asks(u)
  BY Zenon, <1>1 DEF Asks
<1>3. \A u \in Thread : call'[u].cbs = call[u].cbs
  BY Zenon, <1>1
<1>4. call[t].cbs = {} /\ CallbackArray'
  BY Zenon, <1>1 DEF CallbackInv, CallbackArray, InAcquire
<1> DEFINE own == [num |-> call[t].num, cb |-> call[t].cb]
<1>5. own.cb = call[t].cb
  BY Zenon
<1>6. call[t].cb \in Callback \cup {Dummy, NoCallback}
  BY Zenon, FrameFields DEF TypeOK, AnyCallback
<1>7. CASE call[t].cb \in Callback
  <2>0. Asks(t)
    BY Zenon, <1>7 DEF Asks
  <2>1. OwnCallback(t) = {own}
    BY Zenon, <1>7, CallbackAssumption DEF OwnCallback
  <2>2. \/ m_pending_callbacks' = m_pending_callbacks \cup {own} /\ completed' = completed
        \/ completed' = completed \cup {own} /\ m_pending_callbacks' = m_pending_callbacks
    <3>1. {c \in {own} : c.cb # Dummy} = {own}
      BY Zenon, <1>5, <1>7, CallbackAssumption
    <3> QED
      BY Zenon, <2>1, <3>1 DEF QueueCallback, Complete
  <2> HIDE DEF own
  <2>3. /\ \A p \in m_pending_callbacks' : p \in m_pending_callbacks \/ p = own
        /\ \A p \in completed' : p \in completed \/ p = own
        /\ \A p \in m_pending_callbacks : p \in m_pending_callbacks'
        /\ \A p \in completed : p \in completed'
        /\ own \in m_pending_callbacks' \/ own \in completed'
        /\ own \in m_pending_callbacks' /\ own \in completed' =>
             own \in m_pending_callbacks \/ own \in completed
    BY <2>2, Zenon
  <2>4. /\ \A p \in m_pending_callbacks : p.cb # own.cb
        /\ \A u \in Thread : \A p \in call[u].cbs : p.cb # own.cb
        /\ \A p \in completed : p.cb # own.cb
        /\ own.cb \in issued
    BY <1>5, <2>0, Zenon DEF CallbackInv, CallbackApart, CallbackIssued
  <2>5. \A u \in Thread : Asks(u)' => /\ Asks(u) /\ call'[u].cb = call[u].cb
                                      /\ call[u].cb # own.cb
    BY <1>1, <1>2, <1>5, <2>0, Zenon DEF CallbackInv, CallbackUnique
  <2>6. CallbackSomewhere'
    <3>1. \A c \in issued, u \in Thread :
             Asks(u) /\ call[u].cb = c =>
               \/ Asks(u)' /\ call'[u].cb = c
               \/ c = own.cb
      BY <1>1, <1>2, <1>5, Zenon
    <3>2. \A c \in issued, u \in Thread : \A p \in call[u].cbs :
             p.cb = c => \E v \in Thread : \E q \in call'[v].cbs : q.cb = c
      BY <1>3, Zenon
    <3> QED
      BY <2>3, <3>1, <3>2, Zenon DEF CallbackInv, CallbackSomewhere
  <2>7. CallbackIssued'
    BY <1>3, <2>3, <2>4, <2>5, Zenon DEF CallbackInv, CallbackIssued
  <2>8. CallbackUnique'
    <3>1. /\ \A p, q \in m_pending_callbacks' : p.cb = q.cb /\ p.cb \in Callback => p = q
          /\ \A p, q \in completed' : p.cb = q.cb => p = q
      BY <2>3, <2>4, Zenon DEF CallbackInv, CallbackUnique
    <3>2. \A u, v \in Thread : Asks(u)' /\ Asks(v)' /\ call'[u].cb = call'[v].cb => u = v
      BY <2>5, Zenon DEF CallbackInv, CallbackUnique
    <3>3. \A u, v \in Thread : \A p \in call'[u].cbs, q \in call'[v].cbs :
            p.cb = q.cb /\ p.cb \in Callback => p = q /\ u = v
      BY <1>3, Zenon DEF CallbackInv, CallbackUnique
    <3> QED
      BY <3>1, <3>2, <3>3, Zenon DEF CallbackUnique
  <2>9. CallbackApart'
    <3>0. \A u \in Thread : Asks(u) =>
            /\ \A p \in m_pending_callbacks : p.cb # call[u].cb
            /\ \A v \in Thread : \A p \in call[v].cbs : p.cb # call[u].cb
            /\ \A p \in completed : p.cb # call[u].cb
      BY Zenon DEF CallbackInv, CallbackApart
    <3>1. \A u \in Thread : Asks(u)' =>
            /\ \A p \in m_pending_callbacks' : p.cb # call'[u].cb
            /\ \A v \in Thread : \A p \in call'[v].cbs : p.cb # call'[u].cb
            /\ \A p \in completed' : p.cb # call'[u].cb
      BY <1>3, <2>3, <2>5, <3>0, Zenon
    <3>2. \A p \in m_pending_callbacks' : p.cb \in Callback =>
            \A u \in Thread : \A q \in call'[u].cbs : q.cb # p.cb
      BY <1>3, <2>3, <2>4, Zenon DEF CallbackInv, CallbackApart
    <3>3. \A p \in m_pending_callbacks' : p.cb \in Callback =>
            \A q \in completed' : q.cb # p.cb
      BY <2>3, <2>4, Zenon DEF CallbackInv, CallbackApart
    <3>4. \A u \in Thread : \A q \in call'[u].cbs : \A p \in completed' : q.cb # p.cb
      BY <1>3, <2>3, <2>4, Zenon DEF CallbackInv, CallbackApart
    <3> QED
      BY <3>1, <3>2, <3>3, <3>4, Zenon DEF CallbackApart
  <2> QED
    BY Zenon, <1>4, <2>6, <2>7, <2>8, <2>9 DEF CallbackInv
<1>8. CASE call[t].cb \notin Callback
  <2>1. /\ \A p \in OwnCallback(t) : p.cb = Dummy
        /\ \A p \in OwnCallback(t) : p.cb \notin Callback
    BY <1>6, <1>8, CallbackAssumption DEF OwnCallback
  <2>2. /\ completed' = completed
        /\ \A p \in m_pending_callbacks' : p \in m_pending_callbacks \/ p.cb \notin Callback
        /\ m_pending_callbacks \subseteq m_pending_callbacks'
    BY <2>1 DEF QueueCallback, Complete
  <2>3. ~Asks(t)
    BY Zenon, <1>8 DEF Asks
  <2>4. completed \in SUBSET PendingCb /\ issued \subseteq Callback
    BY DEF TypeOK
  <2>5. CallbackSomewhere'
    BY <1>1, <1>2, <1>3, <2>2, <2>3 DEF CallbackInv, CallbackSomewhere
  <2>6. CallbackIssued'
    BY Zenon, <1>1, <1>2, <1>3, <2>2, <2>3 DEF CallbackInv, CallbackIssued
  <2>7. CallbackUnique'
    BY Zenon, <1>1, <1>2, <1>3, <2>2, <2>3 DEF CallbackInv, CallbackUnique
  <2>8. CallbackApart'
    <3>1. \A u \in Thread : Asks(u)' =>
            Asks(u) /\ call'[u].cb = call[u].cb /\ call[u].cb \in Callback
      BY <1>1, <1>2, Zenon DEF Asks
    <3>2. \A u \in Thread : Asks(u)' =>
            /\ \A p \in m_pending_callbacks' : p.cb # call'[u].cb
            /\ \A v \in Thread : \A p \in call'[v].cbs : p.cb # call'[u].cb
            /\ \A p \in completed' : p.cb # call'[u].cb
      <4>1. \A u \in Thread : Asks(u) =>
              /\ \A p \in m_pending_callbacks : p.cb # call[u].cb
              /\ \A v \in Thread : \A p \in call[v].cbs : p.cb # call[u].cb
              /\ \A p \in completed : p.cb # call[u].cb
        BY Zenon DEF CallbackInv, CallbackApart
      <4> QED
        BY <1>3, <2>2, <3>1, <4>1, Zenon
    <3>3. /\ \A p \in m_pending_callbacks' : p.cb \in Callback =>
               /\ \A u \in Thread : \A q \in call'[u].cbs : q.cb # p.cb
               /\ \A q \in completed' : q.cb # p.cb
          /\ \A u \in Thread : \A q \in call'[u].cbs : \A p \in completed' : q.cb # p.cb
      BY <1>3, <2>2, Zenon DEF CallbackInv, CallbackApart
    <3> QED
      BY <3>2, <3>3, Zenon DEF CallbackApart
  <2> QED
    BY <1>4, <2>5, <2>6, <2>7, <2>8 DEF CallbackInv
<1> QED
  BY Zenon, <1>7, <1>8

\* release() takes the callbacks that are due out of m_pending_callbacks.
LEMMA CallbackRelease ==
  ASSUME TypeOK, CallbackInv, NEW t \in Thread, OwnerRelease(t)
  PROVE  CallbackInv'
<1>1. PICK num \in Nat : Release(t, num)
  BY MaxValueAssumption DEF OwnerRelease, TypeOK
<1>2. /\ \A u \in Thread \ {t} : call'[u] = call[u]
      /\ call'[t].pc = "leader" /\ completed' = completed
  BY <1>1, ReleaseEffect, Zenon
<1> DEFINE due == {c \in m_pending_callbacks : c.num <= num}
<1>3. m_pending_callbacks' = m_pending_callbacks \ due
  BY <1>1, Zenon DEF Release
<1>4. call'[t].cbs = due
  <2>1. \E wake, ret :
          call' = [call EXCEPT ![t] =
                     [IdleFrame EXCEPT !.pc = "leader", !.wake = wake, !.cbs = due,
                                       !.ret = ret]]
    BY <1>1, Zenon DEF Release
  <2> QED
    BY <2>1 DEF TypeOK, IdleFrame
<1>5. due \subseteq m_pending_callbacks
  OBVIOUS
<1> HIDE DEF due
<1>6. call[t].pc = "ACQUIRED" /\ call[t].cbs = {} /\ issued' = issued
  BY DEF OwnerRelease, CallbackInv, CallbackArray
<1>7. ~Asks(t) /\ ~Asks(t)' /\ \A u \in Thread \ {t} : Asks(u)' <=> Asks(u)
  BY <1>2, <1>6 DEF Asks, InAcquire
<1>8. CallbackSomewhere'
  <2>1. \A c \in issued :
          (\E u \in Thread : Asks(u) /\ call[u].cb = c)
            => (\E u \in Thread : Asks(u)' /\ call'[u].cb = c)
    BY Zenon, <1>2, <1>7
  <2>2. \A c \in issued :
          (\E u \in Thread : \E p \in call[u].cbs : p.cb = c)
            => (\E u \in Thread : \E p \in call'[u].cbs : p.cb = c)
    BY Zenon, <1>2, <1>6
  <2>3. \A c \in issued :
          (\E p \in m_pending_callbacks : p.cb = c)
            => \/ \E p \in m_pending_callbacks' : p.cb = c
               \/ \E u \in Thread : \E p \in call'[u].cbs : p.cb = c
    BY Zenon, <1>3, <1>4, <1>5
  <2> QED
    BY Zenon, <1>2, <1>6, <2>1, <2>2, <2>3 DEF CallbackInv, CallbackSomewhere
<1>9. CallbackIssued'
  BY Zenon, <1>2, <1>3, <1>4, <1>5, <1>6, <1>7 DEF CallbackInv, CallbackIssued
<1>0. /\ \A p \in m_pending_callbacks' : p \in m_pending_callbacks /\ p \notin due
      /\ \A p \in due : p \in m_pending_callbacks
      /\ \A u \in Thread : \A p \in call'[u].cbs :
           (u = t /\ p \in due) \/ (u # t /\ p \in call[u].cbs)
      /\ \A u \in Thread : Asks(u)' => Asks(u) /\ call'[u].cb = call[u].cb
  BY <1>2, <1>3, <1>4, <1>5, <1>7, Zenon
<1>10. CallbackUnique'
  <2>1. \A u, v \in Thread : Asks(u)' /\ Asks(v)' /\ call'[u].cb = call'[v].cb => u = v
    BY <1>0, Zenon DEF CallbackInv, CallbackUnique
  <2>2. \A p, q \in m_pending_callbacks' : p.cb = q.cb /\ p.cb \in Callback => p = q
    BY <1>0, Zenon DEF CallbackInv, CallbackUnique
  <2>3. \A u, v \in Thread : \A p \in call'[u].cbs, q \in call'[v].cbs :
          p.cb = q.cb /\ p.cb \in Callback => p = q /\ u = v
    <3>1. /\ \A p, q \in due : p.cb = q.cb /\ p.cb \in Callback => p = q
          /\ \A p \in due : p.cb \in Callback =>
               \A u \in Thread : \A q \in call[u].cbs : q.cb # p.cb
          /\ \A u, v \in Thread : \A p \in call[u].cbs, q \in call[v].cbs :
               p.cb = q.cb /\ p.cb \in Callback => p = q /\ u = v
      BY <1>0, Zenon DEF CallbackInv, CallbackUnique, CallbackApart
    <3> SUFFICES ASSUME NEW u \in Thread, NEW v \in Thread,
                        NEW p \in call'[u].cbs, NEW q \in call'[v].cbs,
                        p.cb = q.cb, p.cb \in Callback
                 PROVE  p = q /\ u = v
      BY Zenon
    <3>2. /\ (u = t /\ p \in due) \/ (u # t /\ p \in call[u].cbs)
          /\ (v = t /\ q \in due) \/ (v # t /\ q \in call[v].cbs)
      BY <1>0, Zenon
    <3> QED
      BY <3>1, <3>2, Zenon
  <2>4. \A p, q \in completed' : p.cb = q.cb => p = q
    BY <1>2, Zenon DEF CallbackInv, CallbackUnique
  <2> QED
    BY <2>1, <2>2, <2>3, <2>4, Zenon DEF CallbackUnique
<1>11. CallbackApart'
  <2>1. \A u \in Thread : Asks(u)' =>
          /\ \A p \in m_pending_callbacks' : p.cb # call'[u].cb
          /\ \A v \in Thread : \A p \in call'[v].cbs : p.cb # call'[u].cb
          /\ \A p \in completed' : p.cb # call'[u].cb
    BY Zenon, <1>2, <1>3, <1>4, <1>5, <1>7 DEF CallbackInv, CallbackApart
  <2>2. \A p \in m_pending_callbacks' : p.cb \in Callback =>
          /\ \A u \in Thread : \A q \in call'[u].cbs : q.cb # p.cb
          /\ \A q \in completed' : q.cb # p.cb
    <3>1. \A p \in m_pending_callbacks : p.cb \in Callback =>
            /\ \A u \in Thread : \A q \in call[u].cbs : q.cb # p.cb
            /\ \A q \in completed : q.cb # p.cb
            /\ \A q \in m_pending_callbacks : q.cb = p.cb => p = q
      BY Zenon DEF CallbackInv, CallbackApart, CallbackUnique
    <3>2. ASSUME NEW p \in m_pending_callbacks', p.cb \in Callback,
                 NEW u \in Thread, NEW q \in call'[u].cbs
          PROVE  q.cb # p.cb
      <4>1. p \in m_pending_callbacks /\ p \notin due
        BY <1>0, <3>2, Zenon
      <4>2. (q \in m_pending_callbacks /\ q # p) \/ q \in call[u].cbs
        BY <1>0, <4>1, Zenon
      <4> QED
        BY <3>1, <3>2, <4>1, <4>2, Zenon
    <3>3. ASSUME NEW p \in m_pending_callbacks', p.cb \in Callback,
                 NEW q \in completed'
          PROVE  q.cb # p.cb
      BY <1>0, <1>2, <3>1, <3>3, Zenon
    <3> QED
      BY <3>2, <3>3, Zenon
  <2>3. \A p \in completed : p.cb \in Callback
    BY Zenon DEF CallbackInv, CallbackIssued, TypeOK
  <2>4. \A u \in Thread : \A q \in call'[u].cbs : \A p \in completed' : q.cb # p.cb
    BY Zenon, <1>2, <1>4, <1>5, <2>3 DEF CallbackInv, CallbackApart
  <2> QED
    BY Zenon, <2>1, <2>2, <2>4 DEF CallbackApart
<1>12. CallbackArray'
  BY Zenon, <1>2 DEF CallbackInv, CallbackArray
<1> QED
  BY <1>8, <1>9, <1>10, <1>11, <1>12 DEF CallbackInv

\* release() runs what it took.
LEMMA CallbackRun ==
  ASSUME TypeOK, CallbackInv, NEW t \in Thread, RunCallbacks(t), UNCHANGED issued
  PROVE  CallbackInv'
<1>1. /\ \A u \in Thread \ {t} : call'[u] = call[u]
      /\ call'[t].pc = "rest" /\ call'[t].cbs = {}
      /\ m_pending_callbacks' = m_pending_callbacks
  BY RunCallbacksEffect, Zenon DEF RunCallbacks, lockVars
<1>2. ~Asks(t) /\ ~Asks(t)' /\ \A u \in Thread \ {t} : Asks(u)' <=> Asks(u)
  BY <1>1 DEF RunCallbacks, Asks, InAcquire
<1> DEFINE run == {c \in call[t].cbs : c.cb # Dummy}
<1>3. completed' = completed \cup run
  BY DEF RunCallbacks, Complete
<1>4. /\ run \subseteq call[t].cbs /\ \A c \in run : c.cb \in Callback
      /\ \A c \in call[t].cbs : c.cb \in Callback => c \in run
  BY FrameFields, CallbackAssumption DEF TypeOK, PendingCb, AnyCallback
<1> HIDE DEF run
<1>5. CallbackSomewhere'
  <2>1. \A c \in issued : c \in Callback
    BY DEF TypeOK
  <2>2. \A c \in issued :
          (\E u \in Thread : Asks(u) /\ call[u].cb = c)
            => (\E u \in Thread : Asks(u)' /\ call'[u].cb = c)
    BY Zenon, <1>1, <1>2
  <2>3. \A c \in issued :
          (\E u \in Thread : \E p \in call[u].cbs : p.cb = c)
            => \/ \E u \in Thread : \E p \in call'[u].cbs : p.cb = c
               \/ \E p \in completed' : p.cb = c
    BY Zenon, <1>1, <1>3, <1>4, <2>1
  <2> QED
    BY Zenon, <1>1, <1>3, <2>2, <2>3 DEF CallbackInv, CallbackSomewhere
<1>6. CallbackIssued'
  BY Zenon, <1>1, <1>2, <1>3, <1>4 DEF CallbackInv, CallbackIssued
<1>0. /\ \A u \in Thread : \A p \in call'[u].cbs : u # t /\ p \in call[u].cbs
      /\ \A p \in completed' : p \in completed \/ p \in run
      /\ \A p \in run : p \in call[t].cbs /\ p.cb \in Callback
      /\ \A u \in Thread : Asks(u)' => Asks(u) /\ call'[u].cb = call[u].cb
  BY <1>1, <1>2, <1>3, <1>4, Zenon
<1>10. /\ \A u \in Thread : Asks(u) =>
            /\ \A p \in m_pending_callbacks : p.cb # call[u].cb
            /\ \A v \in Thread : \A p \in call[v].cbs : p.cb # call[u].cb
            /\ \A p \in completed : p.cb # call[u].cb
       /\ \A p \in m_pending_callbacks : p.cb \in Callback =>
            /\ \A u \in Thread : \A q \in call[u].cbs : q.cb # p.cb
            /\ \A q \in completed : q.cb # p.cb
       /\ \A u \in Thread : \A q \in call[u].cbs : \A p \in completed : q.cb # p.cb
  BY Zenon DEF CallbackInv, CallbackApart
<1>11. /\ \A u, v \in Thread : Asks(u) /\ Asks(v) /\ call[u].cb = call[v].cb => u = v
       /\ \A p, q \in completed : p.cb = q.cb => p = q
  BY Zenon DEF CallbackInv, CallbackUnique
<1>12. /\ \A p, q \in m_pending_callbacks : p.cb = q.cb /\ p.cb \in Callback => p = q
       /\ \A u, v \in Thread : \A p \in call[u].cbs, q \in call[v].cbs :
            p.cb = q.cb /\ p.cb \in Callback => p = q /\ u = v
  BY Zenon DEF CallbackInv, CallbackUnique
<1>7. CallbackUnique'
  <2>1. \A u, v \in Thread : Asks(u)' /\ Asks(v)' /\ call'[u].cb = call'[v].cb => u = v
    BY <1>0, <1>11, Zenon
  <2>2. /\ \A p, q \in m_pending_callbacks' : p.cb = q.cb /\ p.cb \in Callback => p = q
        /\ \A u, v \in Thread : \A p \in call'[u].cbs, q \in call'[v].cbs :
             p.cb = q.cb /\ p.cb \in Callback => p = q /\ u = v
    BY <1>0, <1>1, <1>12, Zenon
  <2>3. \A p, q \in completed' : p.cb = q.cb => p = q
    <3> SUFFICES ASSUME NEW p \in completed', NEW q \in completed', p.cb = q.cb
                 PROVE  p = q
      BY Zenon
    <3>1. /\ p \in completed \/ (p \in call[t].cbs /\ p.cb \in Callback)
          /\ q \in completed \/ (q \in call[t].cbs /\ q.cb \in Callback)
      BY <1>0, Zenon
    <3> QED
      BY <1>10, <1>11, <1>12, <3>1, Zenon
  <2> QED
    BY <2>1, <2>2, <2>3, Zenon DEF CallbackUnique
<1>8. CallbackApart'
  <2>1. \A u \in Thread : Asks(u)' =>
          /\ \A p \in m_pending_callbacks' : p.cb # call'[u].cb
          /\ \A v \in Thread : \A p \in call'[v].cbs : p.cb # call'[u].cb
          /\ \A p \in completed' : p.cb # call'[u].cb
    <3> SUFFICES ASSUME NEW u \in Thread, Asks(u)'
                 PROVE  /\ \A p \in m_pending_callbacks' : p.cb # call'[u].cb
                        /\ \A v \in Thread : \A p \in call'[v].cbs : p.cb # call'[u].cb
                        /\ \A p \in completed' : p.cb # call'[u].cb
      BY Zenon
    <3>1. Asks(u) /\ call'[u].cb = call[u].cb
      BY <1>0, Zenon
    <3>2. /\ \A p \in m_pending_callbacks : p.cb # call[u].cb
          /\ \A v \in Thread : \A p \in call[v].cbs : p.cb # call[u].cb
          /\ \A p \in completed : p.cb # call[u].cb
      BY <1>10, <3>1, Zenon
    <3>3. /\ \A v \in Thread : \A p \in call'[v].cbs : p \in call[v].cbs
          /\ \A p \in completed' : p \in completed \/ p \in call[t].cbs
      BY <1>0, Zenon
    <3> QED
      BY <1>1, <3>1, <3>2, <3>3, Zenon
  <2>2. \A p \in m_pending_callbacks' : p.cb \in Callback =>
          /\ \A u \in Thread : \A q \in call'[u].cbs : q.cb # p.cb
          /\ \A q \in completed' : q.cb # p.cb
    BY <1>0, <1>1, <1>10, ZenonT(40)
  <2>3. \A u \in Thread : \A q \in call'[u].cbs : \A p \in completed' : q.cb # p.cb
    <3> SUFFICES ASSUME NEW u \in Thread, NEW q \in call'[u].cbs, NEW p \in completed'
                 PROVE  q.cb # p.cb
      BY Zenon
    <3>1. u # t /\ q \in call[u].cbs
      BY <1>0, Zenon
    <3>2. p \in completed \/ (p \in call[t].cbs /\ p.cb \in Callback)
      BY <1>0, Zenon
    <3> QED
      BY <1>10, <1>12, <3>1, <3>2, Zenon
  <2> QED
    BY Zenon, <2>1, <2>2, <2>3 DEF CallbackApart
<1>9. CallbackArray'
  BY Zenon, <1>1 DEF CallbackInv, CallbackArray
<1> QED
  BY <1>5, <1>6, <1>7, <1>8, <1>9 DEF CallbackInv

(* Every step inside the lock keeps the callback invariant. *)
LEMMA CallbackStep ==
  ASSUME TypeOK, CallbackInv, NEW t \in Thread, Step(t), UNCHANGED issued
  PROVE  CallbackInv'
<1>1. ASSUME NEW pc, Goto(t, pc), pc \in InAcquire <=> call[t].pc \in InAcquire,
             call[t].cbs = {} \/ pc = "callbacks",
             UNCHANGED <<m_pending_callbacks, completed>>
      PROVE  CallbackInv'
  <2>1. /\ \A u \in Thread \ {t} : call'[u] = call[u]
        /\ call'[t].pc = pc /\ call'[t].cb = call[t].cb /\ call'[t].cbs = call[t].cbs
    BY Zenon, <1>1, GotoEffect
  <2>2. \A u \in Thread : Asks(u)' <=> Asks(u)
    BY Zenon, <1>1, <2>1 DEF Asks
  <2> QED
    BY Zenon, <1>1, <2>1, <2>2, CallbackQuiet DEF CallbackInv, CallbackArray
<1>2. ASSUME NEW u \in call[t].wake, NEW pc, Wake(t, u, pc),
             pc \notin InAcquire, call[t].pc \notin InAcquire,
             call[t].cbs = {} \/ pc = "callbacks",
             UNCHANGED <<m_pending_callbacks, completed>>
      PROVE  CallbackInv'
  <2>0. u \in Thread
    BY Zenon, FrameFields DEF TypeOK
  <2>1. /\ \A v \in Thread \ {t} : call'[v] = call[v]
        /\ call'[t].pc = pc /\ call'[t].cb = call[t].cb /\ call'[t].cbs = call[t].cbs
    BY <1>2, <2>0, WakeEffect, ZenonT(40)
  <2>2. \A v \in Thread : Asks(v)' <=> Asks(v)
    BY Zenon, <1>2, <2>1 DEF Asks
  <2> QED
    BY Zenon, <1>2, <2>1, <2>2, CallbackQuiet DEF CallbackInv, CallbackArray
<1>3. call[t].pc \notin {"leader", "callbacks"} => call[t].cbs = {}
  BY Zenon DEF CallbackInv, CallbackArray
<1>4. CASE FastPath(t) \/ LoopTest(t) \/ AcquireExpired(t)
  <2>1. /\ call[t].pc \in InAcquire /\ call[t].cbs = {}
        /\ UNCHANGED m_pending_callbacks
    BY <1>3, <1>4 DEF FastPath, LoopTest, AcquireExpired, InAcquire, lockVars
  <2>2. CASE ReturnExpired(t)
    BY Zenon, <2>1, <2>2, CallbackHand DEF ReturnExpired, InAcquire
  <2>3. CASE (Goto(t, "test") \/ Goto(t, "mutex")) /\ UNCHANGED completed
    BY Zenon, <1>1, <2>1, <2>3 DEF InAcquire
  <2> QED
    BY <1>4, <2>2, <2>3 DEF FastPath, LoopTest, AcquireExpired
<1>5. CASE AcquireLock(t)
  BY Zenon, <1>5, CallbackHand DEF AcquireLock, InAcquire
<1>6. CASE AcquireQueue(t)
  BY Zenon, <1>6, CallbackHand DEF AcquireQueue, InAcquire
<1>7. CASE AcquireWait(t)
  BY <1>1, <1>3, <1>7 DEF AcquireWait, InAcquire
<1>8. CASE SemaWait(t)
  BY <1>1, <1>3, <1>8 DEF SemaWait, InAcquire, lockVars
<1>9. CASE WakeLeader(t)
  BY Zenon, <1>1, <1>2, <1>9 DEF WakeLeader, InAcquire, lockVars
<1>10. CASE RunCallbacks(t)
  BY <1>10, CallbackRun
<1>11. CASE WakeRest(t)
  BY Zenon, <1>1, <1>2, <1>3, <1>11 DEF WakeRest, InAcquire, lockVars
<1> QED
  BY Zenon, <1>4, <1>5, <1>6, <1>7, <1>8, <1>9, <1>10, <1>11 DEF Step

(* Every step of the lock and its clients keeps the callback invariant. *)
LEMMA CallbackNext ==
  TypeOK /\ CallbackInv /\ [Next]_clientVars => CallbackInv'
<1> SUFFICES ASSUME TypeOK, CallbackInv, [Next]_clientVars PROVE CallbackInv'
  OBVIOUS
<1>1. CASE UNCHANGED clientVars
  BY Zenon, <1>1, CallbackQuiet
  DEF clientVars, vars, lockVars, Asks, CallbackInv, CallbackArray
<1>2. ASSUME NEW t \in Thread, SetPending(t) PROVE CallbackInv'
  BY Zenon, <1>2, CallbackQuiet DEF SetPending, set_pending, Asks, CallbackInv, CallbackArray
<1>3. ASSUME NEW t \in Thread, Again(t) PROVE CallbackInv'
  <2>1. /\ \A u \in Thread \ {t} : call'[u] = call[u]
        /\ call'[t].pc = "fast" /\ call'[t].cb = Dummy /\ call'[t].cbs = {}
        /\ UNCHANGED <<m_pending_callbacks, completed, issued>>
    BY Zenon, <1>3, StartEffect DEF Again, lockVars
  <2>2. ~Asks(t) /\ ~Asks(t)' /\ call[t].cbs = {}
    BY Zenon, <1>3, <2>1, CallbackAssumption
    DEF Again, Asks, InAcquire, CallbackInv, CallbackArray
  <2>3. \A u \in Thread : Asks(u)' <=> Asks(u)
    BY Zenon, <2>1, <2>2 DEF Asks
  <2> QED
    BY <2>1, <2>2, <2>3, CallbackQuiet, Zenon DEF CallbackInv, CallbackArray
<1>4. ASSUME NEW t \in Thread, Finish(t) PROVE CallbackInv'
  <2>1. /\ \A u \in Thread \ {t} : call'[u] = call[u]
        /\ call'[t].pc = "idle" /\ call'[t].cbs = {}
        /\ UNCHANGED <<m_pending_callbacks, completed, issued>>
    <3>1. /\ \A u \in Thread \ {t} : call'[u] = call[u]
          /\ call'[t] = IdleFrame
          /\ UNCHANGED <<m_pending_callbacks, completed>>
      BY Zenon, <1>4, FinishEffect DEF lockVars
    <3>2. IdleFrame.pc = "idle" /\ IdleFrame.cbs = {}
      BY Zenon DEF IdleFrame
    <3> QED
      BY Zenon, <1>4, <3>1, <3>2 DEF Finish
  <2>2. ~Asks(t) /\ ~Asks(t)' /\ call[t].cbs = {}
    BY Zenon, <1>4, <2>1 DEF Finish, Asks, InAcquire, CallbackInv, CallbackArray
  <2>3. \A u \in Thread : Asks(u)' <=> Asks(u)
    BY Zenon, <2>1, <2>2 DEF Asks
  <2> QED
    BY <2>1, <2>2, <2>3, CallbackQuiet, Zenon DEF CallbackInv, CallbackArray
<1> QED
  BY Zenon, <1>1, <1>2, <1>3, <1>4, CallbackStart, CallbackRelease, CallbackStep DEF Next

(* The callback invariant gives at most one completion for each callback. *)
LEMMA CallbackInvImplies == TypeOK /\ CallbackInv => CallbackOnce
<1> SUFFICES ASSUME TypeOK, CallbackInv, NEW c \in issued
             PROVE  \E p \in Places(c) : Places(c) = {p}
  BY DEF CallbackOnce
<1>0. c \in Callback
  BY DEF TypeOK
<1> USE DEF CallbackInv
<1> DEFINE A == {u \in Thread : call[u].cb = c /\ call[u].pc \in InAcquire}
           P == {q \in m_pending_callbacks : q.cb = c}
           R == {u \in Thread : \E p \in call[u].cbs : p.cb = c}
           D == {q \in completed : q.cb = c}
<1>1. Places(c) = {<<"acquire", t>> : t \in A} \cup {<<"pending", p.num>> : p \in P}
                  \cup {<<"release", t>> : t \in R}
                  \cup {<<"completed", p.num>> : p \in D}
  BY Zenon DEF Places
<1>2. \A t \in Thread : t \in A => Asks(t)
  BY <1>0 DEF Asks
<1>3. ASSUME NEW t \in A PROVE A = {t} /\ P = {} /\ R = {} /\ D = {}
  BY <1>2 DEF CallbackUnique, CallbackApart
<1>4. ASSUME NEW p \in P PROVE P = {p} /\ A = {} /\ R = {} /\ D = {}
  BY <1>0, <1>2 DEF CallbackUnique, CallbackApart
<1>5. ASSUME NEW t \in R PROVE R = {t} /\ A = {} /\ P = {} /\ D = {}
  BY <1>0, <1>2 DEF CallbackUnique, CallbackApart
<1>6. ASSUME NEW p \in D PROVE D = {p} /\ A = {} /\ P = {} /\ R = {}
  BY <1>0, <1>2 DEF CallbackUnique, CallbackApart
<1>7. A # {} \/ P # {} \/ R # {} \/ D # {}
  BY Zenon DEF CallbackSomewhere, Asks
<1> HIDE DEF A, P, R, D
<1>8. CASE A # {}
  <2>1. PICK t : t \in A
    BY <1>8
  <2>2. Places(c) = {<<"acquire", t>>}
    BY <1>1, <1>3, <2>1
  <2> QED
    BY <2>2
<1>9. CASE P # {}
  <2>1. PICK p : p \in P
    BY <1>9
  <2>2. Places(c) = {<<"pending", p.num>>}
    BY Zenon, <1>1, <1>4, <2>1
  <2> QED
    BY <2>2
<1>10. CASE R # {}
  <2>1. PICK t : t \in R
    BY <1>10
  <2>2. Places(c) = {<<"release", t>>}
    BY Zenon, <1>1, <1>5, <2>1
  <2> QED
    BY <2>2
<1>11. CASE D # {}
  <2>1. PICK p : p \in D
    BY <1>11
  <2>2. Places(c) = {<<"completed", p.num>>}
    BY Zenon, <1>1, <1>6, <2>1
  <2> QED
    BY <2>2
<1> QED
  BY Zenon, <1>7, <1>8, <1>9, <1>10, <1>11

\* A completion callback handed to acquire() is never lost and never run
\* twice, through queueing, the erasure by release() and the run after
\* m_mtx is unlocked.
THEOREM CallbacksRunOnce == Spec => []CallbackOnce
<1>1. ClientInit => CallbackInv
  <2> SUFFICES ASSUME ClientInit PROVE CallbackInv
    OBVIOUS
  <2>1. \A t \in Thread : ~Asks(t) /\ call[t].cbs = {}
    BY Zenon DEF ClientInit, Init, IdleFrame, Asks, InAcquire
  <2>2. m_pending_callbacks = {} /\ completed = {} /\ issued = {}
    BY Zenon DEF ClientInit, Init
  <2> QED
    BY Zenon, <2>1, <2>2 DEF CallbackInv, CallbackSomewhere, CallbackIssued,
       CallbackUnique, CallbackApart, CallbackArray
<1> QED
  BY <1>1, TypeCorrect, CallbackNext, CallbackInvImplies, PTL DEF Spec

=============================================================================

---------------------------- MODULE LogSysLemmas -----------------------------
(***************************************************************************)
(* The inductive invariant of the writing and flushing of the redo log     *)
(* with write_lock and flush_lock, the proofs that every step keeps it,    *)
(* and what it says about the properties of LogSys.  What the calls and    *)
(* the steps of the two locks do is an assumption here (LocksDo);          *)
(* LogSysProofs shows that they do it.                                     *)
(***************************************************************************)
EXTENDS LogSys, TLAPS

(* The constants of the log satisfy what the two locks assume of theirs. *)
LEMMA LockConstants ==
  /\ MaxLsn \in Nat /\ MaxLsn + 1 \in Nat
  /\ Dummy \notin Lsn /\ NoCallback \notin Lsn \cup {Dummy}
  BY LogSysAssumption DEF Lsn

-----------------------------------------------------------------------------
(* All that is relied on of the locks: their variables are of their types,   *)
(* there is one owner, nothing is reported or due before it is done, and a   *)
(* request without a callback is not left to a callback.                     *)

WriteTypes ==
    /\ w_value \in Nat /\ w_pending \in Nat /\ w_lock \in BOOLEAN
    /\ w_waiters \in SUBSET Thread
    /\ w_callbacks \in SUBSET write_lock!PendingCb
    /\ w_completed \in SUBSET write_lock!PendingCb
    /\ waiter \in [Thread -> write_lock!Waiter]
    /\ w_call \in [Thread -> write_lock!Frame]
WriteOwner ==
    /\ w_lock <=> \E t \in Thread : w_call[t].pc = "ACQUIRED"
    /\ \A t, u \in Thread :
         w_call[t].pc = "ACQUIRED" /\ w_call[u].pc = "ACQUIRED" => t = u
WriteEarly ==
    /\ \A t \in Thread : w_call[t].pc = "EXPIRED" => w_call[t].num <= w_value
    /\ \A c \in w_completed : c.num <= w_value
    /\ \A t \in Thread : \A c \in w_call[t].cbs : c.num <= w_value
WriteQueued ==
    \A t \in Thread : w_call[t].pc = "CALLBACK_QUEUED" => w_call[t].cb # NoCallback
WriteOK == WriteTypes /\ WriteOwner /\ WriteEarly /\ WriteQueued

FlushTypes ==
    /\ f_value \in Nat /\ f_pending \in Nat /\ f_lock \in BOOLEAN
    /\ f_waiters \in SUBSET Thread
    /\ f_callbacks \in SUBSET flush_lock!PendingCb
    /\ f_completed \in SUBSET flush_lock!PendingCb
    /\ waiter \in [Thread -> flush_lock!Waiter]
    /\ f_call \in [Thread -> flush_lock!Frame]
FlushOwner ==
    /\ f_lock <=> \E t \in Thread : f_call[t].pc = "ACQUIRED"
    /\ \A t, u \in Thread :
         f_call[t].pc = "ACQUIRED" /\ f_call[u].pc = "ACQUIRED" => t = u
FlushEarly ==
    /\ \A t \in Thread : f_call[t].pc = "EXPIRED" => f_call[t].num <= f_value
    /\ \A c \in f_completed : c.num <= f_value
    /\ \A t \in Thread : \A c \in f_call[t].cbs : c.num <= f_value
FlushQueued ==
    \A t \in Thread : f_call[t].pc = "CALLBACK_QUEUED" => f_call[t].cb # NoCallback
FlushOK == FlushTypes /\ FlushOwner /\ FlushEarly /\ FlushQueued

-----------------------------------------------------------------------------
(* What acquire(), release(), their later steps, set_pending() and the       *)
(* return of a call do to the locks.                                         *)

WriteStarted(t, num, cb) ==
    /\ WriteOK'
    /\ \A u \in Thread \ {t} : w_call'[u] = w_call[u]
    /\ w_call'[t].pc = "fast" /\ w_call'[t].num = num
    /\ w_call'[t].cb = cb /\ w_call'[t].ret = 0
    /\ w_value' = w_value /\ w_callbacks' = w_callbacks
    /\ waiter' = waiter
WriteLeader(t, num) ==
    /\ WriteOK'
    /\ \A u \in Thread \ {t} : w_call'[u] = w_call[u]
    /\ w_call'[t].pc = "leader" /\ w_call'[t].cb = NoCallback
    /\ \/ w_call'[t].ret = 0
       \/ \E c \in w_callbacks : c.num > num /\ w_call'[t].ret = c.num
    /\ w_value' = num /\ w_callbacks' \subseteq w_callbacks
WriteStepped(t) ==
    /\ WriteOK'
    /\ \A u \in Thread \ {t} : w_call'[u] = w_call[u]
    /\ w_call'[t].num = w_call[t].num /\ w_call'[t].cb = w_call[t].cb
    /\ w_call'[t].ret = w_call[t].ret
    /\ \/ /\ w_call[t].pc \in write_lock!InAcquire
          /\ w_call'[t].pc \in write_lock!InAcquire \cup {"ACQUIRED", "EXPIRED", "CALLBACK_QUEUED"}
       \/ /\ w_call[t].pc \in write_lock!InRelease
          /\ w_call'[t].pc \in write_lock!InRelease \cup {"released"}
    /\ w_value' = w_value
    /\ \A c \in w_callbacks' :
         \/ c \in w_callbacks
         \/ w_call[t].cb # NoCallback /\ c.num = w_call[t].num
WritePending ==
    /\ WriteOK' /\ waiter' = waiter
    /\ UNCHANGED <<w_value, w_callbacks, w_call>>
WriteIdle(t) ==
    /\ WriteOK'
    /\ \A u \in Thread \ {t} : w_call'[u] = w_call[u]
    /\ w_call'[t].pc = "idle" /\ w_call'[t].cb = NoCallback
    /\ w_call'[t].ret = 0
WriteDoes(t) ==
    /\ \A num \in Nat, cb \in Lsn \cup {Dummy, NoCallback} :
         w_call[t].pc # "ACQUIRED" /\ write_lock!StartAcquire(t, num, cb) =>
             WriteStarted(t, num, cb)
    /\ \A num \in Nat :
         /\ w_value <= num /\ num <= MaxLsn /\ w_call[t].pc = "ACQUIRED"
         /\ write_lock!Release(t, num)
         => WriteLeader(t, num)
    /\ write_lock!Step(t) => WriteStepped(t)
    /\ \A num \in Nat : write_lock!set_pending(num) => WritePending
    /\ w_call[t].pc # "ACQUIRED" /\ LeaveW(t) /\ UNCHANGED <<wLockVars, waiter>> =>
         WriteIdle(t)

FlushStarted(t, num, cb) ==
    /\ FlushOK'
    /\ \A u \in Thread \ {t} : f_call'[u] = f_call[u]
    /\ f_call'[t].pc = "fast" /\ f_call'[t].num = num
    /\ f_call'[t].cb = cb /\ f_call'[t].ret = 0
    /\ f_value' = f_value /\ f_callbacks' = f_callbacks
    /\ waiter' = waiter
FlushLeader(t, num) ==
    /\ FlushOK'
    /\ \A u \in Thread \ {t} : f_call'[u] = f_call[u]
    /\ f_call'[t].pc = "leader" /\ f_call'[t].cb = NoCallback
    /\ \/ f_call'[t].ret = 0
       \/ \E c \in f_callbacks : c.num > num /\ f_call'[t].ret = c.num
    /\ f_value' = num /\ f_callbacks' \subseteq f_callbacks
FlushStepped(t) ==
    /\ FlushOK'
    /\ \A u \in Thread \ {t} : f_call'[u] = f_call[u]
    /\ f_call'[t].num = f_call[t].num /\ f_call'[t].cb = f_call[t].cb
    /\ f_call'[t].ret = f_call[t].ret
    /\ \/ /\ f_call[t].pc \in flush_lock!InAcquire
          /\ f_call'[t].pc \in flush_lock!InAcquire \cup {"ACQUIRED", "EXPIRED", "CALLBACK_QUEUED"}
       \/ /\ f_call[t].pc \in flush_lock!InRelease
          /\ f_call'[t].pc \in flush_lock!InRelease \cup {"released"}
    /\ f_value' = f_value
    /\ \A c \in f_callbacks' :
         \/ c \in f_callbacks
         \/ f_call[t].cb # NoCallback /\ c.num = f_call[t].num
FlushPending ==
    /\ FlushOK' /\ waiter' = waiter
    /\ UNCHANGED <<f_value, f_callbacks, f_call>>
FlushIdle(t) ==
    /\ FlushOK'
    /\ \A u \in Thread \ {t} : f_call'[u] = f_call[u]
    /\ f_call'[t].pc = "idle" /\ f_call'[t].cb = NoCallback
    /\ f_call'[t].ret = 0
FlushDoes(t) ==
    /\ \A num \in Nat, cb \in Lsn \cup {Dummy, NoCallback} :
         f_call[t].pc # "ACQUIRED" /\ flush_lock!StartAcquire(t, num, cb) =>
             FlushStarted(t, num, cb)
    /\ \A num \in Nat :
         /\ f_value <= num /\ num <= MaxLsn /\ f_call[t].pc = "ACQUIRED"
         /\ flush_lock!Release(t, num)
         => FlushLeader(t, num)
    /\ flush_lock!Step(t) => FlushStepped(t)
    /\ \A num \in Nat : flush_lock!set_pending(num) => FlushPending
    /\ f_call[t].pc # "ACQUIRED" /\ LeaveF(t) /\ UNCHANGED <<fLockVars, waiter>> =>
         FlushIdle(t)

LocksDo(t) == WriteDoes(t) /\ FlushDoes(t)

\* Nothing happens to the lock.
LEMMA WriteLockSame ==
  ASSUME WriteOK, UNCHANGED wVars, waiter' = waiter \/ FlushOK'
  PROVE  WriteOK'
<1> waiter' \in [Thread -> write_lock!Waiter]
  BY DEF WriteOK, WriteTypes, FlushOK, FlushTypes, write_lock!Waiter, flush_lock!Waiter
<1> /\ UNCHANGED <<w_value, w_pending, w_lock, w_waiters>>
    /\ UNCHANGED <<w_callbacks, w_call, w_completed>>
  BY DEF wVars
<1> QED
  BY Zenon DEF WriteOK, WriteTypes, WriteOwner, WriteEarly, WriteQueued

\* Nothing happens to the lock.
LEMMA FlushLockSame ==
  ASSUME FlushOK, UNCHANGED fVars, waiter' = waiter \/ WriteOK'
  PROVE  FlushOK'
<1> waiter' \in [Thread -> flush_lock!Waiter]
  BY DEF FlushOK, FlushTypes, WriteOK, WriteTypes, write_lock!Waiter, flush_lock!Waiter
<1> /\ UNCHANGED <<f_value, f_pending, f_lock, f_waiters>>
    /\ UNCHANGED <<f_callbacks, f_call, f_completed>>
  BY DEF fVars
<1> QED
  BY Zenon DEF FlushOK, FlushTypes, FlushOwner, FlushEarly, FlushQueued

-----------------------------------------------------------------------------
(* The inductive invariant *)

InWriteCall == {"writeAcquire", "prepareWrite"}
WithWriteLock == {"write_buf", "io", "writeRelease", "reopen"}
Writing == {"writeAcquire", "write_buf", "io", "writeRelease", "writeReleasing"}
Flushing == {"prepareWrite", "reopen", "flush", "fsync", "flushRelease"}

\* t is between flush_lock.acquire() and flush_lock.release(): log_write_up_to()
\* takes the lock for a durable request, the other functions always.
HasFlushLock(t) ==
    \/ prog[t].at \in Flushing
    \/ prog[t].at \in Writing /\ (prog[t].durable \/ prog[t].job = "resize")

\* The frames of a thread in the two locks go with its place in the log
\* functions.
WritePlace(t) ==
    /\ prog[t].at \in InWriteCall =>
         w_call[t].pc \in write_lock!InAcquire \cup {"ACQUIRED", "EXPIRED", "CALLBACK_QUEUED"}
    /\ prog[t].at \in WithWriteLock => w_call[t].pc = "ACQUIRED"
    /\ prog[t].at = "writeReleasing" => w_call[t].pc \in write_lock!InRelease \cup {"released"}
    /\ prog[t].at \notin InWriteCall \cup WithWriteLock \cup {"writeReleasing"} =>
         w_call[t].pc = "idle"

FlushPlace(t) ==
    /\ prog[t].at \in {"flushAcquire", "prepareFlush"} =>
         f_call[t].pc \in flush_lock!InAcquire \cup {"ACQUIRED", "EXPIRED", "CALLBACK_QUEUED"}
    /\ HasFlushLock(t) => f_call[t].pc = "ACQUIRED"
    /\ prog[t].at = "flushReleasing" => f_call[t].pc \in flush_lock!InRelease \cup {"released"}
    /\ ~HasFlushLock(t) /\ prog[t].at \notin {"flushAcquire", "prepareFlush", "flushReleasing"} =>
         f_call[t].pc = "idle"

\* Which function t is in, and with which arguments.
JobOK(t) ==
    /\ prog[t].job = "resize" =>
         /\ t \in Resizers /\ ~prog[t].durable
         /\ prog[t].lsn = 0 /\ prog[t].req = 0 /\ prog[t].cb = NoCallback
    /\ prog[t].job = "write_and_flush" =>
         prog[t].durable /\ prog[t].lsn = 0 /\ prog[t].cb = NoCallback
    /\ prog[t].at \in {"needed", "flushAcquire", "writeAcquire"} =>
         prog[t].job = "write_up_to"
    /\ prog[t].at \in {"prepareFlush", "prepareWrite"} => prog[t].job # "write_up_to"
    /\ prog[t].at = "reopen" => prog[t].job = "resize"
    /\ prog[t].at \in {"write_buf", "io"} => prog[t].job # "resize"
    /\ prog[t].at \in {"flush", "fsync"} => prog[t].durable /\ prog[t].job # "resize"
    /\ prog[t].at = "flushAcquire" => prog[t].durable
    /\ prog[t].at \in {"flushRelease", "flushReleasing"} =>
         prog[t].durable \/ prog[t].job = "resize"
    /\ prog[t].at = "end" => prog[t].job # "write_and_flush"

\* The requests made of the locks; every number but those of the prepare
\* functions is an LSN that exists.
CallOK(t) ==
    /\ prog[t].at = "flushAcquire" =>
         f_call[t].num = prog[t].lsn /\ f_call[t].cb = prog[t].cb
    /\ prog[t].at = "writeAcquire" =>
         /\ w_call[t].num = prog[t].lsn
         /\ w_call[t].cb = IF prog[t].durable THEN NoCallback ELSE prog[t].cb
    /\ w_call[t].cb # NoCallback => w_call[t].num <= lsn
    /\ f_call[t].cb # NoCallback => f_call[t].num <= lsn
    /\ prog[t].lsn <= lsn /\ prog[t].req <= lsn /\ prog[t].pending <= lsn
    /\ w_call[t].ret <= lsn /\ f_call[t].ret <= lsn
    /\ w_call[t].pc \notin write_lock!InRelease \cup {"released"} => w_call[t].ret = 0
    /\ f_call[t].pc \notin flush_lock!InRelease \cup {"released"} => f_call[t].ret = 0
    /\ prog[t].job = "write_and_flush" => w_call[t].ret = 0 /\ f_call[t].ret = 0

\* log_sys.latch is held while the buffer is written out, and by
\* log_write_and_flush() until the end.
HasLatch(t) ==
    \/ prog[t].at \in {"write_buf", "reopen"}
    \/ /\ prog[t].job = "write_and_flush"
       /\ prog[t].at \in {"io", "writeRelease", "writeReleasing", "flush", "fsync",
                          "flushRelease", "flushReleasing"}

\* The LSN t has to get written or flushed.
Need(t) == IF prog[t].job = "write_and_flush" THEN prog[t].req ELSE prog[t].lsn

\* How far t has got with it, and the number it is going to publish.
ProgressOK(t) ==
    /\ latch = t <=> HasLatch(t)
    /\ prog[t].at = "write_buf" => Need(t) <= lsn
    /\ prog[t].at = "io" => write_lsn < prog[t].n /\ prog[t].n <= lsn /\ Need(t) <= prog[t].n
    /\ prog[t].at = "writeRelease" =>
         w_value <= prog[t].n /\ prog[t].n <= write_lsn /\ Need(t) <= prog[t].n
    /\ prog[t].at \in {"writeReleasing", "flush"} => Need(t) <= w_value
    /\ prog[t].at \in {"writeReleasing", "flush"} /\ prog[t].job = "write_and_flush" =>
         flushed_to_disk_lsn <= prog[t].n /\ prog[t].n <= w_value
    /\ prog[t].at = "fsync" =>
         /\ flushed_to_disk_lsn <= prog[t].n /\ prog[t].n <= w_value
         /\ Need(t) <= prog[t].n
    /\ prog[t].at = "flushRelease" =>
         /\ f_value <= prog[t].n /\ prog[t].n <= flushed_to_disk_lsn
         /\ Need(t) <= prog[t].n
    /\ prog[t].at = "flushReleasing" => Need(t) <= f_value
    /\ prog[t].job = "write_and_flush" /\ HasLatch(t) /\ prog[t].at # "write_buf" =>
         prog[t].n = lsn

\* The request that t has to acknowledge is met, or t is working for it.
Settled(t) == prog[t].req <= IF prog[t].durable THEN flushed_to_disk_lsn ELSE w_value
AnswerOK(t) ==
    /\ prog[t].at \in {"end", "done"} => Settled(t)
    /\ Settled(t) \/ (prog[t].req <= Need(t) /\ prog[t].cb = NoCallback)

ThreadOK(t) == /\ WritePlace(t) /\ FlushPlace(t) /\ JobOK(t) /\ CallOK(t)
               /\ ProgressOK(t) /\ AnswerOK(t)

\* The variables of log_t, and the numbers of the queued callbacks.
LogTypes ==
    /\ lsn \in 0..MaxLsn /\ write_lsn \in Nat /\ flushed_to_disk_lsn \in Nat
    /\ latch \in Thread \cup {NoThread}
    /\ log_write_through \in BOOLEAN
    /\ synced \subseteq 1..write_lsn
    /\ prog \in [Thread -> Program]
    /\ \A c \in w_callbacks \cup f_callbacks : c.num <= lsn

LogInv == /\ LogTypes /\ WriteOK /\ FlushOK /\ ValuesBehindFile
          /\ \A t \in Thread : ThreadOK(t)

\* What is on stable storage.  set_write_through() may make it false.
SyncInv == /\ 1..flushed_to_disk_lsn \subseteq synced
           /\ log_write_through => 1..write_lsn \subseteq synced

-----------------------------------------------------------------------------
(* A step of one thread and the others *)

(* Order on log sequence numbers, stated once for the leaves that need no other arithmetic. *)
LEMMA Transitive ==
  ASSUME NEW a \in Nat, NEW b \in Nat, NEW c \in Nat, a <= b, b <= c
  PROVE  a <= c
  OBVIOUS

(* Order on log sequence numbers is reflexive. *)
LEMMA Reflexive ==
  ASSUME NEW a, a \in Nat \/ a \in 0..MaxLsn
  PROVE  a <= a
  BY LockConstants

(* The numbers the log keeps are natural numbers, and so are their successors. *)
LEMMA Numbers ==
  ASSUME LogInv, NEW t \in Thread
  PROVE  /\ MaxLsn \in Nat /\ lsn \in Nat /\ lsn <= MaxLsn
         /\ lsn + 1 \in Nat /\ 0 <= lsn /\ 0 <= w_value /\ 0 <= flushed_to_disk_lsn
         /\ write_lsn \in Nat /\ flushed_to_disk_lsn \in Nat
         /\ w_value \in Nat /\ f_value \in Nat
         /\ prog[t].lsn \in Nat /\ prog[t].n \in Nat
         /\ prog[t].pending \in Nat /\ prog[t].req \in Nat
         /\ w_call[t].num \in Nat /\ w_call[t].ret \in Nat
         /\ f_call[t].num \in Nat /\ f_call[t].ret \in Nat
<1> /\ lsn \in 0..MaxLsn /\ write_lsn \in Nat /\ flushed_to_disk_lsn \in Nat
    /\ prog[t] \in Program
  BY DEF LogInv, LogTypes
<1> /\ w_value \in Nat /\ f_value \in Nat
    /\ w_call[t] \in write_lock!Frame /\ f_call[t] \in flush_lock!Frame
  BY DEF LogInv, WriteOK, FlushOK, WriteTypes, FlushTypes
<1> /\ w_call[t].num \in Nat /\ w_call[t].ret \in Nat
    /\ f_call[t].num \in Nat /\ f_call[t].ret \in Nat
  BY DEF write_lock!Frame, flush_lock!Frame
<1> /\ prog[t].lsn \in Nat /\ prog[t].n \in Nat
    /\ prog[t].pending \in Nat /\ prog[t].req \in Nat
  BY LockConstants DEF Program
<1> QED
  BY LockConstants

\* All that a step of t may do to what the other threads rely on: it may let
\* the LSNs grow, write_lsn and the value of write_lock only as the owner of
\* write_lock, the other two only as the owner of flush_lock, and the LSN only
\* while nobody else has the latch.
Others(t) ==
    /\ \A u \in Thread \ {t} : /\ prog'[u] = prog[u]
                               /\ w_call'[u] = w_call[u] /\ f_call'[u] = f_call[u]
                               /\ latch' = u <=> latch = u
                               /\ latch = u => lsn' = lsn
    /\ lsn' \in Nat /\ lsn <= lsn'
    /\ write_lsn' \in Nat /\ write_lsn <= write_lsn'
    /\ flushed_to_disk_lsn' \in Nat /\ flushed_to_disk_lsn <= flushed_to_disk_lsn'
    /\ w_value' \in Nat /\ w_value <= w_value'
    /\ f_value' \in Nat /\ f_value <= f_value'
    /\ \/ w_value' = w_value /\ write_lsn' = write_lsn
       \/ w_call[t].pc = "ACQUIRED"
    /\ \/ f_value' = f_value /\ flushed_to_disk_lsn' = flushed_to_disk_lsn
       \/ f_call[t].pc = "ACQUIRED"

(* A step of one thread that the others can live with leaves them in order. *)
LEMMA OthersOK ==
  ASSUME LogInv, NEW t \in Thread, Others(t), NEW u \in Thread \ {t}
  PROVE  ThreadOK(u)'
<1> ThreadOK(u)
  BY DEF LogInv
<1> /\ prog'[u] = prog[u]
    /\ w_call'[u] = w_call[u] /\ f_call'[u] = f_call[u]
    /\ latch' = u <=> latch = u
    /\ latch = u => lsn' = lsn
  BY DEF Others
<1>3. /\ w_call[u].pc = "ACQUIRED" => w_value' = w_value /\ write_lsn' = write_lsn
      /\ f_call[u].pc = "ACQUIRED" =>
           f_value' = f_value /\ flushed_to_disk_lsn' = flushed_to_disk_lsn
  BY DEF Others, LogInv, WriteOK, FlushOK, WriteOwner, FlushOwner
<1> WritePlace(u)' /\ FlushPlace(u)'
  BY Zenon DEF ThreadOK, WritePlace, FlushPlace, HasFlushLock
<1> JobOK(u)'
  BY DEF ThreadOK, JobOK
<1> CallOK(u)'
  BY Numbers DEF ThreadOK, CallOK, Others
<1> ProgressOK(u)'
  <2> prog[u].at \in {"io", "writeRelease"} => w_call[u].pc = "ACQUIRED"
    BY DEF ThreadOK, WritePlace, WithWriteLock
  <2>2. /\ prog[u].at \in {"fsync", "flushRelease"} => f_call[u].pc = "ACQUIRED"
        /\ prog[u].at \in {"writeReleasing", "flush"} /\ prog[u].job = "write_and_flush"
             => f_call[u].pc = "ACQUIRED"
    BY DEF ThreadOK, FlushPlace, JobOK, HasFlushLock, Flushing, Writing
  <2> HasLatch(u)' <=> HasLatch(u)
    BY DEF HasLatch
  <2> Need(u)' = Need(u) /\ Need(u) \in Nat
    BY Numbers DEF Need
  <2> ProgressOK(u)
    BY DEF ThreadOK
  <2> QED
    BY <1>3, <2>2, Numbers DEF ProgressOK, Others
<1> AnswerOK(u)'
  BY Numbers DEF ThreadOK, AnswerOK, Settled, Need, Others
<1> QED
  BY Zenon DEF ThreadOK

(* What has to be shown of a step of one thread for the invariant to survive it. *)
LEMMA StepKeepsInv ==
  ASSUME LogInv, NEW t \in Thread, Others(t),
         LogTypes', WriteOK', FlushOK', ValuesBehindFile', ThreadOK(t)'
  PROVE  LogInv' /\ Others(t)
<1> \A u \in Thread : ThreadOK(u)'
  BY OthersOK
<1> QED
  BY Zenon DEF LogInv

\* A step of t that leaves the variables of log_t and the values of the locks
\* alone, and queues only callbacks for LSNs that exist.
LEMMA LogUntouched ==
  ASSUME LogInv, NEW t \in Thread,
         prog' \in [Thread -> Program],
         \A u \in Thread \ {t} : prog'[u] = prog[u],
         \A u \in Thread \ {t} : w_call'[u] = w_call[u],
         \A u \in Thread \ {t} : f_call'[u] = f_call[u],
         lsn' = lsn, write_lsn' = write_lsn,
         flushed_to_disk_lsn' = flushed_to_disk_lsn, latch' = latch,
         log_write_through' = log_write_through, synced' = synced,
         w_value' = w_value, f_value' = f_value,
         \A c \in w_callbacks' : c \in w_callbacks \/ c.num <= lsn,
         \A c \in f_callbacks' : c \in f_callbacks \/ c.num <= lsn
  PROVE  LogTypes' /\ Others(t) /\ ValuesBehindFile'
<1> LogTypes /\ ValuesBehindFile
  BY DEF LogInv
<1> LogTypes' /\ ValuesBehindFile'
  BY Zenon DEF LogTypes, ValuesBehindFile
<1> /\ lsn \in Nat /\ write_lsn \in Nat /\ flushed_to_disk_lsn \in Nat
    /\ w_value \in Nat /\ f_value \in Nat
  BY Numbers
<1> lsn <= lsn /\ write_lsn <= write_lsn /\ flushed_to_disk_lsn <= flushed_to_disk_lsn
    /\ w_value <= w_value /\ f_value <= f_value
  OBVIOUS
<1> QED
  BY Zenon DEF Others

\* A thread that has nothing to publish.
LEMMA NoProgress ==
  ASSUME NEW t \in Thread, latch' # t,
         prog'[t].at \in {"idle", "needed", "flushAcquire", "writeAcquire",
                          "prepareFlush", "prepareWrite", "end", "done"}
  PROVE  ProgressOK(t)'
  BY Zenon DEF ProgressOK, HasLatch

\* A thread that goes on with the same request.
LEMMA AnswerKept ==
  ASSUME NEW t \in Thread, AnswerOK(t),
         prog'[t].req = prog[t].req, prog'[t].durable = prog[t].durable,
         prog'[t].job = prog[t].job, prog'[t].lsn = prog[t].lsn,
         prog'[t].cb = prog[t].cb,
         flushed_to_disk_lsn' = flushed_to_disk_lsn, w_value' = w_value,
         prog'[t].at \notin {"end", "done"}
  PROVE  AnswerOK(t)'
  BY Zenon DEF AnswerOK, Settled, Need

\* Steps inside the locks.
LEMMA LockStepInv ==
  ASSUME LogInv, NEW t \in Thread, LocksDo(t), LockStep(t)
  PROVE  LogInv' /\ Others(t)
<1> /\ LogTypes /\ WriteOK /\ FlushOK /\ ValuesBehindFile
    /\ WritePlace(t) /\ FlushPlace(t) /\ JobOK(t) /\ CallOK(t)
    /\ ProgressOK(t) /\ AnswerOK(t)
  BY Zenon DEF LogInv, ThreadOK
<1>1. CASE write_lock!Step(t) /\ UNCHANGED <<fVars, logVars, prog>>
  <2> /\ WriteOK'
      /\ \A u \in Thread \ {t} : w_call'[u] = w_call[u]
      /\ w_call'[t].num = w_call[t].num /\ w_call'[t].cb = w_call[t].cb
      /\ w_call'[t].ret = w_call[t].ret
      /\ \/ /\ w_call[t].pc \in write_lock!InAcquire
            /\ w_call'[t].pc \in write_lock!InAcquire \cup {"ACQUIRED", "EXPIRED", "CALLBACK_QUEUED"}
         \/ /\ w_call[t].pc \in write_lock!InRelease
            /\ w_call'[t].pc \in write_lock!InRelease \cup {"released"}
      /\ w_value' = w_value
      /\ \A c \in w_callbacks' :
           \/ c \in w_callbacks
           \/ w_call[t].cb # NoCallback /\ c.num = w_call[t].num
    BY <1>1, Zenon DEF LocksDo, WriteDoes, WriteStepped
  <2> /\ UNCHANGED <<f_value, f_callbacks, f_call, f_completed>>
      /\ UNCHANGED <<lsn, write_lsn, flushed_to_disk_lsn, latch, log_write_through, synced>>
      /\ prog' = prog
    BY <1>1 DEF fVars, logVars
  <2> FlushOK'
    BY <1>1, FlushLockSame
  <2> /\ prog' \in [Thread -> Program]
      /\ \A c \in w_callbacks' : c \in w_callbacks \/ c.num <= lsn
    BY Zenon DEF LogTypes, CallOK
  <2> LogTypes' /\ Others(t) /\ ValuesBehindFile'
    BY LogUntouched, Zenon
  <2> WritePlace(t)' /\ FlushPlace(t)'
    BY Zenon DEF WritePlace, FlushPlace, HasFlushLock, write_lock!InAcquire, write_lock!InRelease
  <2> JobOK(t)' /\ AnswerOK(t)'
    BY Zenon DEF JobOK, AnswerOK, Settled, Need
  <2> ProgressOK(t)'
    BY Zenon DEF ProgressOK, Need, HasLatch
  <2> CallOK(t)'
    BY Zenon DEF CallOK, write_lock!InAcquire, write_lock!InRelease
  <2> QED
    BY StepKeepsInv, Zenon DEF ThreadOK
<1>2. CASE flush_lock!Step(t) /\ UNCHANGED <<wVars, logVars, prog>>
  <2> /\ FlushOK'
      /\ \A u \in Thread \ {t} : f_call'[u] = f_call[u]
      /\ f_call'[t].num = f_call[t].num /\ f_call'[t].cb = f_call[t].cb
      /\ f_call'[t].ret = f_call[t].ret
      /\ \/ /\ f_call[t].pc \in flush_lock!InAcquire
            /\ f_call'[t].pc \in flush_lock!InAcquire \cup {"ACQUIRED", "EXPIRED", "CALLBACK_QUEUED"}
         \/ /\ f_call[t].pc \in flush_lock!InRelease
            /\ f_call'[t].pc \in flush_lock!InRelease \cup {"released"}
      /\ f_value' = f_value
      /\ \A c \in f_callbacks' :
           \/ c \in f_callbacks
           \/ f_call[t].cb # NoCallback /\ c.num = f_call[t].num
    BY <1>2, Zenon DEF LocksDo, FlushDoes, FlushStepped
  <2> /\ UNCHANGED <<w_value, w_callbacks, w_call, w_completed>>
      /\ UNCHANGED <<lsn, write_lsn, flushed_to_disk_lsn, latch, log_write_through, synced>>
      /\ prog' = prog
    BY <1>2 DEF wVars, logVars
  <2> WriteOK'
    BY <1>2, WriteLockSame
  <2> /\ prog' \in [Thread -> Program]
      /\ \A c \in f_callbacks' : c \in f_callbacks \/ c.num <= lsn
    BY Zenon DEF LogTypes, CallOK
  <2> LogTypes' /\ Others(t) /\ ValuesBehindFile'
    BY LogUntouched, Zenon
  <2> FlushPlace(t)' /\ WritePlace(t)'
    BY Zenon DEF WritePlace, FlushPlace, HasFlushLock, flush_lock!InAcquire, flush_lock!InRelease
  <2> JobOK(t)' /\ AnswerOK(t)'
    BY Zenon DEF JobOK, AnswerOK, Settled, Need
  <2> ProgressOK(t)'
    BY Zenon DEF ProgressOK, Need, HasLatch
  <2> CallOK(t)'
    BY Zenon DEF CallOK, flush_lock!InAcquire, flush_lock!InRelease
  <2> QED
    BY StepKeepsInv, Zenon DEF ThreadOK
<1> QED
  BY <1>1, <1>2 DEF LockStep

\* Changes of prog[t].
LEMMA ProgSet ==
  ASSUME LogTypes, NEW t \in Thread, NEW p \in Program,
         prog' = [prog EXCEPT ![t] = p]
  PROVE  /\ prog' \in [Thread -> Program] /\ prog'[t] = p
         /\ \A u \in Thread \ {t} : prog'[u] = prog[u]
  BY DEF LogTypes

(* Moving to another place changes the place of the thread that moves and nothing else. *)
LEMMA ProgGoto ==
  ASSUME LogTypes, NEW t \in Thread, NEW place \in Places, Goto(t, place)
  PROVE  /\ prog' \in [Thread -> Program]
         /\ \A u \in Thread \ {t} : prog'[u] = prog[u]
         /\ prog'[t].at = place /\ prog'[t].job = prog[t].job
         /\ prog'[t].lsn = prog[t].lsn /\ prog'[t].durable = prog[t].durable
         /\ prog'[t].cb = prog[t].cb /\ prog'[t].n = prog[t].n
         /\ prog'[t].pending = prog[t].pending /\ prog'[t].req = prog[t].req
<1> DEFINE p == [prog[t] EXCEPT !.at = place]
<1> prog' = [prog EXCEPT ![t] = p]
  BY DEF Goto
<1> prog[t] \in Program
  BY DEF LogTypes
<1> p \in Program
  BY DEF Program
<1> /\ p.at = place /\ p.job = prog[t].job /\ p.lsn = prog[t].lsn
    /\ p.durable = prog[t].durable /\ p.cb = prog[t].cb /\ p.n = prog[t].n
    /\ p.pending = prog[t].pending /\ p.req = prog[t].req
  BY DEF Program
<1> HIDE DEF p
<1> QED
  BY ProgSet, Zenon

(* A step that touches no lock keeps what the locks guarantee. *)
LEMMA LocksSame ==
  ASSUME WriteOK, FlushOK, UNCHANGED <<wVars, fVars, waiter>>
  PROVE  /\ WriteOK' /\ FlushOK'
         /\ UNCHANGED <<w_value, w_callbacks, w_call, f_value, f_callbacks, f_call>>
<1> UNCHANGED wVars /\ UNCHANGED fVars /\ waiter' = waiter
  OBVIOUS
<1> UNCHANGED <<w_value, w_callbacks, w_call, f_value, f_callbacks, f_call>>
  BY DEF wVars, fVars
<1> QED
  BY WriteLockSame, FlushLockSame, Zenon

\* log_write_up_to() from "repeat:" on, for a thread that holds nothing.
LEMMA RepeatInv ==
  ASSUME LogInv, NEW t \in Thread, LocksDo(t), NEW p \in Program, Repeat(t, p),
         UNCHANGED logVars, w_call[t].pc = "idle", f_call[t].pc = "idle",
         ~HasLatch(t), p.job = "write_up_to",
         p.lsn <= lsn, p.req <= lsn, p.pending <= lsn,
         \/ p.req <= IF p.durable THEN flushed_to_disk_lsn ELSE w_value
         \/ p.req <= p.lsn /\ p.cb = NoCallback
  PROVE  LogInv' /\ Others(t)
<1> /\ LogTypes /\ WriteOK /\ FlushOK /\ ValuesBehindFile
    /\ CallOK(t) /\ latch # t
  BY DEF LogInv, ThreadOK, ProgressOK
<1> /\ p.lsn \in Nat /\ p.cb \in Lsn \cup {Dummy, NoCallback}
    /\ p.req \in Nat /\ p.pending \in Nat
  BY LockConstants DEF Program
<1> UNCHANGED <<lsn, write_lsn, flushed_to_disk_lsn, latch, log_write_through, synced>>
  BY DEF logVars
<1> w_call[t].ret = 0 /\ f_call[t].ret = 0
  BY DEF CallOK, write_lock!InRelease, flush_lock!InRelease
<1>3. CASE p.durable
  <2> /\ flush_lock!StartAcquire(t, p.lsn, p.cb) /\ UNCHANGED wVars
      /\ prog' = [prog EXCEPT ![t] = [p EXCEPT !.at = "flushAcquire"]]
    BY <1>3 DEF Repeat
  <2> /\ FlushOK'
      /\ \A u \in Thread \ {t} : f_call'[u] = f_call[u]
      /\ f_call'[t].pc = "fast" /\ f_call'[t].num = p.lsn
      /\ f_call'[t].cb = p.cb /\ f_call'[t].ret = 0
      /\ f_value' = f_value /\ f_callbacks' = f_callbacks
      /\ waiter' = waiter
    BY DEF LocksDo, FlushDoes, FlushStarted
  <2> WriteOK' /\ UNCHANGED <<w_value, w_callbacks, w_call>>
    BY WriteLockSame DEF wVars
  <2> DEFINE q == [p EXCEPT !.at = "flushAcquire"]
  <2> /\ q \in Program /\ q.at = "flushAcquire" /\ q.job = p.job /\ q.lsn = p.lsn
      /\ q.durable = p.durable /\ q.cb = p.cb /\ q.req = p.req
      /\ q.pending = p.pending
    BY DEF Program, Places
  <2> /\ prog' \in [Thread -> Program] /\ prog'[t] = q
      /\ \A u \in Thread \ {t} : prog'[u] = prog[u]
    BY ProgSet, Zenon
  <2> HIDE DEF q
  <2> LogTypes' /\ Others(t) /\ ValuesBehindFile'
    BY LogUntouched, Zenon
  <2> WritePlace(t)' /\ FlushPlace(t)' /\ JobOK(t)'
    BY <1>3, Zenon
    DEF WritePlace, FlushPlace, JobOK, HasFlushLock, flush_lock!InAcquire,
        InWriteCall, WithWriteLock, Writing, Flushing
  <2> CallOK(t)'
    BY <1>3 DEF CallOK
  <2> USE Zenon
  <2> ProgressOK(t)' /\ AnswerOK(t)'
    BY <1>3
    DEF ProgressOK, AnswerOK, HasLatch, Settled, Need
  <2> QED
    BY StepKeepsInv DEF ThreadOK
<1>4. CASE ~p.durable
  <2> /\ write_lock!StartAcquire(t, p.lsn, p.cb) /\ UNCHANGED fVars
      /\ prog' = [prog EXCEPT ![t] = [p EXCEPT !.at = "writeAcquire"]]
    BY <1>4 DEF Repeat
  <2> /\ WriteOK'
      /\ \A u \in Thread \ {t} : w_call'[u] = w_call[u]
      /\ w_call'[t].pc = "fast" /\ w_call'[t].num = p.lsn
      /\ w_call'[t].cb = p.cb /\ w_call'[t].ret = 0
      /\ w_value' = w_value /\ w_callbacks' = w_callbacks
      /\ waiter' = waiter
    BY DEF LocksDo, WriteDoes, WriteStarted
  <2> FlushOK' /\ UNCHANGED <<f_value, f_callbacks, f_call>>
    BY FlushLockSame DEF fVars
  <2> DEFINE q == [p EXCEPT !.at = "writeAcquire"]
  <2> /\ q \in Program /\ q.at = "writeAcquire" /\ q.job = p.job /\ q.lsn = p.lsn
      /\ q.durable = p.durable /\ q.cb = p.cb /\ q.req = p.req
      /\ q.pending = p.pending
    BY DEF Program, Places
  <2> /\ prog' \in [Thread -> Program] /\ prog'[t] = q
      /\ \A u \in Thread \ {t} : prog'[u] = prog[u]
    BY ProgSet, Zenon
  <2> HIDE DEF q
  <2> LogTypes' /\ Others(t) /\ ValuesBehindFile'
    BY LogUntouched, Zenon
  <2> WritePlace(t)' /\ FlushPlace(t)' /\ JobOK(t)'
    BY <1>4
    DEF WritePlace, FlushPlace, JobOK, HasFlushLock, write_lock!InAcquire,
        InWriteCall, WithWriteLock, Writing, Flushing
  <2> CallOK(t)'
    BY <1>4 DEF CallOK
  <2> ProgressOK(t)' /\ AnswerOK(t)'
    BY <1>4
    DEF ProgressOK, AnswerOK, HasLatch, Settled, Need
  <2> QED
    BY StepKeepsInv, Zenon DEF ThreadOK
<1> QED
  BY <1>3, <1>4

\* A thread that holds nothing makes a request or hears of its end.
LEMMA IdleInv ==
  ASSUME LogInv, NEW t \in Thread, NEW p \in Program,
         prog' = [prog EXCEPT ![t] = p], UNCHANGED <<wVars, fVars, waiter>>,
         UNCHANGED <<write_lsn, flushed_to_disk_lsn, latch, log_write_through, synced>>,
         lsn' = lsn \/ (lsn' = lsn + 1 /\ lsn < MaxLsn /\ latch = NoThread),
         w_call[t].pc = "idle", f_call[t].pc = "idle", ~HasLatch(t),
         p.at \in {"idle", "needed", "done"}, p.job = "write_up_to",
         p.lsn <= lsn', p.req <= lsn', p.pending = 0,
         p.at = "done" => p.req <= IF p.durable THEN flushed_to_disk_lsn ELSE w_value,
         p.req = 0 \/ p.at = "done" \/ (p.req <= p.lsn /\ p.cb = NoCallback)
  PROVE  LogInv' /\ Others(t)
<1> /\ LogTypes /\ WriteOK /\ FlushOK /\ ValuesBehindFile
    /\ CallOK(t) /\ latch # t
  BY DEF LogInv, ThreadOK, ProgressOK
<1> /\ p.lsn \in Nat /\ p.req \in Nat
    /\ lsn \in Nat /\ lsn' \in 0..MaxLsn /\ lsn <= lsn'
    /\ write_lsn \in Nat /\ flushed_to_disk_lsn \in Nat
    /\ w_value \in Nat /\ f_value \in Nat
  BY LockConstants, Numbers DEF Program
<1> /\ WriteOK' /\ FlushOK'
    /\ UNCHANGED <<w_value, w_callbacks, w_call, f_value, f_callbacks, f_call>>
  BY LocksSame, Zenon
<1> /\ prog' \in [Thread -> Program] /\ prog'[t] = p
    /\ \A u \in Thread \ {t} : prog'[u] = prog[u]
  BY ProgSet, Zenon
<1> LogTypes'
  <2>1. \A c \in w_callbacks \cup f_callbacks : c.num <= lsn'
    <3> \A c \in w_callbacks \cup f_callbacks : c.num \in Nat
      BY Zenon
      DEF WriteOK, WriteTypes, FlushOK, FlushTypes, write_lock!PendingCb, flush_lock!PendingCb
    <3> QED
      BY DEF LogTypes
  <2> QED
    BY <2>1 DEF LogTypes
<1> Others(t) /\ ValuesBehindFile'
  BY LogSysAssumption DEF Others, ValuesBehindFile
<1> WritePlace(t)' /\ FlushPlace(t)' /\ JobOK(t)'
  BY Zenon
  DEF WritePlace, FlushPlace, JobOK, HasFlushLock, InWriteCall, WithWriteLock,
      Writing, Flushing
<1> CallOK(t)'
  BY Numbers DEF CallOK
<1> ProgressOK(t)'
  BY NoProgress, Zenon
<1> AnswerOK(t)'
  <2> p.req = 0 => p.req <= IF p.durable THEN flushed_to_disk_lsn ELSE w_value
    OBVIOUS
  <2> QED
    BY Zenon DEF AnswerOK, Settled, Need
<1> QED
  BY StepKeepsInv, Zenon DEF ThreadOK

\* Outside the calls of the locks and the sections between them, a thread
\* holds nothing.
LEMMA HoldsNothing ==
  ASSUME LogInv, NEW t \in Thread, prog[t].at \in {"idle", "needed", "end", "done"}
  PROVE  w_call[t].pc = "idle" /\ f_call[t].pc = "idle" /\ ~HasLatch(t)
<1> WritePlace(t) /\ FlushPlace(t)
  BY Zenon DEF LogInv, ThreadOK
<1> QED
  BY DEF WritePlace, FlushPlace, HasFlushLock, HasLatch, InWriteCall,
      WithWriteLock, Writing, Flushing

(* A commit that appends to the buffer keeps the invariant. *)
LEMMA CommitInv ==
  ASSUME LogInv, NEW t \in Thread, Commit(t)
  PROVE  LogInv' /\ Others(t)
<1>1. PICK durable \in BOOLEAN, async \in BOOLEAN :
        prog' = [prog EXCEPT ![t] =
                    [Idle EXCEPT !.at = "needed", !.lsn = lsn + 1,
                                 !.durable = durable,
                                 !.cb = IF async THEN lsn + 1 ELSE NoCallback,
                                 !.req = IF async THEN 0 ELSE lsn + 1]]
  BY Zenon DEF Commit
<1> DEFINE cb == IF async THEN lsn + 1 ELSE NoCallback
           req == IF async THEN 0 ELSE lsn + 1
           p == [Idle EXCEPT !.at = "needed", !.lsn = lsn + 1,
                             !.durable = durable, !.cb = cb, !.req = req]
<1> /\ lsn \in Nat /\ MaxLsn \in Nat /\ lsn < MaxLsn
    /\ lsn + 1 \in 0..MaxLsn /\ lsn + 1 \in Lsn
  BY Numbers DEF Commit, Lsn
<1> /\ cb \in Lsn \cup {Dummy, NoCallback} /\ req \in 0..MaxLsn
    /\ req = 0 \/ (req = lsn + 1 /\ cb = NoCallback)
  OBVIOUS
<1> prog' = [prog EXCEPT ![t] = p]
  BY <1>1
<1> HIDE DEF cb, req
<1> /\ p \in Program /\ p.at = "needed" /\ p.job = "write_up_to"
    /\ p.lsn = lsn + 1 /\ p.pending = 0 /\ p.cb = cb /\ p.req = req
  <2> 0 \in 0..MaxLsn
    OBVIOUS
  <2> p \in Program
    BY Zenon DEF Idle, Program, Places, Jobs
  <2> /\ p.at = "needed" /\ p.job = "write_up_to"
      /\ p.lsn = lsn + 1 /\ p.pending = 0 /\ p.cb = cb /\ p.req = req
    BY DEF Idle
  <2> QED
    OBVIOUS
<1> HIDE DEF p
<1> /\ UNCHANGED <<wVars, fVars, waiter>>
    /\ UNCHANGED <<write_lsn, flushed_to_disk_lsn, latch, log_write_through, synced>>
    /\ lsn' = lsn + 1 /\ latch = NoThread /\ prog[t].at = "idle"
  BY DEF Commit, At
<1> /\ lsn' = lsn \/ (lsn' = lsn + 1 /\ lsn < MaxLsn /\ latch = NoThread)
    /\ p.at \in {"idle", "needed", "done"}
    /\ p.lsn <= lsn' /\ p.req <= lsn'
    /\ p.at = "done" => p.req <= IF p.durable THEN flushed_to_disk_lsn ELSE w_value
    /\ p.req = 0 \/ p.at = "done" \/ (p.req <= p.lsn /\ p.cb = NoCallback)
  OBVIOUS
<1> QED
  BY HoldsNothing, IdleInv, Zenon

(* Leaving log_write_up_to() keeps the invariant. *)
LEMMA DoneInv ==
  ASSUME LogInv, NEW t \in Thread, Done(t)
  PROVE  LogInv' /\ Others(t)
<1> /\ UNCHANGED <<wVars, fVars, waiter>>
    /\ UNCHANGED <<write_lsn, flushed_to_disk_lsn, latch, log_write_through, synced>>
    /\ lsn' = lsn /\ prog' = [prog EXCEPT ![t] = Idle] /\ prog[t].at = "done"
  BY DEF Done, At, logVars
<1> /\ Idle \in Program /\ Idle.at = "idle" /\ Idle.job = "write_up_to"
    /\ Idle.lsn = 0 /\ Idle.pending = 0 /\ Idle.req = 0
  BY LockConstants DEF Idle, Program, Places, Jobs
<1> /\ Idle.lsn <= lsn' /\ Idle.req <= lsn'
    /\ Idle.at \in {"idle", "needed", "done"}
    /\ Idle.at = "done" => Idle.req <= IF Idle.durable THEN flushed_to_disk_lsn ELSE w_value
  BY Numbers
<1> QED
  BY HoldsNothing, IdleInv, Zenon

(* The test for a number that is already durable keeps the invariant. *)
LEMMA FlushIfNeededInv ==
  ASSUME LogInv, NEW t \in Thread, LocksDo(t), FlushIfNeeded(t)
  PROVE  LogInv' /\ Others(t)
<1> /\ LogTypes /\ ValuesBehindFile /\ JobOK(t) /\ CallOK(t) /\ AnswerOK(t)
    /\ prog[t] \in Program /\ prog[t].at = "needed"
  BY DEF LogInv, ThreadOK, LogTypes, FlushIfNeeded, At
<1>1. CASE flushed_to_disk_lsn >= prog[t].lsn
  <2> DEFINE p == [Idle EXCEPT !.at = "done", !.durable = TRUE, !.req = prog[t].lsn]
  <2> prog' = [prog EXCEPT ![t] = p] /\ UNCHANGED <<wVars, fVars, waiter>>
    BY <1>1 DEF FlushIfNeeded
  <2> /\ UNCHANGED <<write_lsn, flushed_to_disk_lsn, latch, log_write_through, synced>>
      /\ lsn' = lsn
    BY DEF FlushIfNeeded, logVars
  <2> prog[t].lsn \in 0..MaxLsn /\ 0 \in 0..MaxLsn
    BY LockConstants DEF Program
  <2> p \in Program
    BY Zenon DEF Idle, Program, Places, Jobs
  <2> /\ p.at = "done" /\ p.job = "write_up_to" /\ p.lsn = 0 /\ p.pending = 0
      /\ p.durable = TRUE /\ p.req = prog[t].lsn
    BY DEF Idle
  <2> HIDE DEF p
  <2> /\ p.at \in {"idle", "needed", "done"}
      /\ p.lsn <= lsn' /\ p.req <= lsn'
      /\ p.at = "done" => p.req <= IF p.durable THEN flushed_to_disk_lsn ELSE w_value
    BY <1>1, Numbers DEF CallOK
  <2> QED
    BY HoldsNothing, IdleInv, Zenon
<1>2. CASE ~(flushed_to_disk_lsn >= prog[t].lsn)
  <2> Repeat(t, prog[t]) /\ UNCHANGED logVars
    BY <1>2 DEF FlushIfNeeded
  <2> /\ prog[t].job = "write_up_to"
      /\ prog[t].lsn <= lsn /\ prog[t].req <= lsn /\ prog[t].pending <= lsn
      /\ \/ prog[t].req <= IF prog[t].durable THEN flushed_to_disk_lsn ELSE w_value
         \/ prog[t].req <= prog[t].lsn /\ prog[t].cb = NoCallback
    BY Zenon DEF JobOK, CallOK, AnswerOK, Settled, Need
  <2> QED
    BY HoldsNothing, RepeatInv, Zenon
<1> QED
  BY <1>1, <1>2

(* A request to flush the whole buffer keeps the invariant. *)
LEMMA FlushBufferInv ==
  ASSUME LogInv, NEW t \in Thread, LocksDo(t), FlushBuffer(t)
  PROVE  LogInv' /\ Others(t)
<1>1. PICK durable \in BOOLEAN :
        Repeat(t, [Idle EXCEPT !.lsn = lsn, !.durable = durable, !.req = lsn])
  BY Zenon DEF FlushBuffer
<1> DEFINE p == [Idle EXCEPT !.lsn = lsn, !.durable = durable, !.req = lsn]
<1> lsn \in 0..MaxLsn /\ 0 \in 0..MaxLsn
  BY Numbers
<1> p \in Program
  BY Zenon DEF Idle, Program, Places, Jobs
<1> /\ p.job = "write_up_to" /\ p.lsn = lsn /\ p.pending = 0 /\ p.req = lsn
    /\ p.cb = NoCallback
  BY DEF Idle
<1> Repeat(t, p) /\ UNCHANGED logVars /\ prog[t].at \in {"idle", "needed", "end", "done"}
  BY <1>1 DEF FlushBuffer, At
<1> HIDE DEF p
<1> /\ p.lsn <= lsn /\ p.req <= lsn /\ p.pending <= lsn
    /\ \/ p.req <= IF p.durable THEN flushed_to_disk_lsn ELSE w_value
       \/ p.req <= p.lsn /\ p.cb = NoCallback
  OBVIOUS
<1> QED
  BY HoldsNothing, RepeatInv, Zenon

(* Going on with a pending number at the end of a round keeps the invariant. *)
LEMMA EndInv ==
  ASSUME LogInv, NEW t \in Thread, LocksDo(t), End(t)
  PROVE  LogInv' /\ Others(t)
<1> DEFINE resize == prog[t].job = "resize"
           cb == IF resize THEN NoCallback ELSE Dummy
           durable == prog[t].durable \/ resize
           p == [prog[t] EXCEPT !.job = "write_up_to", !.lsn = prog[t].pending,
                                !.pending = 0, !.durable = durable, !.cb = cb]
<1> /\ LogTypes /\ ValuesBehindFile /\ JobOK(t) /\ CallOK(t) /\ AnswerOK(t)
    /\ prog[t] \in Program /\ prog[t].at = "end"
  BY DEF LogInv, ThreadOK, LogTypes, End, At
<1> Repeat(t, p) /\ UNCHANGED logVars
  BY DEF End
<1> cb \in Lsn \cup {Dummy, NoCallback} /\ durable \in BOOLEAN
    /\ prog[t].pending \in 0..MaxLsn /\ 0 \in 0..MaxLsn
  BY LockConstants DEF Program
<1> \/ ~resize /\ durable = prog[t].durable
    \/ prog[t].req = 0
  BY DEF JobOK, Program
<1> HIDE DEF cb, durable, resize
<1> p \in Program
  BY Zenon DEF Program, Jobs
<1> /\ p.job = "write_up_to" /\ p.lsn = prog[t].pending /\ p.pending = 0
    /\ p.durable = durable /\ p.req = prog[t].req
  BY DEF Program
<1> HIDE DEF p
<1> /\ p.lsn <= lsn /\ p.req <= lsn /\ p.pending <= lsn
    /\ p.req <= IF p.durable THEN flushed_to_disk_lsn ELSE w_value
  BY Numbers DEF CallOK, AnswerOK, Settled
<1> QED
  BY HoldsNothing, RepeatInv, Zenon

\* flush_lock.acquire() or write_lock.acquire() returned without the lock: the
\* value has reached the request, or the callback is queued.
LEMMA FlushLeftInv ==
  ASSUME LogInv, NEW t \in Thread, LocksDo(t), FlushLeft(t)
  PROVE  LogInv' /\ Others(t)
<1> /\ LogTypes /\ WriteOK /\ FlushOK /\ ValuesBehindFile
    /\ WritePlace(t) /\ FlushPlace(t) /\ JobOK(t) /\ CallOK(t)
    /\ ProgressOK(t) /\ AnswerOK(t)
  BY Zenon DEF LogInv, ThreadOK
<1> /\ prog[t].at = "flushAcquire" /\ f_call[t].pc \in {"EXPIRED", "CALLBACK_QUEUED"}
    /\ LeaveF(t) /\ UNCHANGED <<fLockVars, waiter>> /\ Goto(t, "done")
    /\ UNCHANGED wVars /\ waiter' = waiter
    /\ UNCHANGED <<lsn, write_lsn, flushed_to_disk_lsn, latch, log_write_through, synced>>
  BY Zenon DEF FlushLeft, At, logVars
<1> /\ FlushOK'
    /\ \A u \in Thread \ {t} : f_call'[u] = f_call[u]
    /\ f_call'[t].pc = "idle" /\ f_call'[t].cb = NoCallback /\ f_call'[t].ret = 0
    /\ UNCHANGED <<f_value, f_callbacks>>
  BY Zenon DEF LocksDo, FlushDoes, FlushIdle, fLockVars
<1> WriteOK' /\ UNCHANGED <<w_value, w_callbacks, w_call>>
  BY WriteLockSame, Zenon DEF wVars
<1> /\ prog' \in [Thread -> Program]
    /\ \A u \in Thread \ {t} : prog'[u] = prog[u]
    /\ prog'[t].at = "done" /\ prog'[t].job = prog[t].job
    /\ prog'[t].lsn = prog[t].lsn /\ prog'[t].durable = prog[t].durable
    /\ prog'[t].cb = prog[t].cb /\ prog'[t].n = prog[t].n
    /\ prog'[t].pending = prog[t].pending /\ prog'[t].req = prog[t].req
  BY ProgGoto, Zenon DEF Places
<1> LogTypes' /\ Others(t) /\ ValuesBehindFile'
  BY LogUntouched, Zenon
<1> WritePlace(t)' /\ FlushPlace(t)' /\ JobOK(t)'
  BY Zenon
  DEF WritePlace, FlushPlace, JobOK, HasFlushLock, InWriteCall, WithWriteLock,
      Writing, Flushing
<1> 0 <= lsn /\ latch # t
  BY Numbers, Zenon DEF ProgressOK, HasLatch, JobOK
<1> CallOK(t)'
  BY Zenon DEF CallOK
<1> ProgressOK(t)'
  BY NoProgress, Zenon
<1> AnswerOK(t)'
  <2> prog[t].cb = NoCallback => prog[t].lsn <= f_value
    BY Zenon DEF CallOK, FlushOK, FlushEarly, FlushQueued
  <2> prog[t].durable /\ prog[t].job = "write_up_to" /\ f_value <= flushed_to_disk_lsn
    BY Zenon DEF JobOK, ValuesBehindFile
  <2> /\ prog[t].req \in Nat /\ prog[t].lsn \in Nat
      /\ f_value \in Nat /\ flushed_to_disk_lsn \in Nat
    BY Numbers, Zenon
  <2> Settled(t)
    BY Transitive, Zenon DEF AnswerOK, Settled, Need
  <2> QED
    BY Zenon DEF AnswerOK, Settled
<1> QED
  BY StepKeepsInv, Zenon DEF ThreadOK

(* Leaving write_lock without owning it keeps the invariant. *)
LEMMA WriteLeftInv ==
  ASSUME LogInv, NEW t \in Thread, LocksDo(t), WriteLeft(t)
  PROVE  LogInv' /\ Others(t)
<1> /\ LogTypes /\ WriteOK /\ FlushOK /\ ValuesBehindFile
    /\ WritePlace(t) /\ FlushPlace(t) /\ JobOK(t) /\ CallOK(t)
    /\ ProgressOK(t) /\ AnswerOK(t)
  BY Zenon DEF LogInv, ThreadOK
<1> DEFINE place == IF prog[t].durable THEN "flush" ELSE "done"
<1> /\ prog[t].at = "writeAcquire" /\ w_call[t].pc \in {"EXPIRED", "CALLBACK_QUEUED"}
    /\ LeaveW(t) /\ UNCHANGED <<wLockVars, waiter>> /\ Goto(t, place)
    /\ UNCHANGED fVars /\ waiter' = waiter
    /\ UNCHANGED <<lsn, write_lsn, flushed_to_disk_lsn, latch, log_write_through, synced>>
  BY Zenon DEF WriteLeft, At, logVars
<1> /\ WriteOK'
    /\ \A u \in Thread \ {t} : w_call'[u] = w_call[u]
    /\ w_call'[t].pc = "idle" /\ w_call'[t].cb = NoCallback /\ w_call'[t].ret = 0
    /\ UNCHANGED <<w_value, w_callbacks>>
  BY Zenon DEF LocksDo, WriteDoes, WriteIdle, wLockVars
<1> FlushOK' /\ UNCHANGED <<f_value, f_callbacks, f_call>>
  BY FlushLockSame, Zenon DEF fVars
<1> \/ prog[t].durable /\ place = "flush"
    \/ ~prog[t].durable /\ place = "done"
  BY Zenon
<1> HIDE DEF place
<1> /\ prog' \in [Thread -> Program]
    /\ \A u \in Thread \ {t} : prog'[u] = prog[u]
    /\ prog'[t].at = place /\ prog'[t].job = prog[t].job
    /\ prog'[t].lsn = prog[t].lsn /\ prog'[t].durable = prog[t].durable
    /\ prog'[t].cb = prog[t].cb /\ prog'[t].n = prog[t].n
    /\ prog'[t].pending = prog[t].pending /\ prog'[t].req = prog[t].req
  BY Zenon, ProgGoto DEF Places
<1> LogTypes' /\ Others(t) /\ ValuesBehindFile'
  BY LogUntouched, Zenon
<1> WritePlace(t)' /\ FlushPlace(t)' /\ JobOK(t)'
  BY Zenon
  DEF WritePlace, FlushPlace, JobOK, HasFlushLock, InWriteCall, WithWriteLock,
      Writing, Flushing
<1> 0 <= lsn
  BY Numbers, Zenon
<1> CallOK(t)'
  BY Zenon DEF CallOK
<1> prog[t].durable \/ prog[t].cb = NoCallback => prog[t].lsn <= w_value
  BY Zenon DEF CallOK, WriteOK, WriteEarly, WriteQueued
<1> ProgressOK(t)'
  BY Zenon DEF ProgressOK, HasLatch, Need, JobOK
<1> AnswerOK(t)'
  <2> /\ prog[t].req \in Nat /\ prog[t].lsn \in Nat /\ w_value \in Nat
      /\ prog[t].job = "write_up_to"
    BY Numbers, Zenon DEF JobOK
  <2> QED
    BY Transitive, Zenon DEF AnswerOK, Settled, Need
<1> QED
  BY StepKeepsInv, Zenon DEF ThreadOK

\* The two locks are asked for one after the other.
LEMMA FlushAcquiredInv ==
  ASSUME LogInv, NEW t \in Thread, LocksDo(t), FlushAcquired(t)
  PROVE  LogInv' /\ Others(t)
<1> /\ LogTypes /\ WriteOK /\ FlushOK /\ ValuesBehindFile
    /\ WritePlace(t) /\ FlushPlace(t) /\ JobOK(t) /\ CallOK(t)
    /\ ProgressOK(t) /\ AnswerOK(t)
  BY Zenon DEF LogInv, ThreadOK
<1> /\ prog[t].at = "flushAcquire" /\ f_call[t].pc = "ACQUIRED"
    /\ flush_lock!set_pending(lsn) /\ Goto(t, "writeAcquire")
    /\ write_lock!StartAcquire(t, prog[t].lsn, NoCallback)
    /\ UNCHANGED <<lsn, write_lsn, flushed_to_disk_lsn, latch, log_write_through, synced>>
  BY Zenon DEF FlushAcquired, At, logVars
<1> w_call[t].pc = "idle" /\ prog[t].durable
  BY Zenon DEF WritePlace, JobOK, InWriteCall, WithWriteLock
<1> /\ WriteOK'
    /\ \A u \in Thread \ {t} : w_call'[u] = w_call[u]
    /\ w_call'[t].pc = "fast" /\ w_call'[t].num = prog[t].lsn
    /\ w_call'[t].cb = NoCallback /\ w_call'[t].ret = 0
    /\ w_value' = w_value /\ w_callbacks' = w_callbacks
  BY Numbers, Zenon DEF LocksDo, WriteDoes, WriteStarted
<1> FlushOK' /\ UNCHANGED <<f_value, f_callbacks, f_call>>
  BY Numbers, Zenon DEF LocksDo, FlushDoes, FlushPending
<1> /\ prog' \in [Thread -> Program]
    /\ \A u \in Thread \ {t} : prog'[u] = prog[u]
    /\ prog'[t].at = "writeAcquire" /\ prog'[t].job = prog[t].job
    /\ prog'[t].lsn = prog[t].lsn /\ prog'[t].durable = prog[t].durable
    /\ prog'[t].cb = prog[t].cb /\ prog'[t].n = prog[t].n
    /\ prog'[t].pending = prog[t].pending /\ prog'[t].req = prog[t].req
  BY ProgGoto, Zenon DEF Places
<1> LogTypes' /\ Others(t) /\ ValuesBehindFile'
  BY LogUntouched, Zenon
<1> WritePlace(t)' /\ FlushPlace(t)' /\ JobOK(t)'
  BY Zenon
  DEF WritePlace, FlushPlace, JobOK, HasFlushLock, InWriteCall, WithWriteLock,
      Writing, Flushing, write_lock!InAcquire
<1> 0 <= lsn /\ latch # t
  BY Numbers, Zenon DEF ProgressOK, HasLatch, JobOK
<1> USE Zenon
<1> CallOK(t)'
  BY DEF CallOK
<1> ProgressOK(t)' /\ AnswerOK(t)'
  BY NoProgress, AnswerKept
<1> QED
  BY StepKeepsInv DEF ThreadOK

\* log_write_and_flush_prepare() and log_resize_acquire() ask for flush_lock.
LEMMA AskFlushInv ==
  ASSUME LogInv, NEW t \in Thread, LocksDo(t), NEW p \in Program,
         flush_lock!StartAcquire(t, lsn + 1, NoCallback),
         UNCHANGED wVars, UNCHANGED logVars,
         w_call[t].pc = "idle", f_call[t].pc # "ACQUIRED", ~HasLatch(t),
         prog' = [prog EXCEPT ![t] = p], p.at = "prepareFlush",
         p.lsn = 0, p.req <= lsn, p.pending <= lsn, p.cb = NoCallback,
         \/ p.job = "resize" /\ t \in Resizers /\ p.durable = FALSE /\ p.req = 0
         \/ p.job = "write_and_flush" /\ p.durable = TRUE
  PROVE  LogInv' /\ Others(t)
<1> /\ LogTypes /\ WriteOK /\ FlushOK /\ ValuesBehindFile
    /\ CallOK(t) /\ latch # t
  BY Zenon DEF LogInv, ThreadOK, ProgressOK
<1> UNCHANGED <<lsn, write_lsn, flushed_to_disk_lsn, latch, log_write_through, synced>>
  BY Zenon DEF logVars
<1> /\ FlushOK'
    /\ \A u \in Thread \ {t} : f_call'[u] = f_call[u]
    /\ f_call'[t].pc = "fast" /\ f_call'[t].cb = NoCallback /\ f_call'[t].ret = 0
    /\ f_value' = f_value /\ f_callbacks' = f_callbacks /\ waiter' = waiter
  <2> lsn + 1 \in Nat
    BY Numbers, Zenon
  <2> QED
    BY Zenon DEF LocksDo, FlushDoes, FlushStarted
<1> WriteOK' /\ UNCHANGED <<w_value, w_callbacks, w_call>>
  BY WriteLockSame, Zenon DEF wVars
<1> /\ prog' \in [Thread -> Program] /\ prog'[t] = p
    /\ \A u \in Thread \ {t} : prog'[u] = prog[u]
  BY ProgSet, Zenon
<1> LogTypes' /\ Others(t) /\ ValuesBehindFile'
  BY LogUntouched, Zenon
<1> WritePlace(t)' /\ FlushPlace(t)' /\ JobOK(t)'
  BY Zenon
  DEF WritePlace, FlushPlace, JobOK, HasFlushLock, InWriteCall, WithWriteLock,
      Writing, Flushing, flush_lock!InAcquire
<1> CallOK(t)'
  <2> 0 <= lsn
    BY Numbers, Zenon
  <2> USE Zenon
  <2> w_call[t].ret = 0
    BY DEF CallOK, write_lock!InRelease
  <2> QED
    BY DEF CallOK
<1> ProgressOK(t)'
  BY NoProgress, Zenon
<1> AnswerOK(t)'
  <2> 0 <= w_value /\ 0 <= flushed_to_disk_lsn
    BY Numbers, Zenon
  <2> p.req \in 0..MaxLsn
    BY Zenon DEF Program
  <2> p.req <= p.req
    BY Reflexive, Zenon
  <2> QED
    BY Zenon DEF AnswerOK, Settled, Need
<1> QED
  BY StepKeepsInv, Zenon DEF ThreadOK

(* Starting log_write_and_flush() or a resize keeps the invariant. *)
LEMMA PrepareInv ==
  ASSUME LogInv, NEW t \in Thread, LocksDo(t), Prepare(t)
  PROVE  LogInv' /\ Others(t)
<1>1. PICK job \in {"write_and_flush", "resize"} :
        /\ job = "resize" => t \in Resizers
        /\ prog' = [prog EXCEPT ![t] = [Idle EXCEPT !.at = "prepareFlush",
                        !.job = job, !.durable = job = "write_and_flush"]]
  BY Zenon DEF Prepare
<1> DEFINE durable == job = "write_and_flush"
           p == [Idle EXCEPT !.at = "prepareFlush", !.job = job, !.durable = durable]
<1> durable \in BOOLEAN /\ 0 \in 0..MaxLsn
  BY LockConstants
<1> \/ job = "resize" /\ t \in Resizers /\ durable = FALSE
    \/ job = "write_and_flush" /\ durable = TRUE
  BY <1>1
<1> prog' = [prog EXCEPT ![t] = p]
  BY <1>1
<1> HIDE DEF durable
<1> p \in Program
  BY Zenon DEF Idle, Program, Places, Jobs
<1> /\ p.at = "prepareFlush" /\ p.job = job /\ p.lsn = 0 /\ p.pending = 0
    /\ p.durable = durable /\ p.req = 0 /\ p.cb = NoCallback
  BY DEF Idle
<1> HIDE DEF p
<1> /\ flush_lock!StartAcquire(t, lsn + 1, NoCallback)
    /\ UNCHANGED wVars /\ UNCHANGED logVars /\ prog[t].at \in {"idle", "needed", "end", "done"}
  BY DEF Prepare, At
<1> w_call[t].pc = "idle" /\ f_call[t].pc # "ACQUIRED" /\ ~HasLatch(t)
  BY HoldsNothing, Zenon
<1> /\ p.req <= lsn /\ p.pending <= lsn
    /\ \/ p.job = "resize" /\ t \in Resizers /\ p.durable = FALSE /\ p.req = 0
       \/ p.job = "write_and_flush" /\ p.durable = TRUE
  BY Numbers, Zenon
<1> QED
  BY AskFlushInv, Zenon

\* ... and then for write_lock.
LEMMA AskWriteInv ==
  ASSUME LogInv, NEW t \in Thread, LocksDo(t), prog[t].at \in {"prepareFlush", "prepareWrite"},
         f_call[t].pc = "ACQUIRED", w_call[t].pc # "ACQUIRED",
         write_lock!StartAcquire(t, lsn + 1, NoCallback), Goto(t, "prepareWrite"),
         UNCHANGED fVars, UNCHANGED logVars
  PROVE  LogInv' /\ Others(t)
<1> /\ LogTypes /\ WriteOK /\ FlushOK /\ ValuesBehindFile
    /\ JobOK(t) /\ CallOK(t) /\ ProgressOK(t) /\ AnswerOK(t)
  BY Zenon DEF LogInv, ThreadOK
<1> UNCHANGED <<lsn, write_lsn, flushed_to_disk_lsn, latch, log_write_through, synced>>
  BY Zenon DEF logVars
<1> /\ WriteOK'
    /\ \A u \in Thread \ {t} : w_call'[u] = w_call[u]
    /\ w_call'[t].pc = "fast" /\ w_call'[t].cb = NoCallback /\ w_call'[t].ret = 0
    /\ w_value' = w_value /\ w_callbacks' = w_callbacks /\ waiter' = waiter
  <2> lsn + 1 \in Nat
    BY Numbers, Zenon
  <2> QED
    BY Zenon DEF LocksDo, WriteDoes, WriteStarted
<1> FlushOK' /\ UNCHANGED <<f_value, f_callbacks, f_call>>
  BY FlushLockSame, Zenon DEF fVars
<1> /\ prog' \in [Thread -> Program]
    /\ \A u \in Thread \ {t} : prog'[u] = prog[u]
    /\ prog'[t].at = "prepareWrite" /\ prog'[t].job = prog[t].job
    /\ prog'[t].lsn = prog[t].lsn /\ prog'[t].durable = prog[t].durable
    /\ prog'[t].cb = prog[t].cb /\ prog'[t].n = prog[t].n
    /\ prog'[t].pending = prog[t].pending /\ prog'[t].req = prog[t].req
  BY Zenon, ProgGoto DEF Places
<1> LogTypes' /\ Others(t) /\ ValuesBehindFile'
  BY LogUntouched, Zenon
<1> WritePlace(t)' /\ FlushPlace(t)' /\ JobOK(t)'
  BY Zenon
  DEF WritePlace, FlushPlace, JobOK, HasFlushLock, InWriteCall, WithWriteLock,
      Writing, Flushing, write_lock!InAcquire
<1> 0 <= lsn /\ latch # t
  BY Numbers, Zenon DEF ProgressOK, HasLatch, JobOK
<1> USE Zenon
<1> CallOK(t)'
  BY DEF CallOK
<1> ProgressOK(t)' /\ AnswerOK(t)'
  BY NoProgress, AnswerKept
<1> QED
  BY StepKeepsInv DEF ThreadOK

(* Acquiring flush_lock in log_write_and_flush_prepare() keeps the invariant. *)
LEMMA PrepareFlushInv ==
  ASSUME LogInv, NEW t \in Thread, LocksDo(t), PrepareFlush(t)
  PROVE  LogInv' /\ Others(t)
<1> /\ LogTypes /\ WritePlace(t) /\ JobOK(t) /\ CallOK(t) /\ prog[t].at = "prepareFlush"
  BY Zenon DEF LogInv, ThreadOK, PrepareFlush, At
<1> w_call[t].pc = "idle" /\ ~HasLatch(t) /\ UNCHANGED logVars
  BY Zenon DEF WritePlace, HasLatch, InWriteCall, WithWriteLock, PrepareFlush
<1>2. CASE /\ f_call[t].pc = "EXPIRED" /\ UNCHANGED <<wVars, prog>>
           /\ flush_lock!StartAcquire(t, lsn + 1, NoCallback)
  <2> prog[t] \in Program /\ prog' = [prog EXCEPT ![t] = prog[t]]
    BY Zenon, <1>2 DEF LogTypes
  <2> prog[t].job \in Jobs
    BY DEF Program
  <2> /\ prog[t].lsn = 0 /\ prog[t].req <= lsn /\ prog[t].pending <= lsn
      /\ prog[t].cb = NoCallback
      /\ \/ /\ prog[t].job = "resize" /\ t \in Resizers
            /\ prog[t].durable = FALSE /\ prog[t].req = 0
         \/ prog[t].job = "write_and_flush" /\ prog[t].durable = TRUE
    BY Zenon DEF JobOK, CallOK, Jobs, Program
  <2> UNCHANGED wVars /\ f_call[t].pc # "ACQUIRED"
    BY <1>2
  <2> QED
    BY <1>2, AskFlushInv, Zenon
<1>3. CASE /\ f_call[t].pc = "ACQUIRED" /\ Goto(t, "prepareWrite") /\ UNCHANGED fVars
           /\ write_lock!StartAcquire(t, lsn + 1, NoCallback)
  <2> w_call[t].pc # "ACQUIRED"
    OBVIOUS
  <2> QED
    BY <1>3, AskWriteInv, Zenon
<1> QED
  BY <1>2, <1>3, Zenon DEF PrepareFlush

(* Acquiring write_lock in log_write_and_flush_prepare() keeps the invariant. *)
LEMMA PrepareWriteInv ==
  ASSUME LogInv, NEW t \in Thread, LocksDo(t), PrepareWrite(t)
  PROVE  LogInv' /\ Others(t)
<1> LogTypes /\ FlushPlace(t) /\ prog[t].at = "prepareWrite"
  BY Zenon DEF LogInv, ThreadOK, PrepareWrite, At
<1> f_call[t].pc = "ACQUIRED"
  BY DEF FlushPlace, HasFlushLock, Flushing
<1> Goto(t, "prepareWrite")
  BY DEF LogTypes, Goto, PrepareWrite, Program
<1> /\ w_call[t].pc # "ACQUIRED" /\ UNCHANGED fVars /\ UNCHANGED logVars
    /\ write_lock!StartAcquire(t, lsn + 1, NoCallback)
  BY DEF PrepareWrite
<1> QED
  BY AskWriteInv, Zenon

-----------------------------------------------------------------------------
(* The steps with log_sys.latch, the writes and syncs, the release of the locks *)

\* A step of t that lets the LSNs grow whose lock it owns.
LEMMA LogGrows ==
  ASSUME LogInv, NEW t \in Thread,
         prog' \in [Thread -> Program],
         \A u \in Thread \ {t} : prog'[u] = prog[u],
         \A u \in Thread \ {t} : w_call'[u] = w_call[u],
         \A u \in Thread \ {t} : f_call'[u] = f_call[u],
         \A u \in Thread \ {t} : latch' = u <=> latch = u,
         latch' \in Thread \cup {NoThread}, log_write_through' \in BOOLEAN,
         lsn' = lsn, ValuesBehindFile', synced' \subseteq 1..write_lsn',
         \/ write_lsn' = write_lsn
         \/ write_lsn' \in Nat /\ write_lsn <= write_lsn' /\ w_call[t].pc = "ACQUIRED",
         \/ w_value' = w_value
         \/ w_value' \in Nat /\ w_value <= w_value' /\ w_call[t].pc = "ACQUIRED",
         \/ flushed_to_disk_lsn' = flushed_to_disk_lsn
         \/ /\ flushed_to_disk_lsn' \in Nat /\ flushed_to_disk_lsn <= flushed_to_disk_lsn'
            /\ f_call[t].pc = "ACQUIRED",
         \/ f_value' = f_value
         \/ f_value' \in Nat /\ f_value <= f_value' /\ f_call[t].pc = "ACQUIRED",
         \A c \in w_callbacks' : c \in w_callbacks,
         \A c \in f_callbacks' : c \in f_callbacks
  PROVE  LogTypes' /\ Others(t)
<1> LogTypes /\ ValuesBehindFile
  BY DEF LogInv
<1> /\ lsn \in Nat /\ write_lsn \in Nat /\ flushed_to_disk_lsn \in Nat
    /\ w_value \in Nat /\ f_value \in Nat
  BY Numbers
<1> /\ write_lsn' \in Nat /\ write_lsn <= write_lsn'
    /\ flushed_to_disk_lsn' \in Nat /\ flushed_to_disk_lsn <= flushed_to_disk_lsn'
    /\ w_value' \in Nat /\ w_value <= w_value'
    /\ f_value' \in Nat /\ f_value <= f_value' /\ lsn <= lsn
  OBVIOUS
<1> LogTypes'
  BY Zenon DEF LogTypes
<1> QED
  BY Zenon DEF Others

\* A thread that goes on with the same request while the LSNs grow.
LEMMA AnswerGrows ==
  ASSUME LogInv, NEW t \in Thread, Others(t),
         prog'[t].req = prog[t].req, prog'[t].durable = prog[t].durable,
         prog'[t].job = prog[t].job, prog'[t].lsn = prog[t].lsn,
         prog'[t].cb = prog[t].cb, prog'[t].at \notin {"end", "done"}
  PROVE  AnswerOK(t)'
<1> AnswerOK(t)
  BY Zenon DEF LogInv, ThreadOK
<1> QED
  BY Numbers DEF AnswerOK, Settled, Need, Others

\* What log_write_buf() puts on stable storage.
LEMMA SyncedGrows ==
  ASSUME LogInv, NEW t \in Thread, write_lsn < prog[t].n,
         synced' = synced \cup
           IF log_write_through THEN (write_lsn + 1)..prog[t].n ELSE {}
  PROVE  /\ synced' \subseteq 1..prog[t].n
         /\ write_lsn <= prog[t].n /\ w_value <= prog[t].n
<1> /\ write_lsn \in Nat /\ prog[t].n \in Nat /\ w_value \in Nat
    /\ synced \subseteq 1..write_lsn /\ w_value <= write_lsn
  BY Numbers DEF LogInv, LogTypes, ValuesBehindFile
<1> write_lsn <= prog[t].n /\ w_value <= prog[t].n
  OBVIOUS
<1> 1..write_lsn \subseteq 1..prog[t].n /\ (write_lsn + 1)..prog[t].n \subseteq 1..prog[t].n
  OBVIOUS
<1> QED
  BY Zenon

\* The owner of write_lock takes log_sys.latch.
LEMMA LatchInv ==
  ASSUME LogInv, NEW t \in Thread, Latch(t)
  PROVE  LogInv' /\ Others(t)
<1> /\ LogTypes /\ WriteOK /\ FlushOK /\ ValuesBehindFile
    /\ WritePlace(t) /\ FlushPlace(t) /\ JobOK(t) /\ CallOK(t)
    /\ ProgressOK(t) /\ AnswerOK(t)
  BY Zenon DEF LogInv, ThreadOK
<1> /\ prog[t].at \in {"writeAcquire", "prepareWrite"} /\ w_call[t].pc = "ACQUIRED"
    /\ latch = NoThread /\ latch' = t
    /\ UNCHANGED <<wVars, fVars, waiter>>
    /\ UNCHANGED <<write_lsn, flushed_to_disk_lsn, log_write_through, synced>>
  BY Zenon DEF Latch, At
<1> /\ WriteOK' /\ FlushOK'
    /\ UNCHANGED <<w_value, w_callbacks, w_call, f_value, f_callbacks, f_call>>
  BY LocksSame, Zenon
<1> DEFINE place == IF prog[t].job = "resize" THEN "reopen" ELSE "write_buf"
<1> /\ prog' \in [Thread -> Program]
    /\ \A u \in Thread \ {t} : prog'[u] = prog[u]
    /\ prog'[t].at = place /\ prog'[t].job = prog[t].job
    /\ prog'[t].lsn = prog[t].lsn /\ prog'[t].durable = prog[t].durable
    /\ prog'[t].cb = prog[t].cb /\ prog'[t].pending = prog[t].pending
    /\ lsn' \in 0..MaxLsn /\ lsn <= lsn'
    /\ \/ prog'[t].req = prog[t].req /\ lsn' = lsn
       \/ prog'[t].req = lsn' /\ prog[t].job = "write_and_flush"
  <2>1. CASE prog[t].job = "write_and_flush" /\ lsn < MaxLsn
    <3> DEFINE p == [prog[t] EXCEPT !.at = "write_buf", !.req = lsn + 1]
    <3> lsn' = lsn + 1 /\ lsn \in Nat /\ lsn + 1 \in 0..MaxLsn /\ place = "write_buf"
      BY <2>1, Numbers DEF Latch
    <3> prog[t] \in Program /\ prog' = [prog EXCEPT ![t] = p]
      BY <2>1, Zenon DEF Latch, LogTypes
    <3> p \in Program
      BY Zenon DEF Program, Places
    <3> /\ p.at = "write_buf" /\ p.job = prog[t].job /\ p.lsn = prog[t].lsn
        /\ p.durable = prog[t].durable /\ p.cb = prog[t].cb
        /\ p.pending = prog[t].pending /\ p.req = lsn + 1
      BY DEF Program
    <3> HIDE DEF p, place
    <3> /\ prog' \in [Thread -> Program] /\ prog'[t] = p
        /\ \A u \in Thread \ {t} : prog'[u] = prog[u]
      BY ProgSet, Zenon
    <3> QED
      BY <2>1
  <2>2. CASE ~(prog[t].job = "write_and_flush" /\ lsn < MaxLsn)
    <3> Goto(t, place) /\ lsn' = lsn /\ lsn \in Nat /\ lsn \in 0..MaxLsn
      BY <2>2, Numbers DEF Latch
    <3> place \in Places
      BY DEF Places
    <3> HIDE DEF place
    <3> QED
      BY ProgGoto
  <2> QED
    BY <2>1, <2>2
<1> prog[t].job # "write_up_to" => prog[t].durable \/ prog[t].job = "resize"
  <2> prog[t].job \in Jobs
    BY DEF LogTypes, Program
  <2> QED
    BY DEF JobOK, Jobs
<1> \/ place = "reopen" /\ prog[t].job = "resize"
    \/ place = "write_buf" /\ prog[t].job # "resize"
  OBVIOUS
<1> HIDE DEF place
<1> LogTypes'
  <2>1. \A c \in w_callbacks \cup f_callbacks : c.num <= lsn'
    <3> \A c \in w_callbacks \cup f_callbacks : c.num \in Nat
      BY Zenon
      DEF WriteOK, WriteTypes, FlushOK, FlushTypes, write_lock!PendingCb, flush_lock!PendingCb
    <3> QED
      BY Numbers DEF LogTypes
  <2> QED
    BY <2>1 DEF LogTypes
<1> Others(t) /\ ValuesBehindFile'
  BY Numbers, LogSysAssumption DEF Others, ValuesBehindFile
<1> WritePlace(t)' /\ FlushPlace(t)'
  <2> USE Zenon
  <2> HasFlushLock(t)' <=> HasFlushLock(t)
    BY DEF HasFlushLock, JobOK, Writing, Flushing
  <2> QED
    BY DEF WritePlace, FlushPlace, InWriteCall, WithWriteLock
<1> JobOK(t)'
  <2> prog[t].job = "resize" => prog'[t].req = prog[t].req
    OBVIOUS
  <2> QED
    BY Zenon DEF JobOK
<1> /\ lsn \in Nat /\ lsn' \in Nat /\ w_call[t].ret \in Nat /\ f_call[t].ret \in Nat
    /\ prog[t].lsn \in Nat /\ prog[t].req \in Nat /\ prog[t].pending \in Nat
    /\ w_call[t].num \in Nat /\ f_call[t].num \in Nat
    /\ w_value \in Nat /\ flushed_to_disk_lsn \in Nat
  BY Numbers, Zenon DEF Others
<1> /\ prog[t].lsn <= lsn' /\ prog[t].pending <= lsn' /\ prog[t].req <= lsn'
    /\ w_call[t].ret <= lsn' /\ f_call[t].ret <= lsn' /\ lsn' <= lsn'
    /\ w_call[t].cb # NoCallback => w_call[t].num <= lsn'
    /\ f_call[t].cb # NoCallback => f_call[t].num <= lsn'
  <2>1. /\ prog[t].lsn <= lsn /\ prog[t].pending <= lsn /\ prog[t].req <= lsn
        /\ w_call[t].ret <= lsn /\ f_call[t].ret <= lsn
    BY Zenon DEF CallOK
  <2>2. /\ w_call[t].cb # NoCallback => w_call[t].num <= lsn
        /\ f_call[t].cb # NoCallback => f_call[t].num <= lsn
    BY Zenon DEF CallOK
  <2>3. /\ prog[t].lsn <= lsn' /\ prog[t].pending <= lsn' /\ prog[t].req <= lsn'
        /\ w_call[t].ret <= lsn' /\ f_call[t].ret <= lsn' /\ lsn' <= lsn'
    BY <2>1, Transitive, Reflexive, ZenonT(40)
  <2>4. /\ w_call[t].num <= lsn => w_call[t].num <= lsn'
        /\ f_call[t].num <= lsn => f_call[t].num <= lsn'
    BY Transitive, Zenon
  <2> QED
    BY <2>2, <2>3, <2>4, Zenon
<1> CallOK(t)'
  BY Zenon DEF CallOK
<1> ProgressOK(t)'
  <2> Need(t)' <= lsn'
    BY Zenon DEF Need
  <2> QED
    BY Zenon DEF ProgressOK, HasLatch
<1> AnswerOK(t)'
  <2>1. CASE prog'[t].req = prog[t].req
    BY <2>1, AnswerKept, Zenon
  <2>2. CASE prog'[t].req = lsn' /\ prog[t].job = "write_and_flush"
    BY <2>2, Zenon DEF AnswerOK, Need, JobOK
  <2> QED
    BY <2>1, <2>2, Zenon
<1> QED
  BY StepKeepsInv, Zenon DEF ThreadOK

(* A move of one thread to another place, in the form the steps below use. *)
LEMMA ProgMove ==
  ASSUME LogTypes, NEW t \in Thread, NEW place \in Places, NEW n \in 0..MaxLsn,
         prog' = [prog EXCEPT ![t].at = place, ![t].n = n]
  PROVE  /\ prog' \in [Thread -> Program]
         /\ \A u \in Thread \ {t} : prog'[u] = prog[u]
         /\ prog'[t].at = place /\ prog'[t].job = prog[t].job
         /\ prog'[t].lsn = prog[t].lsn /\ prog'[t].durable = prog[t].durable
         /\ prog'[t].cb = prog[t].cb /\ prog'[t].n = n
         /\ prog'[t].pending = prog[t].pending /\ prog'[t].req = prog[t].req
<1> DEFINE p == [prog[t] EXCEPT !.at = place, !.n = n]
<1> prog' = [prog EXCEPT ![t] = p] /\ prog[t] \in Program
  BY Zenon DEF LogTypes
<1> p \in Program
  BY Zenon DEF Program
<1> /\ p.at = place /\ p.job = prog[t].job /\ p.lsn = prog[t].lsn
    /\ p.durable = prog[t].durable /\ p.cb = prog[t].cb /\ p.n = n
    /\ p.pending = prog[t].pending /\ p.req = prog[t].req
  BY DEF Program
<1> HIDE DEF p
<1> QED
  BY ProgSet, Zenon

\* log_t::write_buf() up to the write.
LEMMA WriteBufInv ==
  ASSUME LogInv, NEW t \in Thread, LocksDo(t), WriteBuf(t)
  PROVE  LogInv' /\ Others(t)
<1> /\ LogTypes /\ WriteOK /\ FlushOK /\ ValuesBehindFile
    /\ WritePlace(t) /\ FlushPlace(t) /\ JobOK(t) /\ CallOK(t)
    /\ ProgressOK(t) /\ AnswerOK(t)
  BY Zenon DEF LogInv, ThreadOK
<1> /\ prog[t].at = "write_buf" /\ UNCHANGED fVars
    /\ UNCHANGED <<lsn, write_lsn, flushed_to_disk_lsn, log_write_through, synced>>
    /\ latch' = IF prog[t].job = "write_and_flush" THEN t ELSE NoThread
  BY Zenon DEF WriteBuf, At
<1> /\ latch = t /\ Need(t) <= lsn
    /\ lsn \in Nat /\ lsn \in 0..MaxLsn /\ lsn <= lsn /\ w_value <= lsn
  <2> w_value \in Nat /\ write_lsn \in Nat /\ lsn \in Nat
    BY Numbers, Zenon
  <2> QED
    BY Transitive, Reflexive, Zenon DEF LogTypes, ProgressOK, HasLatch, ValuesBehindFile
<1>4. PICK place \in {"writeRelease", "io"} :
        /\ prog' = [prog EXCEPT ![t].at = place, ![t].n = lsn]
        /\ place = "writeRelease" => write_lsn >= lsn /\ UNCHANGED <<wVars, waiter>>
        /\ place = "io" => ~(write_lsn >= lsn) /\ write_lock!set_pending(lsn)
  BY Zenon DEF WriteBuf
<1>5. /\ place = "writeRelease" => lsn <= write_lsn
      /\ place = "io" => write_lsn < lsn
  <2> write_lsn \in Nat
    BY Numbers, Zenon
  <2> QED
    BY <1>4
<1> USE Zenon
<1> WriteOK' /\ waiter' = waiter /\ UNCHANGED <<w_value, w_callbacks, w_call>>
  <2>1. CASE place = "writeRelease"
    BY <1>4, <2>1, WriteLockSame DEF wVars
  <2>2. CASE place = "io"
    BY <1>4, <2>2 DEF LocksDo, WriteDoes, WritePending
  <2> QED
    BY <2>1, <2>2
<1> FlushOK' /\ UNCHANGED <<f_value, f_callbacks, f_call>>
  BY FlushLockSame DEF fVars
<1> /\ prog' \in [Thread -> Program]
    /\ \A u \in Thread \ {t} : prog'[u] = prog[u]
    /\ prog'[t].at = place /\ prog'[t].job = prog[t].job
    /\ prog'[t].lsn = prog[t].lsn /\ prog'[t].durable = prog[t].durable
    /\ prog'[t].cb = prog[t].cb /\ prog'[t].n = lsn
    /\ prog'[t].pending = prog[t].pending /\ prog'[t].req = prog[t].req
  <2> place \in Places
    BY DEF Places
  <2> prog' = [prog EXCEPT ![t].at = place, ![t].n = lsn]
    BY <1>4
  <2> QED
    BY ProgMove
<1> LogTypes' /\ Others(t) /\ ValuesBehindFile'
  <2> /\ latch' \in Thread \cup {NoThread}
      /\ \A u \in Thread \ {t} : latch' = u <=> latch = u
    BY LogSysAssumption
  <2> /\ ValuesBehindFile' /\ synced' \subseteq 1..write_lsn'
      /\ log_write_through' \in BOOLEAN
    BY DEF LogTypes, ValuesBehindFile
  <2> QED
    BY LogGrows
<1> WritePlace(t)' /\ FlushPlace(t)' /\ JobOK(t)'
  BY DEF WritePlace, FlushPlace, JobOK, HasFlushLock, InWriteCall, WithWriteLock,
      Writing, Flushing
<1> CallOK(t)'
  BY DEF CallOK
<1> ProgressOK(t)'
  <2> Need(t)' = Need(t) /\ (latch' = t <=> HasLatch(t)')
    BY LogSysAssumption DEF Need, HasLatch
  <2> QED
    BY <1>5 DEF ProgressOK
<1> AnswerOK(t)'
  BY AnswerKept
<1> QED
  BY StepKeepsInv DEF ThreadOK

\* The owner of write_lock writes to the file.
LEMMA WriteIOInv ==
  ASSUME LogInv, NEW t \in Thread, WriteIO(t)
  PROVE  LogInv' /\ Others(t)
<1> /\ LogTypes /\ WriteOK /\ FlushOK /\ ValuesBehindFile
    /\ WritePlace(t) /\ FlushPlace(t) /\ JobOK(t) /\ CallOK(t)
    /\ ProgressOK(t) /\ AnswerOK(t)
  BY Zenon DEF LogInv, ThreadOK
<1> /\ prog[t].at = "io" /\ Goto(t, "writeRelease")
    /\ UNCHANGED <<wVars, fVars, waiter>>
    /\ UNCHANGED <<lsn, flushed_to_disk_lsn, latch, log_write_through>>
    /\ write_lsn' = prog[t].n
    /\ synced' = synced \cup
         IF log_write_through THEN (write_lsn + 1)..prog[t].n ELSE {}
  BY Zenon DEF WriteIO, At
<1> /\ WriteOK' /\ FlushOK'
    /\ UNCHANGED <<w_value, w_callbacks, w_call, f_value, f_callbacks, f_call>>
  BY LocksSame, Zenon
<1> /\ prog' \in [Thread -> Program]
    /\ \A u \in Thread \ {t} : prog'[u] = prog[u]
    /\ prog'[t].at = "writeRelease" /\ prog'[t].job = prog[t].job
    /\ prog'[t].lsn = prog[t].lsn /\ prog'[t].durable = prog[t].durable
    /\ prog'[t].cb = prog[t].cb /\ prog'[t].n = prog[t].n
    /\ prog'[t].pending = prog[t].pending /\ prog'[t].req = prog[t].req
  BY ProgGoto, Zenon DEF Places
<1> /\ write_lsn < prog[t].n /\ prog[t].n <= lsn /\ Need(t) <= prog[t].n
    /\ w_call[t].pc = "ACQUIRED"
  BY Zenon DEF ProgressOK, WritePlace, WithWriteLock
<1> USE Zenon
<1> /\ synced' \subseteq 1..prog[t].n
    /\ write_lsn <= prog[t].n /\ w_value <= prog[t].n
  BY SyncedGrows
<1> prog[t].n \in Nat /\ prog[t].n <= prog[t].n
  BY Numbers, Reflexive
<1> ValuesBehindFile'
  BY DEF ValuesBehindFile
<1> LogTypes' /\ Others(t)
  <2> latch' \in Thread \cup {NoThread} /\ log_write_through' \in BOOLEAN
    BY DEF LogTypes
  <2> QED
    BY LogGrows
<1> WritePlace(t)' /\ FlushPlace(t)' /\ JobOK(t)'
  BY DEF WritePlace, FlushPlace, JobOK, HasFlushLock, InWriteCall, WithWriteLock,
      Writing, Flushing
<1> CallOK(t)'
  BY DEF CallOK
<1> ProgressOK(t)'
  <2> Need(t)' = Need(t) /\ (HasLatch(t)' <=> HasLatch(t))
    BY DEF Need, HasLatch
  <2> /\ HasLatch(t) /\ prog[t].job = "write_and_flush" => prog[t].n = lsn
      /\ latch = t <=> HasLatch(t)
    BY DEF ProgressOK
  <2> QED
    BY DEF ProgressOK
<1> AnswerOK(t)'
  BY AnswerGrows
<1> QED
  BY StepKeepsInv DEF ThreadOK

\* log_t::set_write_through() between the two pairs of calls.
LEMMA ReopenInv ==
  ASSUME LogInv, NEW t \in Thread, Reopen(t)
  PROVE  LogInv' /\ Others(t)
<1> /\ LogTypes /\ WriteOK /\ FlushOK /\ ValuesBehindFile
    /\ WritePlace(t) /\ FlushPlace(t) /\ JobOK(t) /\ CallOK(t)
    /\ ProgressOK(t) /\ AnswerOK(t)
  BY Zenon DEF LogInv, ThreadOK
<1> /\ prog[t].at = "reopen" /\ latch' = NoThread /\ log_write_through' \in BOOLEAN
    /\ UNCHANGED <<wVars, fVars, waiter>>
    /\ UNCHANGED <<lsn, write_lsn, flushed_to_disk_lsn, synced>>
    /\ prog' = [prog EXCEPT ![t].at = "writeRelease", ![t].n = w_value]
  BY Zenon DEF Reopen, At
<1> /\ WriteOK' /\ FlushOK'
    /\ UNCHANGED <<w_value, w_callbacks, w_call, f_value, f_callbacks, f_call>>
  BY LocksSame, Zenon
<1> /\ prog' \in [Thread -> Program]
    /\ \A u \in Thread \ {t} : prog'[u] = prog[u]
    /\ prog'[t].at = "writeRelease" /\ prog'[t].job = prog[t].job
    /\ prog'[t].lsn = prog[t].lsn /\ prog'[t].durable = prog[t].durable
    /\ prog'[t].cb = prog[t].cb /\ prog'[t].n = w_value
    /\ prog'[t].pending = prog[t].pending /\ prog'[t].req = prog[t].req
  <2> "writeRelease" \in Places /\ w_value \in 0..MaxLsn
    BY Numbers DEF Places, ValuesBehindFile
  <2> QED
    BY ProgMove, Zenon
<1> USE Zenon
<1> latch = t /\ prog[t].job = "resize" /\ prog[t].lsn = 0
  BY DEF ProgressOK, HasLatch, JobOK
<1> w_value <= w_value /\ 0 <= w_value
  <2> w_value \in Nat /\ 0 <= w_value
    BY Numbers
  <2> QED
    BY Reflexive
<1> LogTypes' /\ Others(t) /\ ValuesBehindFile'
  <2> ValuesBehindFile' /\ synced' \subseteq 1..write_lsn'
    BY DEF ValuesBehindFile, LogTypes
  <2> /\ latch' \in Thread \cup {NoThread}
      /\ \A u \in Thread \ {t} : latch' = u <=> latch = u
    BY LogSysAssumption
  <2> QED
    BY LogGrows
<1> WritePlace(t)' /\ FlushPlace(t)' /\ JobOK(t)'
  BY DEF WritePlace, FlushPlace, JobOK, HasFlushLock, InWriteCall, WithWriteLock,
      Writing, Flushing
<1> CallOK(t)'
  BY DEF CallOK
<1> ProgressOK(t)'
  <2> latch' # t /\ ~HasLatch(t)' /\ Need(t)' = 0
    BY LogSysAssumption DEF HasLatch, Need
  <2> QED
    BY DEF ProgressOK, ValuesBehindFile
<1> AnswerOK(t)'
  BY AnswerKept
<1> QED
  BY StepKeepsInv DEF ThreadOK

\* log_flush(): the number is chosen ...
LEMMA FlushInv ==
  ASSUME LogInv, NEW t \in Thread, LocksDo(t), Flush(t)
  PROVE  LogInv' /\ Others(t)
<1> /\ LogTypes /\ WriteOK /\ FlushOK /\ ValuesBehindFile
    /\ WritePlace(t) /\ FlushPlace(t) /\ JobOK(t) /\ CallOK(t)
    /\ ProgressOK(t) /\ AnswerOK(t)
  BY Zenon DEF LogInv, ThreadOK
<1> DEFINE n == IF prog[t].job = "write_up_to" THEN w_value ELSE prog[t].n
<1> /\ prog[t].at = "flush" /\ flush_lock!set_pending(n) /\ UNCHANGED wVars
    /\ UNCHANGED <<lsn, write_lsn, flushed_to_disk_lsn, latch, log_write_through, synced>>
    /\ prog' = [prog EXCEPT ![t].at = "fsync", ![t].n = n]
  BY Zenon DEF Flush, At, logVars
<1> /\ flushed_to_disk_lsn <= n /\ n <= w_value /\ Need(t) <= n
    /\ n \in Nat /\ Need(t) \in Nat
    /\ prog[t].job = "write_and_flush" => n = prog[t].n
  <2> prog[t].job \in Jobs /\ prog[t].job # "resize"
    BY DEF LogTypes, Program, JobOK
  <2>2. CASE prog[t].job = "write_up_to"
    BY <2>2, Numbers DEF ProgressOK, ValuesBehindFile, Need
  <2>3. CASE prog[t].job = "write_and_flush"
    BY <2>3, Numbers DEF ProgressOK, Need, HasLatch, CallOK
  <2> QED
    BY <2>2, <2>3, Zenon DEF Jobs
<1> HIDE DEF n
<1> FlushOK' /\ waiter' = waiter /\ UNCHANGED <<f_value, f_callbacks, f_call>>
  BY Zenon DEF LocksDo, FlushDoes, FlushPending
<1> WriteOK' /\ UNCHANGED <<w_value, w_callbacks, w_call>>
  BY WriteLockSame, Zenon DEF wVars
<1> /\ prog' \in [Thread -> Program]
    /\ \A u \in Thread \ {t} : prog'[u] = prog[u]
    /\ prog'[t].at = "fsync" /\ prog'[t].job = prog[t].job
    /\ prog'[t].lsn = prog[t].lsn /\ prog'[t].durable = prog[t].durable
    /\ prog'[t].cb = prog[t].cb /\ prog'[t].n = n
    /\ prog'[t].pending = prog[t].pending /\ prog'[t].req = prog[t].req
  <2> "fsync" \in Places /\ n \in 0..MaxLsn
    BY Numbers DEF Places, ValuesBehindFile
  <2> QED
    BY ProgMove, Zenon
<1> LogTypes' /\ Others(t) /\ ValuesBehindFile'
  BY LogUntouched, Zenon
<1> WritePlace(t)' /\ FlushPlace(t)' /\ JobOK(t)'
  BY Zenon DEF WritePlace, FlushPlace, JobOK, HasFlushLock, InWriteCall, WithWriteLock,
      Writing, Flushing
<1> CallOK(t)'
  BY Zenon DEF CallOK
<1> ProgressOK(t)'
  <2> Need(t)' = Need(t) /\ (HasLatch(t)' <=> HasLatch(t))
    BY Zenon DEF Need, HasLatch
  <2> /\ latch = t <=> HasLatch(t)
      /\ HasLatch(t) /\ prog[t].job = "write_and_flush" => prog[t].n = lsn
    BY Zenon DEF ProgressOK
  <2> QED
    BY Zenon DEF ProgressOK
<1> AnswerOK(t)'
  BY AnswerKept, Zenon
<1> QED
  BY StepKeepsInv, Zenon DEF ThreadOK

\* ... and the file is synced.
LEMMA FsyncInv ==
  ASSUME LogInv, NEW t \in Thread, Fsync(t)
  PROVE  LogInv' /\ Others(t)
<1> /\ LogTypes /\ WriteOK /\ FlushOK /\ ValuesBehindFile
    /\ WritePlace(t) /\ FlushPlace(t) /\ JobOK(t) /\ CallOK(t)
    /\ ProgressOK(t) /\ AnswerOK(t)
  BY Zenon DEF LogInv, ThreadOK
<1> /\ prog[t].at = "fsync" /\ Goto(t, "flushRelease")
    /\ UNCHANGED <<wVars, fVars, waiter>>
    /\ UNCHANGED <<lsn, write_lsn, latch, log_write_through>>
    /\ flushed_to_disk_lsn' = prog[t].n
    /\ synced' = IF log_write_through THEN synced ELSE 1..write_lsn
  BY Zenon DEF Fsync, At
<1> /\ WriteOK' /\ FlushOK'
    /\ UNCHANGED <<w_value, w_callbacks, w_call, f_value, f_callbacks, f_call>>
  BY LocksSame, Zenon
<1> /\ prog' \in [Thread -> Program]
    /\ \A u \in Thread \ {t} : prog'[u] = prog[u]
    /\ prog'[t].at = "flushRelease" /\ prog'[t].job = prog[t].job
    /\ prog'[t].lsn = prog[t].lsn /\ prog'[t].durable = prog[t].durable
    /\ prog'[t].cb = prog[t].cb /\ prog'[t].n = prog[t].n
    /\ prog'[t].pending = prog[t].pending /\ prog'[t].req = prog[t].req
  BY ProgGoto, Zenon DEF Places
<1> /\ flushed_to_disk_lsn <= prog[t].n /\ prog[t].n <= w_value
    /\ Need(t) <= prog[t].n /\ f_call[t].pc = "ACQUIRED" /\ prog[t].durable
  BY Zenon DEF ProgressOK, FlushPlace, HasFlushLock, Flushing, JobOK
<1> USE Zenon
<1> /\ flushed_to_disk_lsn \in Nat /\ prog[t].n \in Nat /\ f_value \in Nat
    /\ f_value <= flushed_to_disk_lsn /\ prog[t].n <= prog[t].n
  BY Numbers, Reflexive DEF ValuesBehindFile
<1> f_value <= prog[t].n
  BY Transitive
<1> ValuesBehindFile'
  BY DEF ValuesBehindFile
<1> LogTypes' /\ Others(t)
  <2> synced' \subseteq 1..write_lsn'
    BY DEF LogTypes
  <2> latch' \in Thread \cup {NoThread} /\ log_write_through' \in BOOLEAN
    BY DEF LogTypes
  <2> QED
    BY LogGrows
<1> WritePlace(t)' /\ FlushPlace(t)' /\ JobOK(t)'
  BY DEF WritePlace, FlushPlace, JobOK, HasFlushLock, InWriteCall, WithWriteLock,
      Writing, Flushing
<1> CallOK(t)'
  BY DEF CallOK
<1> ProgressOK(t)'
  <2> Need(t)' = Need(t) /\ (HasLatch(t)' <=> HasLatch(t))
    BY DEF Need, HasLatch
  <2> /\ latch = t <=> HasLatch(t)
      /\ HasLatch(t) /\ prog[t].job = "write_and_flush" => prog[t].n = lsn
    BY DEF ProgressOK
  <2> QED
    BY DEF ProgressOK
<1> AnswerOK(t)'
  BY AnswerGrows
<1> QED
  BY StepKeepsInv DEF ThreadOK

(* A number of the bounded range is a natural number. *)
LEMMA RangeNat ==
  ASSUME NEW a \in 0..MaxLsn
  PROVE  a \in Nat /\ a <= MaxLsn
  BY LockConstants

\* The queued callbacks wait for LSNs that exist.
LEMMA CallbackNumbers ==
  ASSUME LogInv
  PROVE  /\ \A c \in w_callbacks : c.num <= lsn /\ ~(c.num > lsn)
         /\ \A c \in f_callbacks : c.num <= lsn /\ ~(c.num > lsn)
<1> /\ \A c \in w_callbacks : c.num \in Nat /\ c.num <= lsn
    /\ \A c \in f_callbacks : c.num \in Nat /\ c.num <= lsn
  BY Zenon
  DEF LogInv, LogTypes, WriteOK, WriteTypes, FlushOK, FlushTypes,
      write_lock!PendingCb, flush_lock!PendingCb
<1> lsn \in Nat
  BY LockConstants DEF LogInv, LogTypes
<1> QED
  OBVIOUS

\* write_lock.release(): no callback is left over whose number is beyond the
\* LSN, so that log_write_and_flush(), which publishes the LSN, gets zero.
LEMMA WriteReleaseInv ==
  ASSUME LogInv, NEW t \in Thread, LocksDo(t), WriteRelease(t)
  PROVE  LogInv' /\ Others(t)
<1> /\ LogTypes /\ WriteOK /\ FlushOK /\ ValuesBehindFile
    /\ WritePlace(t) /\ FlushPlace(t) /\ JobOK(t) /\ CallOK(t)
    /\ ProgressOK(t) /\ AnswerOK(t)
  BY Zenon DEF LogInv, ThreadOK
<1> /\ prog[t].at = "writeRelease" /\ write_lock!Release(t, prog[t].n)
    /\ Goto(t, "writeReleasing") /\ UNCHANGED fVars
    /\ UNCHANGED <<lsn, write_lsn, flushed_to_disk_lsn, latch, log_write_through, synced>>
  BY Zenon DEF WriteRelease, At, logVars
<1> /\ w_call[t].pc = "ACQUIRED" /\ w_value <= prog[t].n
    /\ prog[t].n <= write_lsn
    /\ Need(t) <= prog[t].n
    /\ prog[t].job = "write_and_flush" => prog[t].n = lsn
  BY Zenon DEF WritePlace, WithWriteLock, ProgressOK, HasLatch
<1> prog[t].n \in Nat /\ prog[t].n <= MaxLsn /\ prog[t].n <= prog[t].n
  <2> prog[t].n \in 0..MaxLsn
    BY Zenon DEF LogTypes, Program
  <2> QED
    BY RangeNat, Reflexive, Zenon
<1> USE Zenon
<1> /\ WriteOK'
    /\ \A u \in Thread \ {t} : w_call'[u] = w_call[u]
    /\ w_call'[t].pc = "leader" /\ w_call'[t].cb = NoCallback
    /\ \/ w_call'[t].ret = 0
       \/ \E c \in w_callbacks : c.num > prog[t].n /\ w_call'[t].ret = c.num
    /\ w_value' = prog[t].n /\ \A c \in w_callbacks' : c \in w_callbacks
  BY DEF LocksDo, WriteDoes, WriteLeader
<1> FlushOK' /\ UNCHANGED <<f_value, f_callbacks, f_call>>
  BY FlushLockSame DEF fVars
<1> /\ prog' \in [Thread -> Program]
    /\ \A u \in Thread \ {t} : prog'[u] = prog[u]
    /\ prog'[t].at = "writeReleasing" /\ prog'[t].job = prog[t].job
    /\ prog'[t].lsn = prog[t].lsn /\ prog'[t].durable = prog[t].durable
    /\ prog'[t].cb = prog[t].cb /\ prog'[t].n = prog[t].n
    /\ prog'[t].pending = prog[t].pending /\ prog'[t].req = prog[t].req
  BY ProgGoto DEF Places
<1> /\ w_call'[t].ret <= lsn
    /\ prog[t].job = "write_and_flush" => w_call'[t].ret = 0
  <2> /\ \A c \in w_callbacks : c.num <= lsn /\ ~(c.num > lsn)
      /\ 0 <= lsn
    BY CallbackNumbers, Numbers
  <2> QED
    OBVIOUS
<1> LogTypes' /\ Others(t) /\ ValuesBehindFile'
  <2> /\ latch' \in Thread \cup {NoThread} /\ log_write_through' \in BOOLEAN
      /\ synced' \subseteq 1..write_lsn'
    BY DEF LogTypes
  <2> ValuesBehindFile'
    <3> /\ flushed_to_disk_lsn \in Nat /\ w_value \in Nat
        /\ flushed_to_disk_lsn <= w_value
      BY Numbers DEF ValuesBehindFile
    <3> flushed_to_disk_lsn <= prog[t].n
      BY Transitive
    <3> QED
      BY DEF ValuesBehindFile
  <2> QED
    BY LogGrows
<1> WritePlace(t)' /\ FlushPlace(t)' /\ JobOK(t)'
  BY DEF WritePlace, FlushPlace, JobOK, HasFlushLock, InWriteCall, WithWriteLock,
      Writing, Flushing, write_lock!InRelease
<1> CallOK(t)'
  BY DEF CallOK, write_lock!InRelease
<1> ProgressOK(t)'
  <2> Need(t)' = Need(t) /\ (HasLatch(t)' <=> HasLatch(t))
    BY DEF Need, HasLatch
  <2> latch = t <=> HasLatch(t)
    BY DEF ProgressOK
  <2> QED
    BY DEF ProgressOK, ValuesBehindFile
<1> AnswerOK(t)'
  BY AnswerGrows
<1> QED
  BY StepKeepsInv DEF ThreadOK

(* Releasing flush_lock keeps the invariant. *)
LEMMA FlushReleaseInv ==
  ASSUME LogInv, NEW t \in Thread, LocksDo(t), FlushRelease(t)
  PROVE  LogInv' /\ Others(t)
<1> /\ LogTypes /\ WriteOK /\ FlushOK /\ ValuesBehindFile
    /\ WritePlace(t) /\ FlushPlace(t) /\ JobOK(t) /\ CallOK(t)
    /\ ProgressOK(t) /\ AnswerOK(t)
  BY Zenon DEF LogInv, ThreadOK
<1> /\ prog[t].at = "flushRelease" /\ flush_lock!Release(t, prog[t].n)
    /\ Goto(t, "flushReleasing") /\ UNCHANGED wVars
    /\ UNCHANGED <<lsn, write_lsn, flushed_to_disk_lsn, latch, log_write_through, synced>>
  BY Zenon DEF FlushRelease, At, logVars
<1> /\ f_call[t].pc = "ACQUIRED" /\ f_value <= prog[t].n
    /\ prog[t].n <= flushed_to_disk_lsn
    /\ Need(t) <= prog[t].n
    /\ prog[t].job = "write_and_flush" => prog[t].n = lsn
  BY Zenon DEF FlushPlace, HasFlushLock, Flushing, ProgressOK, HasLatch
<1> prog[t].n \in Nat /\ prog[t].n <= MaxLsn /\ prog[t].n <= prog[t].n
  <2> prog[t].n \in 0..MaxLsn
    BY Zenon DEF LogTypes, Program
  <2> QED
    BY RangeNat, Reflexive, Zenon
<1> USE Zenon
<1> /\ FlushOK'
    /\ \A u \in Thread \ {t} : f_call'[u] = f_call[u]
    /\ f_call'[t].pc = "leader" /\ f_call'[t].cb = NoCallback
    /\ \/ f_call'[t].ret = 0
       \/ \E c \in f_callbacks : c.num > prog[t].n /\ f_call'[t].ret = c.num
    /\ f_value' = prog[t].n /\ \A c \in f_callbacks' : c \in f_callbacks
  BY DEF LocksDo, FlushDoes, FlushLeader
<1> WriteOK' /\ UNCHANGED <<w_value, w_callbacks, w_call>>
  BY WriteLockSame DEF wVars
<1> /\ prog' \in [Thread -> Program]
    /\ \A u \in Thread \ {t} : prog'[u] = prog[u]
    /\ prog'[t].at = "flushReleasing" /\ prog'[t].job = prog[t].job
    /\ prog'[t].lsn = prog[t].lsn /\ prog'[t].durable = prog[t].durable
    /\ prog'[t].cb = prog[t].cb /\ prog'[t].n = prog[t].n
    /\ prog'[t].pending = prog[t].pending /\ prog'[t].req = prog[t].req
  BY ProgGoto DEF Places
<1> /\ f_call'[t].ret <= lsn
    /\ prog[t].job = "write_and_flush" => f_call'[t].ret = 0
  <2> /\ \A c \in f_callbacks : c.num <= lsn /\ ~(c.num > lsn)
      /\ 0 <= lsn
    BY CallbackNumbers, Numbers
  <2> QED
    OBVIOUS
<1> LogTypes' /\ Others(t) /\ ValuesBehindFile'
  <2> /\ latch' \in Thread \cup {NoThread} /\ log_write_through' \in BOOLEAN
      /\ synced' \subseteq 1..write_lsn'
    BY DEF LogTypes
  <2> ValuesBehindFile'
    BY DEF ValuesBehindFile
  <2> QED
    BY LogGrows
<1> WritePlace(t)' /\ FlushPlace(t)' /\ JobOK(t)'
  BY DEF WritePlace, FlushPlace, JobOK, HasFlushLock, InWriteCall, WithWriteLock,
      Writing, Flushing, flush_lock!InRelease
<1> CallOK(t)'
  BY DEF CallOK, flush_lock!InRelease
<1> ProgressOK(t)'
  <2> Need(t)' = Need(t) /\ (HasLatch(t)' <=> HasLatch(t))
    BY DEF Need, HasLatch
  <2> latch = t <=> HasLatch(t)
    BY DEF ProgressOK
  <2> QED
    BY DEF ProgressOK, ValuesBehindFile
<1> AnswerOK(t)'
  BY AnswerGrows
<1> QED
  BY StepKeepsInv DEF ThreadOK

(* What the program of a thread becomes when it releases a lock. *)
LEMMA ProgReleased ==
  ASSUME LogTypes, NEW t \in Thread, NEW place \in Places,
         NEW pending \in 0..MaxLsn, NEW n \in 0..MaxLsn,
         prog' = [prog EXCEPT ![t] =
                    [prog[t] EXCEPT !.at = place, !.pending = pending, !.n = n]]
  PROVE  /\ prog' \in [Thread -> Program]
         /\ \A u \in Thread \ {t} : prog'[u] = prog[u]
         /\ prog'[t].at = place /\ prog'[t].job = prog[t].job
         /\ prog'[t].lsn = prog[t].lsn /\ prog'[t].durable = prog[t].durable
         /\ prog'[t].cb = prog[t].cb /\ prog'[t].n = n
         /\ prog'[t].pending = pending /\ prog'[t].req = prog[t].req
<1> DEFINE p == [prog[t] EXCEPT !.at = place, !.pending = pending, !.n = n]
<1> prog' = [prog EXCEPT ![t] = p] /\ prog[t] \in Program
  BY DEF LogTypes
<1> p \in Program
  BY Zenon DEF Program
<1> /\ p.at = place /\ p.job = prog[t].job /\ p.lsn = prog[t].lsn
    /\ p.durable = prog[t].durable /\ p.cb = prog[t].cb /\ p.n = n
    /\ p.pending = pending /\ p.req = prog[t].req
  BY DEF Program
<1> HIDE DEF p
<1> QED
  BY ProgSet, Zenon

\* write_lock.release() has returned.
LEMMA WriteReleasedInv ==
  ASSUME LogInv, NEW t \in Thread, LocksDo(t), WriteReleased(t)
  PROVE  LogInv' /\ Others(t)
<1> /\ LogTypes /\ WriteOK /\ FlushOK /\ ValuesBehindFile
    /\ WritePlace(t) /\ FlushPlace(t) /\ JobOK(t) /\ CallOK(t)
    /\ ProgressOK(t) /\ AnswerOK(t)
  BY Zenon DEF LogInv, ThreadOK
<1> DEFINE n == IF prog[t].job = "resize" THEN f_value ELSE prog[t].n
           place == AfterWrite(t)
<1> /\ prog[t].at = "writeReleasing" /\ w_call[t].pc = "released" /\ LeaveW(t)
    /\ UNCHANGED <<wLockVars, waiter>> /\ UNCHANGED fVars
    /\ UNCHANGED <<lsn, write_lsn, flushed_to_disk_lsn, latch, log_write_through, synced>>
  BY Zenon DEF WriteReleased, At, logVars
<1> prog' = [prog EXCEPT ![t] =
               [prog[t] EXCEPT !.at = place, !.pending = w_call[t].ret, !.n = n]]
  BY Zenon DEF WriteReleased, LogTypes
<1> /\ WriteOK'
    /\ \A u \in Thread \ {t} : w_call'[u] = w_call[u]
    /\ w_call'[t].pc = "idle" /\ w_call'[t].cb = NoCallback
    /\ w_call'[t].ret = 0 /\ UNCHANGED <<w_value, w_callbacks>>
  <2> USE Zenon
  <2> w_call[t].pc # "ACQUIRED"
    OBVIOUS
  <2> QED
    BY DEF LocksDo, WriteDoes, WriteIdle, wLockVars
<1> FlushOK' /\ UNCHANGED <<f_value, f_callbacks, f_call>>
  BY FlushLockSame, Zenon DEF fVars
<1> /\ place \in {"flushRelease", "flush", "done", "end"}
    /\ place = "flushRelease" <=> prog[t].job = "resize"
    /\ place = "flush" <=> prog[t].durable /\ prog[t].job # "resize"
  <2> prog[t].job = "resize" => ~prog[t].durable
    BY DEF JobOK
  <2>2. CASE prog[t].job = "resize"
    BY <2>2 DEF AfterWrite
  <2>3. CASE prog[t].job # "resize" /\ prog[t].durable
    BY <2>3 DEF AfterWrite
  <2>4. CASE prog[t].job # "resize" /\ ~prog[t].durable
    BY <2>4 DEF AfterWrite, EndPlace
  <2> QED
    BY <2>2, <2>3, <2>4, Zenon
<1>6. /\ n \in 0..MaxLsn /\ w_call[t].ret \in 0..MaxLsn
      /\ prog[t].job = "resize" => n = f_value
      /\ prog[t].job # "resize" => n = prog[t].n
  <2> prog[t].n \in 0..MaxLsn
    BY DEF LogTypes, Program
  <2> w_call[t].ret <= lsn
    BY DEF CallOK
  <2> QED
    BY Numbers DEF ValuesBehindFile
<1> HIDE DEF n, place
<1> /\ prog' \in [Thread -> Program]
    /\ \A u \in Thread \ {t} : prog'[u] = prog[u]
    /\ prog'[t].at = place /\ prog'[t].job = prog[t].job
    /\ prog'[t].lsn = prog[t].lsn /\ prog'[t].durable = prog[t].durable
    /\ prog'[t].cb = prog[t].cb /\ prog'[t].n = n
    /\ prog'[t].pending = w_call[t].ret /\ prog'[t].req = prog[t].req
  <2> place \in Places
    BY DEF Places
  <2> QED
    BY <1>6, ProgReleased, Zenon
<1> LogTypes' /\ Others(t) /\ ValuesBehindFile'
  BY LogUntouched, Zenon
<1> prog[t].job \in Jobs
  BY DEF LogTypes, Program
<1> WritePlace(t)' /\ FlushPlace(t)' /\ JobOK(t)'
  BY Zenon
  DEF WritePlace, FlushPlace, JobOK, HasFlushLock, InWriteCall, WithWriteLock,
      Writing, Flushing, Jobs
<1> CallOK(t)'
  <2> prog'[t].at # "flushAcquire" /\ prog'[t].at # "writeAcquire"
    OBVIOUS
  <2> QED
    BY Numbers DEF CallOK
<1> ProgressOK(t)'
  <2> Need(t)' = Need(t) /\ Need(t) <= w_value
    BY Zenon DEF Need, ProgressOK
  <2> /\ prog[t].job = "resize" => Need(t) <= f_value
      /\ f_value <= f_value
    <3> f_value \in Nat /\ 0 <= f_value
      BY Numbers
    <3> QED
      BY Reflexive, Zenon DEF Need, JobOK
  <2> HasLatch(t)' <=> HasLatch(t)
    BY Zenon DEF HasLatch, JobOK
  <2> /\ latch = t <=> HasLatch(t)
      /\ prog[t].job = "write_and_flush" =>
           flushed_to_disk_lsn <= prog[t].n /\ prog[t].n <= w_value
      /\ prog[t].job = "write_and_flush" /\ HasLatch(t) => prog[t].n = lsn
    BY Zenon DEF ProgressOK
  <2> prog'[t].at \in {"flushRelease", "flush", "done", "end"}
    OBVIOUS
  <2> QED
    BY <1>6, Numbers
    DEF ProgressOK, ValuesBehindFile
<1> AnswerOK(t)'
  <2> Need(t)' = Need(t) /\ Need(t) <= w_value /\ Need(t) \in Nat
    BY Numbers, Zenon DEF Need, ProgressOK
  <2> prog[t].req \in Nat /\ w_value \in Nat
    BY Numbers, Zenon
  <2> Settled(t) \/ (prog[t].req <= Need(t) /\ prog[t].cb = NoCallback)
    BY Zenon DEF AnswerOK
  <2> Settled(t)' <=> Settled(t)
    BY Zenon DEF Settled
  <2> ~prog[t].durable => Settled(t)
    BY Transitive, Zenon DEF Settled
  <2> prog'[t].at \in {"end", "done"} => ~prog[t].durable
    BY Zenon DEF JobOK
  <2> QED
    BY DEF AnswerOK
<1> QED
  BY StepKeepsInv, Zenon DEF ThreadOK

\* flush_lock.release() has returned, and log_write_and_flush() gives up the latch.
LEMMA FlushReleasedInv ==
  ASSUME LogInv, NEW t \in Thread, LocksDo(t), FlushReleased(t)
  PROVE  LogInv' /\ Others(t)
<1> /\ LogTypes /\ WriteOK /\ FlushOK /\ ValuesBehindFile
    /\ WritePlace(t) /\ FlushPlace(t) /\ JobOK(t) /\ CallOK(t)
    /\ ProgressOK(t) /\ AnswerOK(t)
  BY Zenon DEF LogInv, ThreadOK
<1> DEFINE most == IF prog[t].pending > f_call[t].ret
                   THEN prog[t].pending ELSE f_call[t].ret
           waf == prog[t].job = "write_and_flush"
           pending == IF waf THEN prog[t].pending ELSE most
           place == IF waf THEN "done" ELSE EndPlace(most)
<1> /\ prog[t].at = "flushReleasing" /\ f_call[t].pc = "released" /\ LeaveF(t)
    /\ UNCHANGED <<fLockVars, waiter>> /\ UNCHANGED wVars
    /\ UNCHANGED <<lsn, write_lsn, flushed_to_disk_lsn, log_write_through, synced>>
    /\ latch' = IF waf THEN NoThread ELSE latch
  BY DEF FlushReleased, At
<1> prog' = [prog EXCEPT ![t] =
               [prog[t] EXCEPT !.at = place, !.pending = pending, !.n = prog[t].n]]
  <2> prog \in [Thread -> Program] /\ prog[t] \in Program
    BY DEF LogTypes
  <2>2. CASE waf
    BY <2>2, Zenon DEF FlushReleased, Goto, Program
  <2>3. CASE ~waf
    <3> prog' = [prog EXCEPT ![t].at = place, ![t].pending = pending]
      BY <2>3, Zenon DEF FlushReleased
    <3> QED
      BY Zenon DEF Program
  <2> QED
    BY <2>2, <2>3
<1> /\ FlushOK'
    /\ \A u \in Thread \ {t} : f_call'[u] = f_call[u]
    /\ f_call'[t].pc = "idle" /\ f_call'[t].cb = NoCallback
    /\ f_call'[t].ret = 0 /\ UNCHANGED <<f_value, f_callbacks>>
  <2> f_call[t].pc # "ACQUIRED"
    OBVIOUS
  <2> QED
    BY DEF LocksDo, FlushDoes, FlushIdle, fLockVars
<1> WriteOK' /\ UNCHANGED <<w_value, w_callbacks, w_call>>
  BY WriteLockSame DEF wVars
<1> place \in {"done", "end"} /\ (place = "end" => ~waf)
  BY DEF EndPlace
<1> pending \in 0..MaxLsn /\ pending <= lsn /\ prog[t].n \in 0..MaxLsn
  <2> prog[t].n \in 0..MaxLsn
    BY DEF LogTypes, Program
  <2> QED
    BY Numbers DEF CallOK
<1> waf <=> HasLatch(t)
  BY DEF HasLatch
<1> waf <=> prog[t].job = "write_and_flush"
  OBVIOUS
<1> HIDE DEF pending, place, waf
<1> /\ prog' \in [Thread -> Program]
    /\ \A u \in Thread \ {t} : prog'[u] = prog[u]
    /\ prog'[t].at = place /\ prog'[t].job = prog[t].job
    /\ prog'[t].lsn = prog[t].lsn /\ prog'[t].durable = prog[t].durable
    /\ prog'[t].cb = prog[t].cb /\ prog'[t].n = prog[t].n
    /\ prog'[t].pending = pending /\ prog'[t].req = prog[t].req
  <2> place \in Places
    BY DEF Places
  <2> QED
    BY ProgReleased, Zenon
<1> latch = t <=> waf
  BY Zenon DEF ProgressOK
<1> LogTypes' /\ Others(t) /\ ValuesBehindFile'
  BY Numbers, LogSysAssumption
  DEF LogTypes, Others, ValuesBehindFile
<1> prog'[t].at \in {"done", "end"} /\ (prog'[t].at = "end" => ~waf)
  OBVIOUS
<1> WritePlace(t)' /\ FlushPlace(t)' /\ JobOK(t)'
  BY DEF WritePlace, FlushPlace, JobOK, HasFlushLock, InWriteCall, WithWriteLock,
      Writing, Flushing
<1> CallOK(t)'
  <2> prog'[t].at # "flushAcquire" /\ prog'[t].at # "writeAcquire"
    OBVIOUS
  <2> QED
    BY Numbers DEF CallOK
<1> ProgressOK(t)'
  <2> latch' # t /\ ~HasLatch(t)'
    BY LogSysAssumption DEF HasLatch
  <2> QED
    BY DEF ProgressOK
<1> AnswerOK(t)'
  <2> Need(t)' = Need(t) /\ Need(t) <= f_value /\ Need(t) \in Nat
    BY Numbers DEF Need, ProgressOK
  <2> Settled(t)
    BY Numbers DEF AnswerOK, Settled, JobOK, ValuesBehindFile
  <2> Settled(t)'
    BY DEF Settled
  <2> QED
    BY DEF AnswerOK
<1> QED
  BY StepKeepsInv, Zenon DEF ThreadOK

-----------------------------------------------------------------------------
(* All behaviours *)

(* A step that changes nothing keeps the invariant. *)
LEMMA StutterInv ==
  ASSUME LogInv, UNCHANGED vars
  PROVE  LogInv'
<1> /\ UNCHANGED <<wVars, fVars, waiter>> /\ prog' = prog
    /\ UNCHANGED <<lsn, write_lsn, flushed_to_disk_lsn, latch, log_write_through, synced>>
  BY DEF vars, logVars
<1> /\ LogTypes /\ WriteOK /\ FlushOK /\ ValuesBehindFile
    /\ \A t \in Thread : ThreadOK(t)
  BY DEF LogInv
<1> /\ WriteOK' /\ FlushOK'
    /\ UNCHANGED <<w_value, w_callbacks, w_call, f_value, f_callbacks, f_call>>
  BY LocksSame, Zenon
<1> LogTypes' /\ ValuesBehindFile'
  BY DEF LogTypes, ValuesBehindFile
<1> USE Zenon
<1>5. ASSUME NEW t \in Thread
      PROVE  ThreadOK(t)'
  <2> WritePlace(t)' /\ FlushPlace(t)' /\ JobOK(t)' /\ CallOK(t)'
    BY DEF ThreadOK, WritePlace, FlushPlace, JobOK, CallOK, HasFlushLock
  <2> ProgressOK(t)' /\ AnswerOK(t)'
    BY DEF ThreadOK, ProgressOK, AnswerOK, HasLatch, Settled, Need
  <2> QED
    BY DEF ThreadOK
<1> QED
  BY <1>5 DEF LogInv

(* Every step of a thread keeps the invariant, given what the locks do. *)
LEMMA ThreadStepInv ==
  ASSUME LogInv, NEW t \in Thread, LocksDo(t),
         Commit(t) \/ FlushBuffer(t) \/ Prepare(t) \/ Continue(t)
  PROVE  LogInv' /\ Others(t)
<1>1. CASE Commit(t) \/ FlushBuffer(t) \/ Prepare(t)
  BY <1>1, CommitInv, FlushBufferInv, PrepareInv, Zenon
<1>2. CASE FlushIfNeeded(t) \/ FlushLeft(t) \/ FlushAcquired(t) \/ WriteLeft(t)
           \/ Latch(t) \/ WriteBuf(t) \/ WriteIO(t) \/ WriteRelease(t)
  BY <1>2, FlushIfNeededInv, FlushLeftInv, FlushAcquiredInv, WriteLeftInv,
     LatchInv, WriteBufInv, WriteIOInv, WriteReleaseInv, Zenon
<1>3. CASE WriteReleased(t) \/ Flush(t) \/ Fsync(t) \/ FlushRelease(t)
           \/ FlushReleased(t) \/ End(t) \/ Done(t)
  BY <1>3, WriteReleasedInv, FlushInv, FsyncInv, FlushReleaseInv,
     FlushReleasedInv, EndInv, DoneInv, Zenon
<1> USE Zenon
<1>4. CASE PrepareFlush(t) \/ PrepareWrite(t) \/ Reopen(t) \/ LockStep(t)
  BY <1>4, PrepareFlushInv, PrepareWriteInv, ReopenInv, LockStepInv
<1> QED
  BY <1>1, <1>2, <1>3, <1>4 DEF Continue

(* Every step of the log keeps the invariant, given what the locks do. *)
LEMMA NextInv ==
  ASSUME LogInv, \A t \in Thread : LocksDo(t), [Next]_vars
  PROVE  LogInv'
<1>1. CASE \E t \in Thread : Commit(t) \/ FlushBuffer(t) \/ Prepare(t) \/ Continue(t)
  BY <1>1, ThreadStepInv, Zenon
<1> USE Zenon
<1>2. CASE UNCHANGED vars
  BY <1>2, StutterInv
<1> QED
  BY <1>1, <1>2 DEF Next, Quiescent

(* The part of the invariant that is about the log holds initially. *)
LEMMA InitRest ==
  ASSUME Init, WriteOK, FlushOK
  PROVE  LogInv
<1>3. /\ w_value = 0 /\ f_value = 0 /\ w_callbacks = {} /\ f_callbacks = {}
      /\ \A t \in Thread : /\ w_call[t].pc = "idle" /\ f_call[t].pc = "idle"
                           /\ w_call[t].cb = NoCallback /\ f_call[t].cb = NoCallback
                           /\ w_call[t].ret = 0 /\ f_call[t].ret = 0
  BY DEF Init, write_lock!Init, flush_lock!Init, write_lock!IdleFrame,
         flush_lock!IdleFrame
<1> /\ lsn = 0 /\ write_lsn = 0 /\ flushed_to_disk_lsn = 0
    /\ latch = NoThread /\ log_write_through \in BOOLEAN /\ synced = {}
    /\ prog = [t \in Thread |-> Idle]
  BY LogSysAssumption DEF Init
<1> Idle \in Program
  <2> 0 \in 0..MaxLsn
    BY LockConstants
  <2> QED
    BY Zenon DEF Idle, Program, Places, Jobs
<1> LogTypes
  <2> prog \in [Thread -> Program]
    OBVIOUS
  <2> lsn \in 0..MaxLsn
    BY LockConstants
  <2> QED
    BY <1>3 DEF LogTypes
<1> ValuesBehindFile
  BY <1>3 DEF ValuesBehindFile
<1>8. ASSUME NEW t \in Thread
      PROVE  ThreadOK(t)
  <2> /\ prog[t].at = "idle" /\ prog[t].job = "write_up_to" /\ prog[t].lsn = 0
      /\ prog[t].durable = FALSE /\ prog[t].cb = NoCallback
      /\ prog[t].pending = 0 /\ prog[t].req = 0
    BY DEF Idle
  <2> WritePlace(t) /\ FlushPlace(t) /\ JobOK(t)
    BY <1>3
    DEF WritePlace, FlushPlace, JobOK, HasFlushLock, InWriteCall, WithWriteLock,
        Writing, Flushing
  <2>1. /\ w_call[t].cb = NoCallback /\ f_call[t].cb = NoCallback
        /\ w_call[t].ret = 0 /\ f_call[t].ret = 0
    BY <1>3, Zenon
  <2>2. 0 <= lsn
    OBVIOUS
  <2>3. /\ prog[t].lsn <= lsn /\ prog[t].req <= lsn /\ prog[t].pending <= lsn
        /\ w_call[t].ret <= lsn /\ f_call[t].ret <= lsn
        /\ prog[t].at # "flushAcquire" /\ prog[t].at # "writeAcquire"
    BY <2>1, <2>2, Zenon
  <2>4. CallOK(t)
    BY <2>1, <2>3, Zenon DEF CallOK
  <2>5. latch # t /\ ~HasLatch(t)
    BY LogSysAssumption DEF HasLatch
  <2>6. ProgressOK(t)
    BY <2>5 DEF ProgressOK
  <2>7. w_value = 0 /\ prog[t].req <= w_value
    BY <1>3
  <2>8. AnswerOK(t)
    BY <2>7 DEF AnswerOK, Settled
  <2> QED
    BY <2>4, <2>6, <2>8, Zenon DEF ThreadOK
<1> QED
  BY <1>8, Zenon DEF LogInv

-----------------------------------------------------------------------------
(* What the invariant says *)

(* The invariant gives the types. *)
LEMMA InvTypes == LogInv => TypeOK
<1> SUFFICES ASSUME LogInv PROVE TypeOK
  OBVIOUS
<1> LogTypes /\ WriteTypes /\ FlushTypes /\ ValuesBehindFile
  BY DEF LogInv, WriteOK, FlushOK
<1>2. /\ w_call \in [Thread -> write_lock!Frame]
      /\ f_call \in [Thread -> flush_lock!Frame]
      /\ waiter \in [Thread -> write_lock!Waiter]
  BY Zenon DEF WriteTypes, FlushTypes
<1> w_value \in Nat /\ f_value \in Nat
  BY DEF WriteTypes, FlushTypes
<1> {lsn, write_lsn, flushed_to_disk_lsn, w_value, f_value} \subseteq 0..MaxLsn
  BY LockConstants DEF LogTypes, ValuesBehindFile
<1> synced \subseteq Lsn
  BY LockConstants DEF LogTypes, Lsn
<1> QED
  BY <1>2, Zenon DEF LogTypes, TypeOK

(* The invariant gives the assertions of the code. *)
LEMMA InvAssertions == LogInv => AssertionsHold
<1> SUFFICES ASSUME LogInv, NEW t \in Thread
             PROVE  /\ At(t, "write_buf") => lsn >= w_value /\ write_lsn >= flushed_to_disk_lsn
                    /\ At(t, "write_buf") /\ write_lsn >= lsn => write_lsn = lsn
                    /\ At(t, "writeRelease") => prog[t].n >= w_value
                    /\ At(t, "fsync") => /\ prog[t].n >= f_value
                                          /\ prog[t].n >= flushed_to_disk_lsn
                    /\ At(t, "flushRelease") => prog[t].n >= f_value
  BY Zenon DEF AssertionsHold
<1> ValuesBehindFile /\ ProgressOK(t)
  BY Zenon DEF LogInv, ThreadOK
<1>1. /\ w_value <= write_lsn /\ write_lsn <= lsn
      /\ f_value <= flushed_to_disk_lsn /\ flushed_to_disk_lsn <= w_value
  BY Zenon DEF ValuesBehindFile
<1>2. /\ prog[t].at = "writeRelease" => w_value <= prog[t].n
      /\ prog[t].at = "fsync" => flushed_to_disk_lsn <= prog[t].n
      /\ prog[t].at = "flushRelease" => f_value <= prog[t].n
  BY Zenon DEF ProgressOK
<1>3. /\ lsn \in Nat /\ write_lsn \in Nat /\ w_value \in Nat /\ f_value \in Nat
      /\ flushed_to_disk_lsn \in Nat /\ prog[t].n \in Nat
  BY Numbers, Zenon
<1> QED
  BY <1>1, <1>2, <1>3 DEF At

(* The invariant gives exclusive access to the log file. *)
LEMMA InvExclusive == LogInv => FileExclusive
<1> SUFFICES ASSUME LogInv, NEW t \in Thread, NEW u \in Thread, t # u,
                    At(t, "reopen") \/ At(t, "io")
             PROVE  ~At(u, "io") /\ (At(t, "reopen") => ~At(u, "fsync"))
  BY Zenon DEF FileExclusive
<1> /\ WritePlace(t) /\ WritePlace(u) /\ FlushPlace(t) /\ FlushPlace(u)
    /\ WriteOwner /\ FlushOwner
  BY DEF LogInv, ThreadOK, WriteOK, FlushOK
<1> w_call[u].pc # "ACQUIRED" /\ (f_call[t].pc = "ACQUIRED" => f_call[u].pc # "ACQUIRED")
  BY Zenon DEF WriteOwner, FlushOwner, At, WritePlace, WithWriteLock
<1> QED
  BY Zenon DEF At, WritePlace, FlushPlace, WithWriteLock, HasFlushLock, Flushing

(* The invariant gives that what was acknowledged as written is written. *)
LEMMA InvWritten == LogInv => WrittenAcknowledged
<1> SUFFICES ASSUME LogInv PROVE WrittenAcknowledged
  OBVIOUS
<1> ValuesBehindFile /\ WriteTypes /\ WriteEarly
  BY DEF LogInv, WriteOK
<1>2. ASSUME NEW t \in Thread, At(t, "done")
      PROVE  prog[t].req <= write_lsn
  <2> AnswerOK(t)
    BY Zenon DEF LogInv, ThreadOK
  <2> QED
    BY <1>2, Numbers DEF AnswerOK, Settled, At, ValuesBehindFile
<1>3. ASSUME NEW c \in w_completed
      PROVE  c.num <= write_lsn
  <2> /\ c.num \in Nat /\ c.num <= w_value
      /\ w_value \in Nat /\ write_lsn \in Nat /\ w_value <= write_lsn
    BY DEF WriteTypes, WriteEarly, write_lock!PendingCb, LogInv, LogTypes,
                ValuesBehindFile
  <2> QED
    OBVIOUS
<1> QED
  BY <1>2, <1>3, Zenon DEF WrittenAcknowledged

\* What never decreases.
Grow == /\ w_value' >= w_value /\ f_value' >= f_value
        /\ write_lsn' >= write_lsn
        /\ flushed_to_disk_lsn' >= flushed_to_disk_lsn

(* The shared log sequence numbers only grow. *)
LEMMA GrowStep ==
  ASSUME LogInv, \A t \in Thread : LocksDo(t), [Next]_vars
  PROVE  [Grow]_vars
<1>1. ASSUME NEW t \in Thread,
             Commit(t) \/ FlushBuffer(t) \/ Prepare(t) \/ Continue(t)
      PROVE  Grow
  <2>1. Others(t)
    BY <1>1, ThreadStepInv, Zenon
  <2> QED
    BY <2>1, Numbers DEF Others, Grow
<1> QED
  BY <1>1, Zenon DEF Next, Quiescent

-----------------------------------------------------------------------------
(* Durability *)

\* Only log_write_buf(), log_t::flush() and set_write_through() change what the
\* durability of the log depends on.
StorageSame == UNCHANGED <<write_lsn, flushed_to_disk_lsn, log_write_through, synced>>

(* Only a file write, a file sync and a reopening change what the storage holds. *)
LEMMA OnlyWritesAndSyncs ==
  ASSUME NEW t \in Thread,
         Commit(t) \/ FlushBuffer(t) \/ Prepare(t) \/ Continue(t)
  PROVE  StorageSame \/ WriteIO(t) \/ Fsync(t) \/ Reopen(t)
<1> USE Zenon
<1>1. CASE Commit(t) \/ FlushBuffer(t) \/ Prepare(t) \/ FlushIfNeeded(t)
           \/ FlushLeft(t) \/ FlushAcquired(t) \/ WriteLeft(t)
  BY <1>1
  DEF Commit, FlushBuffer, Prepare, FlushIfNeeded, FlushLeft, FlushAcquired,
      WriteLeft, logVars, StorageSame
<1>2. CASE Latch(t) \/ WriteBuf(t) \/ WriteRelease(t) \/ WriteReleased(t) \/ Flush(t)
           \/ FlushRelease(t) \/ FlushReleased(t) \/ End(t) \/ Done(t)
  BY <1>2
  DEF Latch, WriteBuf, WriteRelease, WriteReleased, Flush, FlushRelease,
      FlushReleased, End, Done, logVars, StorageSame
<1>3. CASE PrepareFlush(t) \/ PrepareWrite(t) \/ LockStep(t)
  BY <1>3 DEF PrepareFlush, PrepareWrite, LockStep, logVars, StorageSame
<1> QED
  BY <1>1, <1>2, <1>3 DEF Continue

(* Every step keeps flushed_to_disk within what the file has synced. *)
LEMMA SyncStep ==
  ASSUME Resizers = {}, LogInv, SyncInv, [Next]_vars
  PROVE  SyncInv'
<1>1. CASE StorageSame
  BY <1>1, Zenon DEF StorageSame, SyncInv
<1>2. ASSUME NEW t \in Thread, WriteIO(t)
      PROVE  SyncInv'
  <2> /\ flushed_to_disk_lsn' = flushed_to_disk_lsn
      /\ log_write_through' = log_write_through
      /\ write_lsn' = prog[t].n
      /\ synced' = synced \cup
           IF log_write_through THEN (write_lsn + 1)..prog[t].n ELSE {}
    BY <1>2 DEF WriteIO
  <2> log_write_through => 1..prog[t].n \subseteq synced'
    BY Numbers DEF SyncInv
  <2> 1..flushed_to_disk_lsn \subseteq synced'
    BY DEF SyncInv
  <2> QED
    BY DEF SyncInv
<1>3. ASSUME NEW t \in Thread, Fsync(t)
      PROVE  SyncInv'
  <2>1. /\ write_lsn' = write_lsn /\ log_write_through' = log_write_through
        /\ flushed_to_disk_lsn' = prog[t].n
        /\ synced' = IF log_write_through THEN synced ELSE 1..write_lsn
    BY <1>3 DEF Fsync
  <2> prog[t].n <= write_lsn
    <3> ProgressOK(t) /\ ValuesBehindFile /\ prog[t].at = "fsync"
      BY <1>3 DEF LogInv, ThreadOK, Fsync, At
    <3> QED
      BY Numbers DEF ProgressOK, ValuesBehindFile
  <2> 1..write_lsn \subseteq synced'
    BY <2>1 DEF SyncInv
  <2> 1..prog[t].n \subseteq 1..write_lsn
    BY Numbers
  <2> QED
    BY <2>1 DEF SyncInv
<1>4. ASSUME NEW t \in Thread, Reopen(t)
      PROVE  FALSE
  BY <1>4 DEF LogInv, ThreadOK, JobOK, Reopen, At
<1>5. StorageSame \/ \E t \in Thread : WriteIO(t) \/ Fsync(t) \/ Reopen(t)
  <2> UNCHANGED vars => StorageSame
    BY DEF vars, logVars, StorageSame
  <2> QED
    BY OnlyWritesAndSyncs, Zenon DEF Next, Quiescent
<1> QED
  BY <1>1, <1>2, <1>3, <1>4, <1>5

(* Initially flushed_to_disk is within what the file has synced. *)
LEMMA SyncInit == Init => SyncInv
<1> SUFFICES ASSUME Init PROVE SyncInv
  OBVIOUS
<1> write_lsn = 0 /\ flushed_to_disk_lsn = 0
  BY DEF Init
<1> 1..0 = {}
  OBVIOUS
<1> QED
  BY DEF SyncInv

(* The two invariants give that what was acknowledged as durable is durable. *)
LEMMA InvDurable == LogInv /\ SyncInv => DurableAcknowledged
<1> SUFFICES ASSUME LogInv, SyncInv PROVE DurableAcknowledged
  OBVIOUS
<1>1. ASSUME NEW n \in Nat, n <= flushed_to_disk_lsn
      PROVE  1..n \subseteq synced
  <2> flushed_to_disk_lsn \in Nat
    BY DEF LogInv, LogTypes
  <2> 1..n \subseteq 1..flushed_to_disk_lsn
    BY <1>1
  <2> QED
    BY DEF SyncInv
<1>2. ASSUME NEW t \in Thread, At(t, "done"), prog[t].durable
      PROVE  1..prog[t].req \subseteq synced
  <2> AnswerOK(t)
    BY Zenon DEF LogInv, ThreadOK
  <2> prog[t].req \in Nat /\ prog[t].req <= flushed_to_disk_lsn
    BY <1>2, Numbers DEF AnswerOK, Settled, At
  <2> QED
    BY <1>1
<1>3. ASSUME NEW c \in f_completed
      PROVE  1..c.num \subseteq synced
  <2> /\ c.num \in Nat /\ c.num <= f_value /\ f_value \in Nat
      /\ flushed_to_disk_lsn \in Nat /\ f_value <= flushed_to_disk_lsn
    BY DEF LogInv, LogTypes, ValuesBehindFile, FlushOK, FlushTypes,
           FlushEarly, flush_lock!PendingCb
  <2> QED
    BY <1>1
<1> QED
  BY <1>2, <1>3 DEF DurableAcknowledged, SyncInv

=============================================================================

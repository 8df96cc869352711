------------------------------- MODULE LogSys --------------------------------
(***************************************************************************)
(* Writing and flushing the InnoDB redo log: log_write_up_to() and the     *)
(* other users of write_lock and flush_lock in storage/innobase/log/       *)
(* log0log.cc.  The two group_commit_locks are instances of                *)
(* GroupCommitLock; they share the thread-local waiter of each thread.     *)
(*                                                                         *)
(* One unit of LSN is one log block written by one mini-transaction.  The  *)
(* file is the prefix 1..write_lsn; `synced' is the set of units that are  *)
(* on stable storage.  A power failure may hit any state and leaves        *)
(* exactly `synced', of which recovery can use the longest prefix.         *)
(***************************************************************************)
EXTENDS Integers

CONSTANTS
    Thread,
    Committers,     \* threads that commit transactions
    Flushers,       \* threads that call log_buffer_flush_to_disk()
    Extenders,      \* threads that use log_write_and_flush()
    Resizers,       \* threads that call log_t::set_write_through()
    WriteThrough,   \* the values innodb_log_file_write_through starts with
    MaxLsn,         \* bound on the log sequence number
    Dummy, NoCallback, NoThread

ASSUME LogSysAssumption == /\ MaxLsn \in Nat
                           /\ NoThread \notin Thread
                           /\ WriteThrough \subseteq BOOLEAN
                           /\ Dummy \notin 1..MaxLsn
                           /\ NoCallback \notin (1..MaxLsn) \cup {Dummy}

VARIABLES
    \* write_lock
    w_value, w_pending, w_lock, w_waiters, w_callbacks, w_call, w_completed,
    \* flush_lock
    f_value, f_pending, f_lock, f_waiters, f_callbacks, f_call, f_completed,
    waiter,                 \* thread_local_waiter
    lsn, write_lsn, flushed_to_disk_lsn,
    latch,                  \* exclusive holder of log_sys.latch
    log_write_through,      \* ib_logfile0 is open with O_DSYNC
    synced,                 \* units of the log on stable storage
    prog                    \* the log function each thread is executing

wVars == <<w_value, w_pending, w_lock, w_waiters, w_callbacks, w_call,
           w_completed>>
fVars == <<f_value, f_pending, f_lock, f_waiters, f_callbacks, f_call,
           f_completed>>
logVars == <<lsn, write_lsn, flushed_to_disk_lsn, latch, log_write_through,
             synced>>
vars == <<wVars, fVars, waiter, logVars, prog>>

\* A commit is identified by the LSN its mini-transaction ends at, and so is
\* its completion callback.
Lsn == 1..MaxLsn

write_lock == INSTANCE GroupCommitLock WITH
    Callback <- Lsn, MaxValue <- MaxLsn + 1, m_value <- w_value,
    m_pending_value <- w_pending, m_lock <- w_lock,
    m_waiters_list <- w_waiters, m_pending_callbacks <- w_callbacks,
    call <- w_call, completed <- w_completed

flush_lock == INSTANCE GroupCommitLock WITH
    Callback <- Lsn, MaxValue <- MaxLsn + 1, m_value <- f_value,
    m_pending_value <- f_pending, m_lock <- f_lock,
    m_waiters_list <- f_waiters, m_pending_callbacks <- f_callbacks,
    call <- f_call, completed <- f_completed

(***************************************************************************)
(* prog[t]: where t is (at), the arguments of log_write_up_to (lsn,        *)
(* durable, cb), the number to publish (n), what release() returned        *)
(* (pending), and the request that is acknowledged when t gets to "done"   *)
(* (req; 0 if it is acknowledged by a callback).                           *)
(***************************************************************************)
Places == {"idle", "needed", "flushAcquire", "writeAcquire", "write_buf",
           "io", "writeRelease", "writeReleasing", "flush", "fsync",
           "flushRelease", "flushReleasing", "end", "done",
           "prepareFlush", "prepareWrite", "reopen"}
Jobs == {"write_up_to", "write_and_flush", "resize"}

Idle == [at |-> "idle", job |-> "write_up_to", lsn |-> 0, durable |-> FALSE,
         cb |-> NoCallback, n |-> 0, pending |-> 0, req |-> 0]

Init ==
    /\ write_lock!Init /\ flush_lock!Init
    /\ lsn = 0 /\ write_lsn = 0 /\ flushed_to_disk_lsn = 0
    /\ latch = NoThread
    /\ log_write_through \in WriteThrough
    /\ synced = {}
    /\ prog = [t \in Thread |-> Idle]

At(t, place) == prog[t].at = place
Goto(t, place) == prog' = [prog EXCEPT ![t].at = place]

\* The thread has seen the result of its call and forgets the frame.
LeaveW(t) == w_call' = [w_call EXCEPT ![t] = write_lock!IdleFrame]
LeaveF(t) == f_call' = [f_call EXCEPT ![t] = flush_lock!IdleFrame]
wLockVars == <<w_value, w_pending, w_lock, w_waiters, w_callbacks, w_completed>>
fLockVars == <<f_value, f_pending, f_lock, f_waiters, f_callbacks, f_completed>>

\* log_write_up_to() from "repeat:" to the call of acquire(), for the arguments
\* in p.
Repeat(t, p) ==
    IF p.durable
      THEN /\ flush_lock!StartAcquire(t, p.lsn, p.cb)
           /\ prog' = [prog EXCEPT ![t] = [p EXCEPT !.at = "flushAcquire"]]
           /\ UNCHANGED wVars
      ELSE /\ write_lock!StartAcquire(t, p.lsn, p.cb)
           /\ prog' = [prog EXCEPT ![t] = [p EXCEPT !.at = "writeAcquire"]]
           /\ UNCHANGED fVars

-----------------------------------------------------------------------------
(* Requests *)

\* A mini-transaction appends to the log buffer (with log_sys.latch shared)
\* and the transaction asks for its commit to be written, durably or not, and
\* synchronously or with a callback.
Commit(t) ==
    /\ At(t, "idle") /\ t \in Committers
    /\ lsn < MaxLsn /\ latch = NoThread
    /\ lsn' = lsn + 1
    /\ \E durable \in BOOLEAN, async \in BOOLEAN :
         prog' = [prog EXCEPT ![t] =
                    [Idle EXCEPT !.at = "needed", !.lsn = lsn + 1,
                                 !.durable = durable,
                                 !.cb = IF async THEN lsn + 1 ELSE NoCallback,
                                 !.req = IF async THEN 0 ELSE lsn + 1]]
    /\ UNCHANGED <<wVars, fVars, waiter, write_lsn, flushed_to_disk_lsn, latch,
                   log_write_through, synced>>

\* trx_flush_log_if_needed_low(): nothing to do if it is durable already.
FlushIfNeeded(t) ==
    /\ At(t, "needed")
    /\ IF flushed_to_disk_lsn >= prog[t].lsn
         THEN /\ prog' = [prog EXCEPT ![t] = [Idle EXCEPT !.at = "done",
                            !.durable = TRUE, !.req = prog[t].lsn]]
              /\ UNCHANGED <<wVars, fVars, waiter>>
         ELSE Repeat(t, prog[t])
    /\ UNCHANGED logVars

\* log_buffer_flush_to_disk(durable).  A call that finds nothing to write or
\* flush returns at once and is left out.
FlushBuffer(t) ==
    /\ At(t, "idle") /\ t \in Flushers
    /\ \E durable \in BOOLEAN :
         /\ lsn > IF durable THEN f_value ELSE w_value
         /\ Repeat(t, [Idle EXCEPT !.lsn = lsn, !.durable = durable,
                                   !.req = lsn])
    /\ UNCHANGED logVars

-----------------------------------------------------------------------------
(* log_write_up_to(lsn, durable, callback) *)

\* Mutant: a request that has expired is tried again.
FlushLeft_Retry(t) ==
    /\ At(t, "flushAcquire")
    /\ f_call[t].pc \in {"EXPIRED", "CALLBACK_QUEUED"}
    /\ Repeat(t, prog[t])
    /\ UNCHANGED logVars

\* flush_lock.acquire() returned without the lock: somebody else made, or
\* will make, the log durable.
FlushLeft(t) ==
    /\ At(t, "flushAcquire")
    /\ f_call[t].pc \in {"EXPIRED", "CALLBACK_QUEUED"}
    /\ LeaveF(t) /\ Goto(t, "done")
    /\ UNCHANGED <<wVars, fLockVars, waiter, logVars>>

FlushAcquired(t) ==
    /\ At(t, "flushAcquire")
    /\ f_call[t].pc = "ACQUIRED"
    /\ flush_lock!set_pending(lsn)
    /\ write_lock!StartAcquire(t, prog[t].lsn, NoCallback)
    /\ Goto(t, "writeAcquire")
    /\ UNCHANGED logVars

\* write_lock.acquire() returned without the lock.
WriteLeft(t) ==
    /\ At(t, "writeAcquire")
    /\ w_call[t].pc \in {"EXPIRED", "CALLBACK_QUEUED"}
    /\ LeaveW(t) /\ Goto(t, IF prog[t].durable THEN "flush" ELSE "done")
    /\ UNCHANGED <<fVars, wLockVars, waiter, logVars>>

\* log_sys.latch.wr_lock(), by the owner of write_lock; an Extender appends its
\* own record under it.
Latch(t) ==
    /\ At(t, "writeAcquire") \/ At(t, "prepareWrite")
    /\ w_call[t].pc = "ACQUIRED"
    /\ latch = NoThread
    /\ latch' = t
    /\ IF prog[t].job = "write_and_flush" /\ lsn < MaxLsn
         THEN /\ lsn' = lsn + 1
              /\ prog' = [prog EXCEPT ![t].at = "write_buf", ![t].req = lsn + 1]
         ELSE /\ Goto(t, IF prog[t].job = "resize" THEN "reopen" ELSE "write_buf")
              /\ UNCHANGED lsn
    /\ UNCHANGED <<wVars, fVars, waiter, write_lsn, flushed_to_disk_lsn,
                   log_write_through, synced>>

\* Mutant: one more byte than was appended.
WriteBuf_OffByOne(t) ==
    /\ At(t, "write_buf")
    /\ latch' = IF prog[t].job = "write_and_flush" THEN t ELSE NoThread
    /\ IF write_lsn >= lsn
         THEN /\ prog' = [prog EXCEPT ![t].at = "writeRelease", ![t].n = lsn]
              /\ UNCHANGED <<wVars, waiter>>
         ELSE /\ write_lock!set_pending(lsn)
              /\ prog' = [prog EXCEPT ![t].at = "io", ![t].n = lsn + 1]
    /\ UNCHANGED <<fVars, lsn, write_lsn, flushed_to_disk_lsn,
                   log_write_through, synced>>

\* log_t::write_buf<release_latch>() up to latch.wr_unlock().
WriteBuf(t) ==
    /\ At(t, "write_buf")
    /\ latch' = IF prog[t].job = "write_and_flush" THEN t ELSE NoThread
    /\ IF write_lsn >= lsn
         THEN /\ prog' = [prog EXCEPT ![t].at = "writeRelease", ![t].n = lsn]
              /\ UNCHANGED <<wVars, waiter>>
         ELSE /\ write_lock!set_pending(lsn)
              /\ prog' = [prog EXCEPT ![t].at = "io", ![t].n = lsn]
    /\ UNCHANGED <<fVars, lsn, write_lsn, flushed_to_disk_lsn,
                   log_write_through, synced>>

\* log_write_buf() and write_lsn= lsn.
WriteIO(t) ==
    /\ At(t, "io")
    /\ write_lsn' = prog[t].n
    /\ synced' = synced \cup
         IF log_write_through THEN (write_lsn + 1)..prog[t].n ELSE {}
    /\ Goto(t, "writeRelease")
    /\ UNCHANGED <<wVars, fVars, waiter, lsn, flushed_to_disk_lsn, latch,
                   log_write_through>>

\* Mutant: the current LSN is published, not what was written.
WriteRelease_Lsn(t) ==
    /\ At(t, "writeRelease")
    /\ write_lock!Release(t, lsn)
    /\ Goto(t, "writeReleasing")
    /\ UNCHANGED <<fVars, logVars>>

WriteRelease(t) ==
    /\ At(t, "writeRelease")
    /\ write_lock!Release(t, prog[t].n)
    /\ Goto(t, "writeReleasing")
    /\ UNCHANGED <<fVars, logVars>>

\* A call in which some release() returned a number is not over.
EndPlace(ret) == IF ret = 0 THEN "done" ELSE "end"

\* The place after write_lock.release() in the three functions.
AfterWrite(t) ==
    CASE prog[t].job = "resize" -> "flushRelease"
      [] prog[t].durable        -> "flush"
      [] OTHER                  -> EndPlace(w_call[t].ret)

WriteReleased(t) ==
    /\ At(t, "writeReleasing")
    /\ w_call[t].pc = "released"
    /\ LeaveW(t)
    /\ prog' = [prog EXCEPT ![t].at = AfterWrite(t), ![t].pending = w_call[t].ret,
                            ![t].n = IF prog[t].job = "resize"
                                     THEN f_value ELSE @]
    /\ UNCHANGED <<fVars, wLockVars, waiter, logVars>>

\* Mutant: log_sys.get_lsn() is taken for write_lock.value().
Flush_Lsn(t) ==
    LET n == IF prog[t].job = "write_up_to" THEN lsn ELSE prog[t].n
    IN  /\ At(t, "flush")
        /\ flush_lock!set_pending(n)
        /\ prog' = [prog EXCEPT ![t].at = "fsync", ![t].n = n]
        /\ UNCHANGED <<wVars, logVars>>

\* Mutant: only what was asked for is declared flushed.
Flush_Requested(t) ==
    LET n == IF prog[t].job = "write_up_to" THEN prog[t].lsn ELSE prog[t].n
    IN  /\ At(t, "flush")
        /\ flush_lock!set_pending(n)
        /\ prog' = [prog EXCEPT ![t].at = "fsync", ![t].n = n]
        /\ UNCHANGED <<wVars, logVars>>

\* log_flush(lsn): log_write_up_to() passes write_lock.value(), the others
\* what write_buf() returned.
Flush(t) ==
    LET n == IF prog[t].job = "write_up_to" THEN w_value ELSE prog[t].n
    IN  /\ At(t, "flush")
        /\ flush_lock!set_pending(n)
        /\ prog' = [prog EXCEPT ![t].at = "fsync", ![t].n = n]
        /\ UNCHANGED <<wVars, logVars>>

\* Mutant: the log file is not synced.
Fsync_Skip(t) ==
    /\ At(t, "fsync")
    /\ synced' = synced
    /\ flushed_to_disk_lsn' = prog[t].n
    /\ Goto(t, "flushRelease")
    /\ UNCHANGED <<wVars, fVars, waiter, lsn, write_lsn, latch,
                   log_write_through>>

\* log_t::flush(): fdatasync() of all that was written, unless every write
\* is durable by itself.
Fsync(t) ==
    /\ At(t, "fsync")
    /\ synced' = IF log_write_through THEN synced ELSE 1..write_lsn
    /\ flushed_to_disk_lsn' = prog[t].n
    /\ Goto(t, "flushRelease")
    /\ UNCHANGED <<wVars, fVars, waiter, lsn, write_lsn, latch,
                   log_write_through>>

\* Mutant: the requested LSN is published.
FlushRelease_Requested(t) ==
    /\ At(t, "flushRelease")
    /\ flush_lock!Release(t, prog[t].lsn)
    /\ Goto(t, "flushReleasing")
    /\ UNCHANGED <<wVars, logVars>>

FlushRelease(t) ==
    /\ At(t, "flushRelease")
    /\ flush_lock!Release(t, prog[t].n)
    /\ Goto(t, "flushReleasing")
    /\ UNCHANGED <<wVars, logVars>>

\* log_write_and_flush() ignores what the two release() calls returned;
\* its caller then releases log_sys.latch.
FlushReleased(t) ==
    /\ At(t, "flushReleasing")
    /\ f_call[t].pc = "released"
    /\ LeaveF(t)
    /\ IF prog[t].job = "write_and_flush"
         THEN Goto(t, "done") /\ latch' = NoThread
         ELSE LET pending == IF prog[t].pending > f_call[t].ret
                            THEN prog[t].pending ELSE f_call[t].ret
              IN  /\ prog' = [prog EXCEPT ![t].at = EndPlace(pending),
                                         ![t].pending = pending]
                  /\ UNCHANGED latch
    /\ UNCHANGED <<wVars, fLockVars, waiter, lsn, write_lsn,
                   flushed_to_disk_lsn, log_write_through, synced>>

\* Mutant: the number returned by release() is ignored.
End_Ignore(t) ==
    /\ At(t, "end")
    /\ Goto(t, "done")
    /\ UNCHANGED <<wVars, fVars, waiter, logVars>>

\* "There is no new group commit lead; some async waiters could stall."
\* log_resize_release() calls log_write_up_to(max, true, nullptr) instead.
End(t) ==
    LET resize == prog[t].job = "resize"
    IN  /\ At(t, "end")
        /\ Repeat(t, [prog[t] EXCEPT
                        !.job = "write_up_to", !.lsn = prog[t].pending,
                        !.pending = 0, !.durable = @ \/ resize,
                        !.cb = IF resize THEN NoCallback ELSE Dummy])
        /\ UNCHANGED logVars

\* The caller is told.
Done(t) ==
    /\ At(t, "done")
    /\ prog' = [prog EXCEPT ![t] = Idle]
    /\ UNCHANGED <<wVars, fVars, waiter, logVars>>

-----------------------------------------------------------------------------
(* log_write_and_flush_prepare() and log_resize_acquire(): both locks are    *)
(* taken by asking for an LSN that does not exist yet, until it works.       *)

Prepare(t) ==
    /\ At(t, "idle")
    /\ \E job \in {"write_and_flush", "resize"} :
         /\ \/ job = "write_and_flush" /\ t \in Extenders /\ lsn < MaxLsn
            \/ job = "resize" /\ t \in Resizers
         /\ prog' = [prog EXCEPT ![t] = [Idle EXCEPT !.at = "prepareFlush",
                        !.job = job, !.durable = job = "write_and_flush"]]
    /\ flush_lock!StartAcquire(t, lsn + 1, NoCallback)
    /\ UNCHANGED <<wVars, logVars>>

\* Mutant: write_lock and log_sys.latch are not acquired.
PrepareFlush_OneLock(t) ==
    /\ At(t, "prepareFlush")
    /\ \/ /\ f_call[t].pc = "EXPIRED"
          /\ flush_lock!StartAcquire(t, lsn + 1, NoCallback)
          /\ UNCHANGED <<wVars, prog>>
       \/ /\ f_call[t].pc = "ACQUIRED"
          /\ Goto(t, "reopen")
          /\ UNCHANGED <<wVars, fVars, waiter>>
    /\ UNCHANGED logVars

PrepareFlush(t) ==
    /\ At(t, "prepareFlush")
    /\ \/ /\ f_call[t].pc = "EXPIRED"
          /\ flush_lock!StartAcquire(t, lsn + 1, NoCallback)
          /\ UNCHANGED <<wVars, prog>>
       \/ /\ f_call[t].pc = "ACQUIRED"
          /\ write_lock!StartAcquire(t, lsn + 1, NoCallback)
          /\ Goto(t, "prepareWrite")
          /\ UNCHANGED fVars
    /\ UNCHANGED logVars

PrepareWrite(t) ==
    /\ At(t, "prepareWrite")
    /\ w_call[t].pc = "EXPIRED"
    /\ write_lock!StartAcquire(t, lsn + 1, NoCallback)
    /\ UNCHANGED <<fVars, logVars, prog>>

\* Mutant: the current LSN is published.
Reopen_Lsn(t) ==
    /\ At(t, "reopen")
    /\ log_write_through' \in BOOLEAN
    /\ latch' = NoThread
    /\ prog' = [prog EXCEPT ![t].at = "writeRelease", ![t].n = lsn]
    /\ UNCHANGED <<wVars, fVars, waiter, lsn, write_lsn, flushed_to_disk_lsn,
                   synced>>

\* log_t::set_write_through(): ib_logfile0 is closed and opened again.
Reopen(t) ==
    /\ At(t, "reopen")
    /\ log_write_through' \in BOOLEAN
    /\ latch' = NoThread
    /\ prog' = [prog EXCEPT ![t].at = "writeRelease", ![t].n = w_value]
    /\ UNCHANGED <<wVars, fVars, waiter, lsn, write_lsn, flushed_to_disk_lsn,
                   synced>>

-----------------------------------------------------------------------------
LockStep(t) ==
    \/ write_lock!Step(t) /\ UNCHANGED <<fVars, logVars, prog>>
    \/ flush_lock!Step(t) /\ UNCHANGED <<wVars, logVars, prog>>

\* What a thread does by itself once it has called into the log.
Continue(t) ==
    \/ FlushIfNeeded(t) \/ FlushLeft(t) \/ FlushAcquired(t)
    \/ WriteLeft(t) \/ Latch(t) \/ WriteBuf(t)
    \/ WriteIO(t) \/ WriteRelease(t) \/ WriteReleased(t) \/ Flush(t)
    \/ Fsync(t) \/ FlushRelease(t) \/ FlushReleased(t) \/ End(t) \/ Done(t)
    \/ PrepareFlush(t) \/ PrepareWrite(t) \/ Reopen(t) \/ LockStep(t)

\* The bound on the LSN is used up and nobody is in the log: not a deadlock.
Quiescent ==
    /\ lsn = MaxLsn
    /\ \A t \in Thread : At(t, "idle")
    /\ UNCHANGED vars

Next == \/ \E t \in Thread : Commit(t) \/ FlushBuffer(t) \/ Prepare(t) \/ Continue(t)
        \/ Quiescent

Spec == Init /\ [][Next]_vars

\* A thread inside the log functions is not suspended for ever.
Fairness == \A t \in Thread : WF_vars(Continue(t))
FairSpec == Spec /\ Fairness

-----------------------------------------------------------------------------
(* Properties *)

Program == [at : Places, job : Jobs, lsn : 0..MaxLsn, durable : BOOLEAN,
            cb : Lsn \cup {Dummy, NoCallback}, n : 0..MaxLsn,
            pending : 0..MaxLsn, req : 0..MaxLsn]

\* Types of the variables of log_t and of the program state.
TypeOK ==
    /\ {lsn, write_lsn, flushed_to_disk_lsn, w_value, f_value} \subseteq 0..MaxLsn
    /\ latch \in Thread \cup {NoThread}
    /\ log_write_through \in BOOLEAN
    /\ synced \subseteq Lsn
    /\ w_call \in [Thread -> write_lock!Frame]
    /\ f_call \in [Thread -> flush_lock!Frame]
    /\ waiter \in [Thread -> write_lock!Waiter]
    /\ prog \in [Thread -> Program]

\* Whoever was told that the log is durable up to n can rely on it: a power
\* failure in this very state leaves the whole prefix 1..n on disk.  Callers
\* are told by log_write_up_to() returning, by a callback on flush_lock, and
\* by flushed_to_disk_lsn (which write-ahead logging of pages relies on).
DurableAcknowledged ==
    /\ \A t \in Thread : At(t, "done") /\ prog[t].durable =>
                            1..prog[t].req \subseteq synced
    /\ \A c \in f_completed : 1..c.num \subseteq synced
    /\ 1..flushed_to_disk_lsn \subseteq synced

\* With innodb_flush_log_at_trx_commit=2 a commit is acknowledged only after
\* it was written to the file: it survives a crash of the server process.
WrittenAcknowledged ==
    /\ \A t \in Thread : At(t, "done") => prog[t].req <= write_lsn
    /\ \A c \in w_completed : c.num <= write_lsn

\* The locks' values never run ahead of the file, nor each other: what
\* value() promises to a caller that does not wait is already true.
ValuesBehindFile ==
    /\ w_value <= write_lsn /\ write_lsn <= lsn
    /\ f_value <= flushed_to_disk_lsn /\ flushed_to_disk_lsn <= w_value

\* The assertions of set_pending(), release(), write_buf() and flush() hold
\* whenever control reaches them, however the two locks interleave.
AssertionsHold ==
    \A t \in Thread :
        /\ At(t, "write_buf") => lsn >= w_value /\ write_lsn >= flushed_to_disk_lsn
        /\ At(t, "write_buf") /\ write_lsn >= lsn => write_lsn = lsn
        /\ At(t, "writeRelease") => prog[t].n >= w_value
        /\ At(t, "fsync") => /\ prog[t].n >= f_value
                              /\ prog[t].n >= flushed_to_disk_lsn
        /\ At(t, "flushRelease") => prog[t].n >= f_value

\* Nothing that was announced is taken back: the two values, write_lsn and
\* flushed_to_disk_lsn only grow, although they are published by different
\* threads that computed them before they took part in the group commit.
ValuesGrow ==
    [][/\ w_value' >= w_value /\ f_value' >= f_value
       /\ write_lsn' >= write_lsn
       /\ flushed_to_disk_lsn' >= flushed_to_disk_lsn]_vars

\* One thread writes the log file at a time, and while set_write_through()
\* reopens it nobody else writes or syncs it.
FileExclusive ==
    \A t, u \in Thread :
        t # u /\ (At(t, "reopen") \/ At(t, "io")) =>
            ~At(u, "io") /\ (At(t, "reopen") => ~At(u, "fsync"))

\* log_write_and_flush() ignores what release() returns, and may: a callback is
\* queued without a waiter only if its number is at most the pending value, and
\* that value, whoever set it, is at most the LSN published here.
IgnoredReturnIsZero ==
    \A t \in Thread : prog[t].job = "write_and_flush" =>
        w_call[t].ret = 0 /\ f_call[t].ret = 0

\* Every call into the log returns.
CallsReturn == \A t \in Thread : [](~At(t, "idle") => <>At(t, "idle"))

\* Every commit whose callback was queued is acknowledged in the end, also
\* when the callback outlived every waiter of the lock it was queued on
\* (the number returned by release() and "goto repeat").
CallbacksRun ==
    \A l \in Lsn :
        (\E c \in w_callbacks \cup f_callbacks : c.cb = l) ~>
            (\E c \in w_completed \cup f_completed : c.cb = l)

-----------------------------------------------------------------------------
(* LogSys implements LogDurability *)

\* What recovery can use after a power failure.
DurablePrefix ==
    CHOOSE n \in 0..MaxLsn : 1..n \subseteq synced /\ n + 1 \notin synced

\* The request t has to be answered; "needed" is before the choice between a
\* callback and an answer on return.
Asked(t) ==
    LET l == IF At(t, "needed") THEN prog[t].lsn ELSE prog[t].req
    IN  IF At(t, "idle") \/ At(t, "done") \/ l = 0
          THEN [lsn |-> 0, durable |-> FALSE]
          ELSE [lsn |-> l, durable |-> prog[t].durable]

\* The callback of l was given to a lock with these variables, and not yet run.
Holds(l, callbacks, call) ==
    \/ \E c \in callbacks : c.cb = l
    \/ \E t \in Thread : \/ call[t].cb = l /\ call[t].pc \in write_lock!InAcquire
                         \/ \E c \in call[t].cbs : c.cb = l

Ran(l, completed) == \E c \in completed : c.cb = l

\* Commit l, which may not exist yet.
Deferred(l) ==
    CASE l > lsn -> "none"
      [] Ran(l, w_completed) \/ Ran(l, f_completed) -> "answered"
      [] Holds(l, f_callbacks, f_call) -> "durable"
      [] Holds(l, w_callbacks, w_call) -> "written"
      [] OTHER -> "none"

Log == INSTANCE LogDurability WITH
    appended <- lsn, written <- write_lsn, durable <- DurablePrefix,
    flushed <- flushed_to_disk_lsn, asked <- [t \in Thread |-> Asked(t)],
    deferred <- [l \in Lsn |-> Deferred(l)]

\* The two locks, the buffer and the leader of a group commit together behave
\* as the log that LogDurability promises: no step of any thread answers a
\* request before its prefix is written or durable as it asked, loses a
\* callback while it passes from acquire() to the pending ones to release(),
\* or takes anything back that was written, durable or announced.
ImplementsLog == Log!Spec

=============================================================================

# TLA+ specifications of MariaDB Server

This directory models parts of MariaDB Server in which the order of steps of
several threads decides whether the server is correct: how InnoDB makes commits
durable (group commit of the redo log) and what its readers see (read views and
purge), how the binary log coordinates two-phase commit and what recovery makes
of a crash, how commits wait for replicas, and how metadata locks are granted
and deadlocks between them found.

## 1. The system and its parts

MariaDB is a server process with many threads. A statement passes through the
network layer, the parser, the optimizer and the executor to a storage engine;
InnoDB is the transactional engine. `PROJECT.json` lists all parts, with the
reason for each one that has no model. The parts whose difficulty lies in
interleaving, crashes or waiting are:

| Part | State | Operations | What is hard about it |
|---|---|---|---|
| group commit lock (`log/log0sync.cc`) | value, pending value, lock bit, waiters, callbacks | `acquire`, `release`, `set_pending` | tests without the mutex, election of a leader, wake-ups after unlocking, callbacks that nobody waits for |
| redo log (`log/log0log.cc`) | `lsn`, `write_lsn`, `flushed_to_disk_lsn`, `latch`, two group commit locks, the file | `log_write_up_to`, `log_write_and_flush`, `log_resize_acquire/release`, `set_write_through` | power failure at any point, values read before and used after a lock, two locks in one order |
| registry of transactions (`include/trx0sys.h`) | `m_max_trx_id`, `m_rw_trx_hash_version`, the lock-free hash | `register_rw`, `assign_new_trx_no`, `deregister_rw`, `snapshot_ids` | no mutex at all: two counters and a hash |
| read views (`read/read0read.cc`) | limits and identifiers of a view | `open`, `close`, `snapshot`, `append` | the snapshot is not atomic; a closed view may be reused without its mutex |
| purge (`trx/trx0purge.cc`) | `purge_sys.view`, the history | `clone_oldest_view`, removal of history | must not overtake any reader |
| commit checkpoint notification (`handler/ha_innodb.cc`) | list of requests | `innodb_log_flush_request`, `log_flush_notify` | a list that is not in the order its consumer assumes |
| binary log as coordinator (`sql/log.cc`, `sql/handler.cc`) | files, `binlog_xid_count_list`, the queue of the background thread, a chain of three mutexes | group commit, rotation, checkpoint requests, `mark_xid_done`, `RESET MASTER`, purge, `recover` | commits are not flushed in the engine: a file must be kept, and read after a crash, until they are |
| semi-synchronous replication (`sql/semisync_master.cc`) | tracked positions, one wait position and one reply position for all | `report_binlog_update`, `commit_trx`, `update_sync_header`, `report_reply_binlog`, switching on and off | timeouts, late acknowledgements and `SET GLOBAL` race the waiting commits |
| metadata locks (`sql/mdl.cc`) | granted and waiting tickets, wait slots, the wait-for graph | `acquire_lock`, `upgrade_shared_lock`, `release_lock`, `downgrade_lock`, `find_deadlock` | the search runs while the graph changes; grants race timeouts and victims |
| latches, lock-free hash, table locks, thread pool, parallel replication, table cache, Aria transactions | | | see the plan |

They interact as follows. A transaction draws an identifier and enters the hash
(registry), draws a serialisation number at commit and links its undo log into
the history, appends its log to the buffer under `log_sys.latch`, leaves the
hash, and asks for its log to be written and flushed (redo log, through the two
group commit locks). Readers take snapshots of the hash; purge takes one too,
merges the open views into it and removes what is older.

With the binary log on, the transaction is first prepared in its engine, then
written to the binary log by the leader of its group, acknowledged by a replica
if semi-synchronous replication is on, and committed in the engine without
another flush. Rotation makes the binary log ask InnoDB to be told when those
commits are on disk; until then the old file is kept for recovery. Metadata
locks are above all of this: a statement holds them until its transaction ends.

## 2. Modules

| Module | Models | Extends or instantiates |
|---|---|---|
| `GroupCommitLock` | `group_commit_lock` | |
| `GroupCommitClient` | its most general client, and the properties of the lock | `GroupCommitLock` |
| `GroupCommitProofs` | lemmas about the steps of the lock, for any user of it; theorems about `GroupCommitClient` | `GroupCommitClient` |
| `LogDurability` | what the redo log promises: an abstract specification | |
| `LogSys` | writing and flushing the redo log | two instances of `GroupCommitLock`; `LogDurability` through a refinement mapping |
| `LogSysLemmas` | the invariant of `LogSys` and its steps, given what the two locks do | `LogSys` |
| `LogSysProofs` | the two locks do it; theorems about `LogSys` | `LogSysLemmas`, two instances of `GroupCommitProofs` |
| `TrxSys` | registry of read-write transactions, commit | |
| `MVCC` | read views and purge | `TrxSys` |
| `SnapshotProofs`, `MVCCProofs` | theorems about `MVCC`: the invariant, walks and views; readers, purge | `MVCC`, each the one before |
| `BinlogCheckpoint` | two-phase commit through the binary log, its checkpoints, those of InnoDB, crash and recovery | |
| `SemiSync` | semi-synchronous replication on the primary, with replicas and the receiver of acknowledgements | |
| `SemiSyncProofs` | theorems about `SemiSync` | `SemiSync` |
| `MDL` | metadata locks on objects, and the deadlock detector | |
| `MDLProofs`, `MDLWaitProofs` | theorems about `MDL`: the tickets; those who wait | `MDL`, each the one before |
| `MCGroupCommit`, `MCLogSys`, `MCMVCC`, `MCBinlogCheckpoint`, `MCSemiSync`, `MCMDL` | instances and symmetry sets for TLC | |

Operators named `X_Something` that precede a definition `X` are wrong variants
of it. They are not part of a specification; putting one in the place of `X`
must make the property they are paired with in `PROJECT.json` fail.

### GroupCommitLock, GroupCommitClient

`call[t]` is the stack frame of thread `t` in the lock: its place, the arguments
of `acquire()`, and the local lists of `release()`. `waiter[t]` is its
`thread_local_waiter`. Each section under `m_mtx` is one action: `AcquireExpired`,
`AcquireLock`, `AcquireQueue` and `AcquireWait` are the four ways through the
body of the loop in `acquire()`, `Release` is the whole locked part of
`release()`. Outside the mutex every access to shared state is a step:
`FastPath` and `LoopTest` (tests of `value()`), `SemaWait`, and, after unlocking,
`WakeLeader`, `RunCallbacks` and `WakeRest` (one wake-up at a time).

Abstractions: the linked list and the vector are sets, and the model allows
every choice of the waiter that is elected and of the number that `release()`
returns; the futex inside the semaphore is its condition; the bound of 1000
callbacks that are run outside the mutex is left out; spinning is the same test
taken later.

The client calls `acquire()` with any number and any unused callback or none,
and while it owns the lock calls `set_pending()` and then `release()` with any
number that is not below the value; if `release()` returns a number it calls
`acquire()` for it with the dummy callback. This covers the uses in
`log0log.cc`. That the real callers respect `num >= value()` is a property of
`LogSys` (`AssertionsHold`).

### LogSys

`prog[t]` is the place of thread `t` in the functions of `log0log.cc`; one action
stands for the code between two accesses to shared state. One unit of LSN is one
mini-transaction of one block. `synced` is what a power failure would leave, so
no action for the crash is needed: a durability property says in every state
what a crash in that state would find. With `O_DSYNC` a write goes to `synced` at
once, otherwise `fdatasync()` puts everything written there; `WriteThrough` is the
set of values the switch may start with.

`Committers` append a record and call `trx_flush_log_if_needed_low()`, choosing
`durable` (`innodb_flush_log_at_trx_commit` 1 or 2) and synchronous or
asynchronous freely. `Flushers` call `log_buffer_flush_to_disk()`; a call that
would find nothing to do is left out. `Extenders` are users of
`log_write_and_flush()`, such as `mtr_t::commit_file()`, which keep
`log_sys.latch` throughout. `Resizers` call `set_write_through()`.

Steps that only this thread can see are joined to a neighbour: `Repeat` is part
of the action that jumps to it, and a call whose `release()` returned 0 goes to
"done", where it is acknowledged, without passing the label again.

`LogDurability` says what all this is for: nested prefixes (appended, written,
durable, announced), a request per waiting thread, and deferred commits that a
callback answers. `ImplementsLog` is its specification under a mapping:
`DurablePrefix` is the longest prefix of `synced`; `Asked(t)` is the request of a
thread that is in the log and has not reached "done"; `Deferred(l)` looks for the
callback of commit `l` among the completed ones, then in either lock (argument of
a running `acquire()`, pending, or taken out by a `release()`). A callback that
drops out of all of these is a step the abstract log does not have, and so is an
answer that comes too early. A commit that finds itself durable in
`trx_flush_log_if_needed_low()` maps to a return. The refinement holds without
`Resizers` only, because of `log_sys_reopen` below. Liveness stays with
`CallsReturn` and `CallbacksRun`; the abstract specification has no fairness.

### TrxSys, MVCC

Every atomic access to `m_max_trx_id`, `m_rw_trx_hash_version`, the hash and
`rw_trx_hash_element_t::no` is an action. A rollback ends in the same commit
functions and is not distinguished. `walk[k]` is a snapshot in progress: the
argument of `copy_one_id()` (with `size`, since the code counts entries and not
distinct identifiers), and the elements still to be visited. An element that is
erased before it is reached is skipped. `Retry` is the `goto retry` of `l_find()`
in `mysys/lf_hash.cc`; each erased element gives a walk at most one.

Readers are transactions that only read (`m_creator_trx_id` is 0); those in
`Autocommit` may reuse a closed view. `Open` decides, `OpenSnapshot` and
`OpenReuse` set `m_open`. `HoldsMutex` is the view's `m_mutex`, which only the slow
path takes. The purge coordinator appends the readers' views one at a time.

The limits of a closed view are kept for `Autocommit` readers, whose `open()` looks
at them again, and dropped for the others.

A view also keeps, as history, what the registry forgets: `before`, the
transactions that had ended when its reader called `open()`, and `twice`, whether
its walk collected an identifier twice. No action reads them.

### BinlogCheckpoint

`pc[p]` and `me[p]` are the place and the local variables of a process: a
transaction's thread, a client that runs FLUSH BINARY LOGS or RESET MASTER, the
background thread of the binary log, and whoever flushes InnoDB's log. A binary
log file is its `binlog_id`; `written`, `synced` and `ckpt` say what is in it, on
disk, and in its last binlog checkpoint event. LOCK_log, LOCK_after_binlog_sync and
LOCK_commit_ordered are held over several steps and have an owner; a section under
LOCK_xid_list, LOCK_binlog_background_thread or `log_requests.mutex` is one action.
LOCK_index follows from the places (`IndexLocked`).

Transactions in `unlogs` belong to an engine without `commit_checkpoint_request()`:
its commit is durable and is counted by `unlog()`. The others belong to InnoDB,
whose log is a number: `lsn` appended, `flushed` on disk, `elsn[t]` the place of the
last record of `t`. A crash loses what is above `flushed` and turns a commit
there back into a prepared transaction. Purging deletes the oldest file in one
step; RESET MASTER replaces all files in one step once it is free to, so a crash
between the deletion of the files and that of the index is not covered.

Left out: failing writes, `sync_binlog` other than 1, a failed allocation of a
request, engines that answer requests besides InnoDB, and the truncation of the
binary log at recovery on a semi-synchronous replica.

### SemiSync

A report is three steps, as in the code: `report_binlog_update()` tests
`m_master_enabled` without LOCK_binlog and fills in `semisync_info`, which it may
fail to allocate (`AllocationFails`); `write_tranx_in_binlog()` inserts the position
under the mutex, after "the real check", or switches semi-sync off if it cannot
(`InsertFails`); and the leader publishes the transaction (`update_binlog_end_pos`),
whatever the report returned. LOCK_log is held throughout, so only one thread reports
at a time; a group is one transaction. `SET GLOBAL` can come between any two of the
steps. Two histories name the transactions that these steps leave untracked
although semi-sync is on: `failed`, and `since`, the last transaction whose report had
returned when semi-sync was enabled.

Everything under LOCK_binlog is one action, and the wait is four: falling asleep,
being woken, expiring, and having the mutex again (`Woken`, `TimedOut`), so that a
timeout can lose to or win against an acknowledgement, `disable_master()` and
other timeouts. A position is a number. `conn`, `recv` and `acks` are a replica's
connection, what it has received, and its acknowledgements on the way; those are
lost when the connection ends. `dump_start()` takes the mutex three times in the code
and is one step here, and the broadcast that follows the unlocking in
`report_reply_binlog()` is joined to it. The wait point is AFTER_COMMIT. `aborted`
is reached where the code's assertion in `switch_off()` would stop the server. A
commit that is no longer tracked (semi-sync was disabled and enabled while it
slept) may be released by its timeout only, so `TrackedSleeperWakes` speaks of
tracked ones.

### MDL

A lock has its set of granted tickets, its list of waiting ones, the bitmap and
counters of the latter and the count of strong locks granted in a row.
A call of `acquire_lock()` is cut where it releases `m_rwlock`: `Request`,
`will_wait_for`, the search, the wait, `done_waiting_for`, and `Fail`. The detector
walks one node per step (`StartSearch`, `ContinueSearch`) with the locks and
contexts on its path read-locked, which the other actions respect (`ReadLocked`,
`Visited`). Which node of a loop becomes the victim is left open, because the
weights depend on settings and on earlier searches. VICTIM, TIMEOUT and KILLED have
the same effect and are one value. The tables of compatibility are complete; an
instance picks its types.

## 3. What TLC checks

| Run | Instance | Shows |
|---|---|---|
| `group_commit` | 3 threads, 1 callback, values to 2 | `TypeOK`; `OneOwner`; `NothingTooEarly`: EXPIRED and callbacks only for reached numbers; `CallbackOnce`: each callback is in exactly one place until it has run; `NobodyStranded`: a free lock that is waited for has somebody bound to take it; `NoLostWakeup` |
| `log_sys` | 2 committers, 1 flusher, LSN to 2, cached writes | `DurableAcknowledged`: what was acknowledged survives a power failure; `ValuesBehindFile`; `AssertionsHold`: assertions of the code |
| `log_sys_live` | 2 threads that commit, flush the buffer and use `log_write_and_flush()`, LSN to 2, cached writes, fair | `CallsReturn`, `CallbacksRun`; `IgnoredReturnIsZero`: ignoring the result of `release()` in `log_write_and_flush()` is harmless; `ImplementsLog`: refinement of `LogDurability` |
| `log_sys_resize` | 2 threads, one reopens the file | `FileExclusive`, `WrittenAcknowledged`, `ValuesGrow` |
| `mvcc` | 3 transactions, identifiers to 4, 1 reader with reuse, 2 retries | `NoDirtyRead`; `CommittedVisibleOnce`: a view sees all that had ended before `open()`, if its walk met no identifier twice |
| `mvcc_purge` | 2 transactions, identifiers to 4, 1 reader, purge | `PurgeRespectsViews`, `PurgeViewOldest`, `PurgeOnlyEnded` |
| `binlog_checkpoint` | 2 transactions of either kind of engine, 3 files, 1 FLUSH LOGS or RESET MASTER, 1 crash | `RecoveryReadsUndecided`: a crash now would find every undecided transaction; `EngineAgreesWithBinlog`: recovery decides as the binary log says; `CheckpointsInOrder`; `EntryPinned`: the assertions on list entries; `CheckpointFilePresent`; `NothingLeftHanging`: no request unanswered and nobody stuck |
| `semisync` | 2 threads, 2 replicas, 2 transactions, 2 faults or SET GLOBAL, fair | `SleeperCovered`: no lost wake-up; `TrackedOrReceived`: catching up forgets nobody whose report succeeded since semi-sync was enabled; `SettledAtReturn`: a commit returns, unless it was killed, only when a replica has it or semi-sync is off, and is then forgotten as an assertion of the code says; `TrackedSleeperWakes`: tracked waits end without a timeout |
| `mdl` | 3 contexts (2 write rows, 1 alters), 2 tables, SW, SNW and X, limits reached and not, 1 vanished client | `NoConflictingGrants`; `TicketsMatch`: what a context believes to hold it holds; `NoUndetectedDeadlock`; `NoMissedGrant`; `VictimInDeadlock`: no victim without a deadlock, unless the search came to `MAX_SEARCH_DEPTH` |

Bounds. Three threads are the least with which an owner, a waiter and a thread
that arrives between unlocking and waking exist together, and two numbers
separate those a release covers from those it does not. Two LSNs give each of
two committers one, or let one commit again while the other still waits, and the
flusher may call any number of times. Three transactions and four identifiers allow one to end,
another to be serialised and a third to be active during one walk; two
transactions suffice for purge, where the one purged races the one that is
open. Two transactions are a leader with a member or two groups, one behind the
other in the chain of locks; three files are the one a checkpoint leaves, the one
it names and the one it is written to, and one of them may be created by the
restart. Two threads and two replicas separate the minimum of the wait positions
from the others and an acknowledgement of one replica from that of the other; two
events allow off and on again. Three contexts give loops of two and of three and
let two searches meet; `MAX_SEARCH_DEPTH` is 5, above the number of contexts, so
it is reached only by a search that goes round a loop its own context is not in.
A chain of waits that is longer than the limit and has no loop (33 connections with
the code's 32) does not fit in the instance; `VictimInDeadlock` excludes every
search that came to the limit.

Deadlock is checked except in `binlog_checkpoint` and `semisync`, where everything
stops once the bounds on transactions and events are used up (and where the
server may have aborted); there `NothingLeftHanging` and `TrackedSleeperWakes` say
what must have happened by then. In `LogSys` the action `Quiescent` says that a
state in which the bound on the LSN is used up and nobody is in the log is not
one. Symmetry is used in safety runs only.

Fairness. `log_sys_live` assumes weak fairness of `Continue(t)` for every thread:
a thread inside the log functions is not suspended for ever, which the operating
system's scheduler gives. Nothing is assumed about new requests. Weak fairness
is enough for the latch and the mutexes because the number of requests is
bounded; no claim is made about starvation by an endless stream of requests.
The loops of `log_write_and_flush_prepare()` retry as long as others move the LSN
between the request and the test; the bound on the LSN ends that too. The run
has no `Resizers`. `semisync` assumes weak fairness of each committing thread that
is not asleep, of each dump thread (a replica that lost its connection comes
back) and of the receiver; nothing makes a timeout, a kill, a fault or a
statement happen. `binlog_checkpoint` needs no fairness: every behaviour of the
instance is finite, and `NothingLeftHanging` is about its end.

Disagreements. Three runs are expected to fail. Each checks what a comment in the
code says.

* `log_sys_reopen`: after `set_write_through()` has switched `O_DSYNC` on,
  `log_t::flush()` no longer syncs the file, although writes made before the
  switch may only be in the cache of the operating system. They are declared
  durable. (`log0log.cc:404-426`, `886`.) For this reason `log_sys_resize` does not
  check `DurableAcknowledged`.
* `mvcc_reuse`: a view that is reused without `m_mutex` can be older than the purge
  view, against FACT C (`read0read.cc:130-143`). The comment at `224-227` considers
  the race and accepts it. For this reason `mvcc_purge` has no `Autocommit` reader.
* `mvcc_duplicates`: `snapshot()` counts entries of `m_ids` as if they were
  distinct, and `snapshot_ids()` says they need not be. A view can miss a
  transaction that had ended before it was opened. For this reason
  `CommittedVisibleOnce` in `mvcc` is about walks without duplicates, and
  `mvcc_purge` has no retries.

Other places where the code and its comments part are kept out of the properties
by a stated condition, or are states of the models that no property is about:

* `mark_xid_done()` removes the entry of a file from the list before the new
  checkpoint event is synced (`log.cc:11003`, `11007`), and `open()` may remove it
  earlier still (`4237`). A purge in that window can delete the file named by
  the last event on disk; after a crash recovery aborts for the missing file
  (`11992`), which the comment at `8177-8181` means to prevent.
  `CheckpointFilePresent` excludes the window.
* `acquire_lock()` treats a vanished client as a timeout without closing the wait
  slot (`mdl.cc:2407-2416`), unlike `timed_wait()`, whose comment at `1207` explains
  why the slot must be closed. A grant in between is undone as if the ticket were
  still waiting, and a type that nobody waits for stays in the bitmap.
  `NoMissedGrant` excludes instances with a vanished client.
* When `max_write_lock_count` is reached, a strong request that nothing blocks any
  more can be passed over and then waits for nobody (`mdl.cc:1316`).
  `NoMissedGrant` is about the limit not being reached, as by default.
* A search for deadlocks that comes to `MAX_SEARCH_DEPTH` declares a deadlock "even if
  we have not found a loop" (`mdl.cc:222-234`). `VictimInDeadlock` is about searches
  that stay below it.
* The comment at `log.cc:8974-8978` has the transaction in the list of semi-sync
  before a dump thread can send it. Two transactions are published and not in the
  list while semi-sync is on: one whose `semisync_info` could not be allocated
  (`semisync_master.cc:762`; the commit fails, and `binlog_end_pos` moves on all the
  same), and one whose report had returned, or had found semi-sync disabled, when
  `enable_master()` ran. `TrackedOrReceived` excludes both.
* If semi-sync is disabled before `wait_after_commit()`, the coordinates stay in
  `semisync_info`, and a later commit of the connection that did not fill them in
  waits for the old ones (`semisync_master.cc:736`). `SettledAtReturn` speaks of the
  coordinates a thread has.
* A thread whose wait has expired can get LOCK_binlog after `disable_master()`, and
  `switch_off()` then fails its assertion (`semisync_master.cc:1007`).
* A snapshot is not what "exactly the transactions serialized before this point
  in time" left (`read0read.cc:168`): a walk can collect T1 as active and miss T2
  although T1 had ended before T2 drew its number.

One comment is only imprecise: `log0sync.h:46-47` says that `ACQUIRED` means the
value is below `num`. An elected leader whose number was reached meanwhile takes
the lock all the same, and has to, since nobody else would.

## 4. What is proved

The theorems hold for all values of the constants that satisfy the assumptions
below: any number of threads, transactions, readers and replicas, and any bounds.

| Theorem | Module | States |
|---|---|---|
| `TypeCorrect` | `GroupCommitProofs` | `Spec => []TypeOK` |
| `MutualExclusion` | | `Spec => []OneOwner` |
| `NeverTooEarly` | | `Spec => []NothingTooEarly` |
| `WakeupsExact` | | `Spec => []NoLostWakeup` |
| `NeverStranded` | | `Spec => []NobodyStranded` |
| `CallbacksRunOnce` | | `Spec => []CallbackOnce` |
| `LogTypeCorrect` | `LogSysProofs` | `Spec => []TypeOK` |
| `ValuesNeverAhead` | | `Spec => []ValuesBehindFile` |
| `NoAssertionFails` | | `Spec => []AssertionsHold` |
| `OneWriter` | | `Spec => []FileExclusive` |
| `WrittenBeforeAnswer` | | `Spec => []WrittenAcknowledged` |
| `NothingIgnored` | | `Spec => []IgnoredReturnIsZero` |
| `NothingTakenBack` | | `Spec => ValuesGrow` |
| `DurableWhenAnswered` | | `Resizers = {}` implies `Spec => []DurableAcknowledged` |
| `MVCCTypeCorrect` | `MVCCProofs` | `Spec => []TypeOK` |
| `NoDirtyReads` | | `Spec => []NoDirtyRead` |
| `CommittedSeen` | | `Spec => []CommittedVisibleOnce` |
| `PurgeLeavesRunning` | | `Spec => []PurgeOnlyEnded` |
| `PurgeKeepsViews` | | `Autocommit = {}` and `MaxRetry = 0` imply `Spec => []PurgeRespectsViews` |
| `PurgeViewIsOldest` | | the same for `PurgeViewOldest` |
| `NoSleeperForgotten` | `SemiSyncProofs` | `Spec => []SleeperCovered` |
| `NoTransactionForgotten` | | `Spec => []TrackedOrReceived` |
| `CommitSettled` | | `Spec => SettledAtReturn` |
| `MDLTypeCorrect` | `MDLProofs` | `Spec => []TypeOK` |
| `GrantsCompatible` | | `Spec => []NoConflictingGrants` |
| `TicketsAgree` | | `Spec => []TicketsMatch` |
| `NobodyOverlooked` | `MDLWaitProofs` | `Spec => []NoMissedGrant` |

Assumptions. `CallbackAssumption`, `MaxValueAssumption`: `NoCallback` and `Dummy` are
no real callbacks, `MaxValue` is a natural number. `LogSysAssumption`: the same of
the callbacks of commits, `MaxLsn` is a natural number and `NoThread` no thread.
`TrxSysAssumption`, `MVCCAssumption`: finitely many transactions, autocommit readers
are readers, purgers are not. `BoundsAssumption`, `ThreadsAssumption` of `SemiSync`:
the bounds are natural numbers, finitely many threads commit. `MDLAssumption`: the types
are among those of object locks, the bounds are natural numbers, a search may visit at
least one node, and `max_write_lock_count` is not zero. The three theorems
with a condition of their own exclude exactly what the runs `log_sys_reopen`,
`mvcc_reuse` and `mvcc_duplicates` show to be false.

### The group commit lock

`TypeOK` and `OneOwner` are inductive (the second with the first): only
`AcquireLock` sets `m_lock`, and only if it is clear; `StepLock` says what the steps
inside the lock do to `m_lock` and to the threads at `ACQUIRED`.

`NothingTooEarly` needs that the value only grows, which is the guard of the
client on `release()`, and that a release hands out only callbacks it covers.

`NoLostWakeup` is not inductive: nothing in it says that the threads in a
`wakeup_list` are asleep, or that a thread is in one such list only. The invariant
`SleepInv` says so. `NobodyStranded` builds on it: the leader that `Release` elects
is asleep and outside the list, so it stays responsible while it is woken and
tests again, until it takes the lock or finds that another thread has.

`CallbackOnce` counts the places of a callback. `CallbackInv` says the same without
cardinalities: an issued callback is somewhere, there are no two of it in places of
one kind, nor in places of two kinds, and the array of a `release()` is empty
outside the part that walks it. Each move of a callback (handed over, queued, erased,
run) is a lemma.

### The redo log

`GroupCommitProofs` says what a user of a lock can rely on, whatever it does:
`LockOK`, and for each of the calls and steps what it does to the frame of the
caller, the value and the queued callbacks. `LogSysLemmas` assumes
this of `write_lock` and `flush_lock` (`LocksDo`), and `LogSysProofs` discharges the
assumption with two instances of `GroupCommitProofs`.

`LogInv` is the invariant. For each thread it says that its frames in the two locks go
with its place in the log functions (`WritePlace`, `FlushPlace`: who writes owns
`write_lock`, who syncs owns `flush_lock`, who reopens owns both), which function it is
in (`JobOK`), what it asked of the locks (`CallOK`), how far it has got and which
number it is about to publish (`ProgressOK`), and that its request is met or still
being worked for (`AnswerOK`). `Others(t)` says all that a step of thread `t` may do to
what other threads rely on: `write_lsn` and the value of `write_lock` change only in
the hands of the owner of that lock, and `lsn` only while nobody else has the latch.
Every action is shown to keep `LogInv` and to satisfy `Others`, which gives the action
property `ValuesGrow` as well.

`IgnoredReturnIsZero` follows from the latch: while `log_write_and_flush()` keeps it,
`lsn` stands still and is the number published, and no queued callback has a number
beyond `lsn`, so that `release()` leaves none over. `DurableAcknowledged` needs `SyncInv`
besides: what is declared flushed is synced, and with `O_DSYNC` all that is written.

### Read views and purge

`MVCCInv` has three parts. The registry: `m_rw_trx_hash_version` lags behind
`m_max_trx_id` by the transactions between drawing a number and refreshing the
version, so equality means that nobody is in between. A walk (`WalkOK`): therefore
every running transaction below its limit was in the hash when it started, and is
collected or still to be visited. A view (`ViewOK`): it sees no running transaction,
and whatever it does not see has, or will have, no serialisation number below its
`low_limit_no`. `BeforeSeen` carries what had ended before `open()` through the walk.
`PurgeInv` adds that a reader past which the purge coordinator has gone sees what the
view of purge sees, and what was purged.

### Semi-synchronous replication

`SemiSyncInv` joins `SleeperCovered` and `TrackedOrReceived` with what they rest on: a
master that is off tracks nothing; one thread at a time is between its report and its
publication; `m_commit_file_pos` is not before any position reported since semi-sync
was enabled, so that a reply that switches it on again is for all of them;
acknowledgements are for what was received; and the reply position is below all that
is tracked.

### Metadata locks

None of the properties says where the ticket of a call in progress is. `MDLInv` does: a
pending ticket is in one of the two lists of its lock, and the wait slot of its context
tells in which (`TicketOK`), so a context that leaves its wait knows from the slot
whether to take the ticket over or to remove it. Besides, no ticket waits twice, and the
granted tickets are compatible. What `reschedule_waiters()` does is shown round by round,
by well-founded induction over the natural numbers (`RoundsSince`): it moves tickets from
the waiting to the granted list, each with the slot of its context, and no other way.
Releases and downgrades are one case (`Drops`): a ticket is removed or replaced by a
weaker one.

`NoMissedGrant` needs `WaitInv`: the counters and the bitmap say exactly which types
wait, and every ticket that waits with an open slot is obstructed
(`can_grant_lock()` refuses it). `RoundsPass` shows that a ticket that was passed over in
a round stays obstructed by the later ones: what is granted after it leaves the bitmap
only to be in the granted list, and whatever obstructs from the waiting list also
obstructs from the granted one.

### Only model-checked

`ImplementsLog`, the refinement of `LogDurability`; everything about
`BinlogCheckpoint`; `NoUndetectedDeadlock` and `VictimInDeadlock` of `MDL`. Liveness (`CallsReturn`, `CallbacksRun`, `TrackedSleeperWakes`, and `NothingLeftHanging`, which is
about states without successors) stays with TLC, because neither fairness nor
ENABLED is in reach of the proof system.

## 5. Not modelled

See `PROJECT.json` for all parts. Within the modelled files: the contents and
encryption of the log, its resizing into another file, checkpoints, persistent
memory, recovery, the purge queue and its workers, `end_view`, truncation of
undo logs, implicit locks and references to transactions (`find()`), views of
read-write transactions; errors in writing the binary log, its caches and the
contents of events, `wait_for_prior_commit()`, user XA transactions and
`TC_LOG_MMAP`; the wait point AFTER_SYNC and RESET MASTER in semi-synchronous
replication; scoped and backup metadata locks, lists of requests, cloned
tickets, durations, and the weights of victims. The remaining components are
listed with their reasons; most of the repository's lines are sequential code
over data (parser, optimizer, items, page formats, adapters, tools), of which a
bounded model would say little. Memory is sequentially consistent in the models; the
code's acquire and release orders are taken to provide that for the accesses
that matter.

## 6. Plan

1. `LogDurability` in place of the `lsn` and `flushed` of `BinlogCheckpoint`.
2. `wait_for_prior_commit()` of parallel replication and the order of the binary
   log's queue.
3. `LockFreeHash` and the pins of `lf_alloc-pin.c`: insertion, deletion, the walk;
   then the abstract walk of `MVCC` as its consequence.
4. `SsuxLock`: `srw_mutex` and `ssux_lock` with their futexes.
5. Purge queue and rollback segments; checkpoints and write-ahead logging.
6. Thread pool library, table locks, table cache, Aria's `trnman`.

Proofs, in this order: the refinement of `LogDurability`, on top of `LogInv` and
`CallbackInv`; the counts of `binlog_xid_count_list` in `BinlogCheckpoint`, then
`RecoveryReadsUndecided`.

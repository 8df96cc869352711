-------------------------- MODULE BinlogCheckpoint --------------------------
(***************************************************************************)
(* The binary log as transaction coordinator (src/sql/log.cc) composed with *)
(* the commit checkpoints of InnoDB (storage/innobase/handler/ha_innodb.cc).*)
(*                                                                         *)
(* A transaction is prepared in its engine, written to the binary log by   *)
(* the leader of its group, and only then committed in the engine, without *)
(* forcing that commit to disk.  After a crash, recovery commits what it   *)
(* finds both prepared and in the binary log.  It scans the files from the *)
(* one the last binlog checkpoint event names, so a file may be left out   *)
(* of the scan, and purged, only when the engines hold all its commits on  *)
(* disk.  binlog_xid_count_list counts what is outstanding in each file.   *)
(*                                                                         *)
(* A binary log file is its binlog_id.  sync_binlog and                    *)
(* innodb_flush_log_at_trx_commit are 1; writing a file does not fail.     *)
(***************************************************************************)
EXTENDS Naturals, Sequences, FiniteSets, SequencesExt, FiniteSetsExt

CONSTANTS
    Trx,        \* transactions, each run by a thread of its own
    MaxFile,    \* bound: binary log files ever created
    MaxAdmin,   \* bound: FLUSH LOGS and RESET MASTER statements
    MaxCrash    \* bound: crashes

ASSUME BoundsAssumption ==
    /\ IsFiniteSet(Trx)
    /\ {MaxFile, MaxAdmin, MaxCrash} \subseteq Nat
    /\ MaxFile > 0

Admin == "admin"    \* a client running FLUSH BINARY LOGS or RESET MASTER
Bg    == "bg"       \* binlog_background_thread
Flush == "flush"    \* whoever holds flush_lock in log_write_up_to()
None  == "none"     \* no holder of a mutex

Procs  == Trx \union {Admin, Bg, Flush}
Files  == 1 .. MaxFile

VARIABLES
    pc,         \* where each process is
    me,         \* its local variables
    group,      \* leader -> members whose commit_ordered() is still to run
    lock,       \* the holders of LOCK_log, LOCK_after_binlog_sync, LOCK_commit_ordered
    list,       \* binlog_xid_count_list, by binlog_id
    xid_count,  \* its xid_count fields
    current,    \* current_binlog_id
    waiting,    \* mark_xid_done_waiting
    resetting,  \* reset_master_pending
    queue,      \* binlog_background_thread_queue, 0 is NULL
    next,       \* the next_in_queue fields
    notify,     \* the notify_count fields
    requests,   \* log_requests of ha_innodb.cc, a sequence of [lsn, cookie]
    lsn,        \* log_sys.lsn
    flushed,    \* log_sys.flushed_to_disk_lsn
    engine,     \* transaction -> its state in its engine
    elsn,       \* the LSN that state was written at, 0 when it is on disk
    unlogs,     \* transactions of engines without commit_checkpoint_request()
    written,    \* file -> transactions written to it
    synced,     \* file -> transactions in it on disk
    ckpt,       \* file -> its last binlog checkpoint event, 0 when none
    index,      \* the files in the index file
    server,     \* "up", "recovery", or "aborted"
    admins, crashes

xidVars  == <<list, xid_count, current, waiting, resetting>>
bgVars   == <<queue, next, notify>>
redoVars == <<requests, lsn, flushed, engine, elsn, unlogs>>
fileVars == <<written, synced, ckpt, index>>
runVars  == <<server, admins, crashes>>
vars == <<pc, me, group, lock, xidVars, bgVars, redoVars, fileVars, runVars>>

\* Local variables: id is the binlog_id argument, name the file a checkpoint
\* event is to name, rotated is check_purge, seen the flush_lsn and want the
\* lsn of a log flush request, todo the detached cookies to notify, n the
\* notifications the background thread has to count, rest its queue, and ret
\* where the process goes on.
Fresh == [id |-> 0, name |-> 0, rotated |-> FALSE, seen |-> 0, want |-> 0,
          todo |-> <<>>, n |-> 0, rest |-> 0, ret |-> ""]

Init ==
    /\ pc = [p \in Procs |-> "idle"]
    /\ me = [p \in Procs |-> Fresh]
    /\ group = [t \in Trx |-> {}]
    /\ lock = [l \in {"log", "sync", "commit"} |-> None]
    /\ list = <<1>>
    /\ xid_count = [f \in Files |-> 0]
    /\ current = 1
    /\ waiting = 0
    /\ resetting = 0
    /\ queue = 0
    /\ next = [f \in Files |-> 0]
    /\ notify = [f \in Files |-> 0]
    /\ requests = <<>>
    /\ lsn = 0
    /\ flushed = 0
    /\ engine = [t \in Trx |-> "active"]
    /\ elsn = [t \in Trx |-> 0]
    /\ unlogs \in SUBSET Trx
    /\ written = [f \in Files |-> {}]
    /\ synced = [f \in Files |-> {}]
    /\ ckpt = [f \in Files |-> IF f = 1 THEN 1 ELSE 0]
    /\ index = {1}
    /\ server = "up"
    /\ admins = 0
    /\ crashes = 0

Goto(p, l) == pc' = [pc EXCEPT ![p] = l]
Free(l)    == lock[l] = None
Take(l, p) == lock' = [lock EXCEPT ![l] = p]
Pass(l, m, p) == lock' = [lock EXCEPT ![l] = None, ![m] = p]
Drop(l)    == lock' = [lock EXCEPT ![l] = None]

----------------------------------------------------------------------------
(* Two-phase commit and the group commit leader.                           *)

\* The prepare step of the engine.  InnoDB appends it to its log and waits
\* for the log to be flushed; the others write it durably themselves.
Prepare(t) ==
    /\ server = "up" /\ pc[t] = "idle"
    /\ Goto(t, "prepared")
    /\ engine' = [engine EXCEPT ![t] = "prepared"]
    /\ IF t \in unlogs
       THEN UNCHANGED <<lsn, elsn>>
       ELSE lsn' = lsn + 1 /\ elsn' = [elsn EXCEPT ![t] = lsn + 1]
    /\ UNCHANGED <<me, group, lock, xidVars, bgVars, requests, flushed, unlogs,
                   fileVars, runVars>>

Queued == {t \in Trx : pc[t] \in {"lead", "queued"}}

\* queue_for_group_commit(): the first in the queue leads.
queue_for_group_commit(t) ==
    /\ pc[t] = "prepared" /\ elsn[t] <= flushed
    /\ Goto(t, IF Queued = {} THEN "lead" ELSE "queued")
    /\ UNCHANGED <<me, group, lock, xidVars, bgVars, redoVars, fileVars, runVars>>

\* trx_group_commit_leader(), the writes under LOCK_log.
LeaderWrite(t) ==
    /\ pc[t] = "lead" /\ Free("log")
    /\ Take("log", t)
    /\ group' = [group EXCEPT ![t] = Queued]
    /\ written' = [written EXCEPT ![current] = @ \union Queued]
    /\ pc' = [u \in Procs |-> IF u = t THEN "written"
                              ELSE IF u \in Queued THEN "member" ELSE pc[u]]
    /\ me' = [u \in Procs |-> IF u \in Queued THEN [Fresh EXCEPT !.id = current]
                              ELSE me[u]]
    /\ UNCHANGED <<xidVars, bgVars, redoVars, synced, ckpt, index, runVars>>

\* Room for one more file beside those being created.
MayRotate ==
    LET creating == {p \in Procs : pc[p] \in {"open", "create", "link"}}
    IN  current + Cardinality(creating) + resetting < MaxFile

\* The rest under LOCK_log: flush_and_sync(), mark_xids_active() for the
\* members that unlog() themselves, and rotate() when the file is large enough.
LeaderSync(t, rotate) ==
    /\ pc[t] = "written"
    /\ rotate => MayRotate
    /\ synced' = [synced EXCEPT ![current] = @ \union group[t]]
    /\ xid_count' = [xid_count EXCEPT ![current] =
                        @ + Cardinality(group[t] \intersect unlogs)
                          + (IF rotate THEN 1 ELSE 0)]
    /\ me' = [me EXCEPT ![t].rotated = rotate]
    /\ Goto(t, IF rotate THEN "open" ELSE "rotated")
    /\ UNCHANGED <<group, lock, list, current, waiting, resetting, bgVars,
                   redoVars, written, ckpt, index, runVars>>

\* LOCK_after_binlog_sync is taken before LOCK_log is released, so groups
\* keep their order; FLUSH LOGS joins the same chain.
AfterSync(p) ==
    /\ pc[p] = "rotated" /\ Free("sync")
    /\ Pass("log", "sync", p)
    /\ Goto(p, "after_sync")
    /\ UNCHANGED <<me, group, xidVars, bgVars, redoVars, fileVars, runVars>>

LeaderOrdered(t) ==
    /\ pc[t] = "after_sync" /\ t \in Trx /\ Free("commit")
    /\ Pass("sync", "commit", t)
    /\ Goto(t, "ordered")
    /\ UNCHANGED <<me, group, xidVars, bgVars, redoVars, fileVars, runVars>>

\* Where a committed transaction goes on: InnoDB has nothing left to do in
\* commit(), an engine without commit_checkpoint_request() has.
Commits(t) == IF t \in unlogs THEN "engine" ELSE "done"

\* run_commit_ordered() for one member, in the leader's thread, and its wakeup.
\* InnoDB appends the commit to its log and does not flush it.  After the last
\* one LOCK_commit_ordered is released, and after a rotation
\* checkpoint_and_purge() follows.
CommitOrdered(t, u) ==
    LET last == group[t] = {u}
    IN  /\ pc[t] = "ordered" /\ u \in group[t]
        /\ group' = [group EXCEPT ![t] = @ \ {u}]
        /\ pc' = [p \in Procs |->
                     IF p = t /\ last
                     THEN IF me[t].rotated THEN "request" ELSE Commits(t)
                     ELSE IF p = u /\ u # t THEN Commits(u) ELSE pc[p]]
        /\ me' = [p \in Procs |->
                     IF p = t /\ last /\ me[t].rotated
                     THEN [me[p] EXCEPT !.ret = Commits(p)]
                     ELSE IF p \in {t, u} /\ Commits(p) = "done" /\ (p = t => last)
                     THEN Fresh ELSE me[p]]
        /\ IF last THEN Drop("commit") ELSE UNCHANGED lock
        /\ IF u \in unlogs
           THEN UNCHANGED <<lsn, engine, elsn>>
           ELSE /\ lsn' = lsn + 1
                /\ engine' = [engine EXCEPT ![u] = "committed"]
                /\ elsn' = [elsn EXCEPT ![u] = lsn + 1]
        /\ UNCHANGED <<xidVars, bgVars, requests, flushed, unlogs, fileVars,
                       runVars>>

\* commit() of an engine without commit_checkpoint_request() is durable, and
\* unlog() follows.
EngineCommit(t) ==
    /\ pc[t] = "engine"
    /\ engine' = [engine EXCEPT ![t] = "committed"]
    /\ me' = [me EXCEPT ![t].ret = "done"]
    /\ Goto(t, "mark")
    /\ UNCHANGED <<group, lock, xidVars, bgVars, requests, lsn, flushed, elsn,
                   unlogs, fileVars, runVars>>

----------------------------------------------------------------------------
(* rotate(): new_file_without_locking() and MYSQL_BIN_LOG::open().         *)

\* Mutant: the file is not pinned by mark_xids_active(binlog_id, 1).
FlushLogs_NotPinned ==
    /\ server = "up" /\ pc[Admin] = "idle" /\ admins < MaxAdmin
    /\ Free("log") /\ MayRotate
    /\ Take("log", Admin)
    /\ UNCHANGED xid_count
    /\ me' = [me EXCEPT ![Admin] = [Fresh EXCEPT !.id = current]]
    /\ Goto(Admin, "open")
    /\ admins' = admins + 1
    /\ UNCHANGED <<group, list, current, waiting, resetting, bgVars, redoVars,
                   fileVars, server, crashes>>

\* FLUSH BINARY LOGS: rotate_and_purge(true) up to the new file.
FlushLogs ==
    /\ server = "up" /\ pc[Admin] = "idle" /\ admins < MaxAdmin
    /\ Free("log") /\ MayRotate
    /\ Take("log", Admin)
    /\ xid_count' = [xid_count EXCEPT ![current] = @ + 1]
    /\ me' = [me EXCEPT ![Admin] = [Fresh EXCEPT !.id = current]]
    /\ Goto(Admin, "open")
    /\ admins' = admins + 1
    /\ UNCHANGED <<group, list, current, waiting, resetting, bgVars, redoVars,
                   fileVars, server, crashes>>

\* The name in the initial checkpoint event of a new file: the first file with
\* something outstanding, and the new file itself when there is none.
InitialCheckpoint(new) ==
    Min({new} \union {f \in Range(list) : xid_count[f] # 0})

\* open() reads the list under LOCK_xid_list and releases it.
OpenScan(p) ==
    /\ pc[p] = "open"
    /\ me' = [me EXCEPT ![p].name = InitialCheckpoint(current + 1)]
    /\ Goto(p, "create")
    /\ UNCHANGED <<group, lock, xidVars, bgVars, redoVars, fileVars, runVars>>

\* It syncs the new file with that event in it, takes LOCK_commit_ordered for a
\* moment, and syncs the index file.
OpenCreate(p) ==
    /\ pc[p] = "create" /\ Free("commit")
    /\ ckpt' = [ckpt EXCEPT ![current + 1] = me[p].name]
    /\ index' = index \union {current + 1}
    /\ Goto(p, "link")
    /\ UNCHANGED <<me, group, lock, xidVars, bgVars, redoVars, written, synced,
                   runVars>>

\* The list without its initial entries that have nothing outstanding, except
\* those to keep.
DropIdle(keep) ==
    LET kept == {i \in 1 .. Len(list) : list[i] \in keep \/ xid_count[list[i]] > 0}
    IN  SubSeq(list, Min(kept \union {Len(list) + 1}), Len(list))

\* It links the new entry in and drops the initial ones with nothing pending.
OpenLink(p) ==
    /\ pc[p] = "link"
    /\ current' = current + 1
    /\ list' = Append(DropIdle({}), current + 1)
    /\ Goto(p, "rotated")
    /\ me' = [me EXCEPT ![p].name = 0]
    /\ UNCHANGED <<group, lock, xid_count, waiting, resetting, bgVars,
                   redoVars, fileVars, runVars>>

\* Mutant: the checkpoint is requested without waiting for LOCK_commit_ordered.
FlushLogsOrdered_NoWait ==
    /\ pc[Admin] = "after_sync"
    /\ Drop("sync")
    /\ Goto(Admin, "request")
    /\ me' = [me EXCEPT ![Admin].ret = "idle"]
    /\ UNCHANGED <<group, xidVars, bgVars, redoVars, fileVars, runVars>>

\* rotate_and_purge() waits for the groups ahead of it before it asks for the
\* checkpoint.
FlushLogsOrdered ==
    /\ pc[Admin] = "after_sync" /\ Free("commit")
    /\ Drop("sync")
    /\ Goto(Admin, "request")
    /\ me' = [me EXCEPT ![Admin].ret = "idle"]
    /\ UNCHANGED <<group, xidVars, bgVars, redoVars, fileVars, runVars>>

----------------------------------------------------------------------------
(* do_checkpoint_request() and innodb_log_flush_request().                 *)

\* binlog_checkpoint_callback() counts the request; InnoDB reads flush_lsn.
CheckpointRequest(p) ==
    /\ pc[p] = "request"
    /\ xid_count' = [xid_count EXCEPT ![me[p].id] = @ + 1]
    /\ me' = [me EXCEPT ![p].seen = flushed]
    /\ Goto(p, "read_lsn")
    /\ UNCHANGED <<group, lock, list, current, waiting, resetting, bgVars,
                   redoVars, fileVars, runVars>>

\* The head of the list that is persistent up to l, whose cookies are notified
\* after log_requests.mutex is released.
Persistent(s, l) ==
    LET more == {i \in 1 .. Len(s) : s[i].lsn > l}
    IN  IF more = {} THEN Len(s) ELSE Min(more) - 1
Cookies(s, k) == [i \in 1 .. k |-> s[i].cookie]

\* log_flush_notify(): detach the completed head of the list.
Detach(s, l) == requests' = SubSeq(s, Persistent(s, l) + 1, Len(s))

\* All log persistent: notify the older requests, and this one at once.
RequestPersistent(p) ==
    /\ pc[p] = "read_lsn" /\ me[p].seen >= lsn
    /\ Detach(requests, me[p].seen)
    /\ me' = [me EXCEPT ![p].seen = 0, ![p].todo =
                 Append(Cookies(requests, Persistent(requests, me[p].seen)), me[p].id)]
    /\ Goto(p, "notify")
    /\ UNCHANGED <<group, lock, xidVars, bgVars, lsn, flushed, engine, elsn,
                   unlogs, fileVars, runVars>>

\* Otherwise the request is for the LSN it reads now.
RequestLsn(p) ==
    /\ pc[p] = "read_lsn" /\ me[p].seen < lsn
    /\ me' = [me EXCEPT ![p].want = lsn]
    /\ Goto(p, "enqueue")
    /\ UNCHANGED <<group, lock, xidVars, bgVars, redoVars, fileVars, runVars>>

\* Mutant: flush_lsn is not read again.
RequestEnqueue_Stale(p) ==
    LET all == Append(requests, [lsn |-> me[p].want, cookie |-> me[p].id])
        l   == me[p].seen
    IN  /\ pc[p] = "enqueue"
        /\ Detach(all, l)
        /\ me' = [me EXCEPT ![p].seen = 0, ![p].want = 0,
                            ![p].todo = Cookies(all, Persistent(all, l))]
        /\ Goto(p, IF Persistent(all, l) = 0 THEN "mark" ELSE "notify")
        /\ UNCHANGED <<group, lock, xidVars, bgVars, lsn, flushed, engine, elsn,
                       unlogs, fileVars, runVars>>

\* Under log_requests.mutex: the first request of the list reads flush_lsn
\* again, and whatever is persistent by then is detached.
RequestEnqueue(p) ==
    LET all == Append(requests, [lsn |-> me[p].want, cookie |-> me[p].id])
        l   == IF requests = <<>> THEN flushed ELSE me[p].seen
    IN  /\ pc[p] = "enqueue"
        /\ Detach(all, l)
        /\ me' = [me EXCEPT ![p].seen = 0, ![p].want = 0,
                            ![p].todo = Cookies(all, Persistent(all, l))]
        /\ Goto(p, IF Persistent(all, l) = 0 THEN "mark" ELSE "notify")
        /\ UNCHANGED <<group, lock, xidVars, bgVars, lsn, flushed, engine, elsn,
                       unlogs, fileVars, runVars>>

\* log_t::flush(): the log is durable up to some LSN written before.
FlushLog(l) ==
    /\ server = "up" /\ pc[Flush] = "idle"
    /\ l \in flushed + 1 .. lsn
    /\ flushed' = l
    /\ me' = [me EXCEPT ![Flush].seen = l]
    /\ Goto(Flush, "detach")
    /\ UNCHANGED <<group, lock, xidVars, bgVars, requests, lsn, engine, elsn,
                   unlogs, fileVars, runVars>>

\* ... and its log_flush_notify().
FlushDetach ==
    LET k == Persistent(requests, me[Flush].seen)
    IN  /\ pc[Flush] = "detach"
        /\ Detach(requests, me[Flush].seen)
        /\ me' = [me EXCEPT ![Flush].seen = 0, ![Flush].todo = Cookies(requests, k)]
        /\ Goto(Flush, IF k = 0 THEN "idle" ELSE "notify")
        /\ UNCHANGED <<group, lock, xidVars, bgVars, lsn, flushed, engine, elsn,
                       unlogs, fileVars, runVars>>

\* The entries reachable from the background thread's queue.
InQueue == LET RangeFrom[k \in 0 .. MaxFile, f \in 0 .. MaxFile] ==
                   IF k = 0 \/ f = 0 THEN {}
                   ELSE {f} \union RangeFrom[k - 1, next[f]]
           IN  RangeFrom[MaxFile, queue]

\* commit_checkpoint_notify() of the next detached cookie.
Notify(p) ==
    LET f == Head(me[p].todo)
    IN  /\ pc[p] = "notify"
        /\ IF f \in InQueue
           THEN notify' = [notify EXCEPT ![f] = @ + 1] /\ UNCHANGED <<queue, next>>
           ELSE queue' = f /\ next' = [next EXCEPT ![f] = queue] /\ UNCHANGED notify
        /\ me' = [me EXCEPT ![p].todo = Tail(@)]
        /\ IF Len(me[p].todo) > 1 THEN UNCHANGED pc
           ELSE Goto(p, IF p = Flush THEN "idle" ELSE "mark")
        /\ UNCHANGED <<group, lock, xidVars, redoVars, fileVars, runVars>>

----------------------------------------------------------------------------
(* mark_xid_done() and the background thread.                              *)

\* The file is the oldest in the list, is not the active one and has nothing
\* outstanding any more.
Completes(f) == f # current /\ xid_count[f] = 1 /\ Head(list) = f

\* The caller goes on; its local variables are dead when that is the end.
Return(p) ==
    /\ Goto(p, me[p].ret)
    /\ me' = [me EXCEPT ![p] = IF me[p].ret \in {"idle", "done", "reset_wait"}
                               THEN Fresh ELSE [@ EXCEPT !.name = 0]]

\* Count down under LOCK_xid_list; LOCK_log is needed to log a checkpoint.
MarkXidDone(p) ==
    LET f == me[p].id
        more == resetting = 0 /\ Completes(f)
    IN  /\ pc[p] = "mark"
        /\ xid_count' = [xid_count EXCEPT ![f] = @ - 1]
        /\ waiting' = IF more THEN waiting + 1 ELSE waiting
        /\ IF more THEN Goto(p, "lock_log") /\ UNCHANGED me ELSE Return(p)
        /\ UNCHANGED <<group, lock, list, current, resetting, bgVars,
                       redoVars, fileVars, runVars>>

\* Mutant: the name is that of the file after the completed one, not the head
\* of the list as it is with both locks.
MarkRemove_Next(p) ==
    /\ pc[p] = "lock_log" /\ Free("log")
    /\ Take("log", p)
    /\ waiting' = waiting - 1
    /\ list' = DropIdle({current})
    /\ me' = [me EXCEPT ![p].name = me[p].id + 1]
    /\ Goto(p, "checkpoint")
    /\ UNCHANGED <<group, xid_count, current, resetting, bgVars, redoVars,
                   fileVars, runVars>>

\* With both locks: drop what has completed in the meantime.
MarkRemove(p) ==
    /\ pc[p] = "lock_log" /\ Free("log")
    /\ Take("log", p)
    /\ waiting' = waiting - 1
    /\ list' = DropIdle({current})
    /\ me' = [me EXCEPT ![p].name = Head(DropIdle({current}))]
    /\ Goto(p, "checkpoint")
    /\ UNCHANGED <<group, xid_count, current, resetting, bgVars, redoVars,
                   fileVars, runVars>>

\* write_binlog_checkpoint_event_already_locked() writes and syncs the event,
\* then takes LOCK_commit_ordered for a moment.
MarkCheckpoint(p) ==
    /\ pc[p] = "checkpoint"
    /\ ckpt' = [ckpt EXCEPT ![current] = me[p].name]
    /\ Goto(p, "end_pos")
    /\ UNCHANGED <<me, group, lock, xidVars, bgVars, redoVars, written, synced,
                   index, runVars>>

MarkEnd(p) ==
    /\ pc[p] = "end_pos" /\ Free("commit")
    /\ Drop("log")
    /\ Return(p)
    /\ UNCHANGED <<group, xidVars, bgVars, redoVars, fileVars, runVars>>

\* binlog_background_thread(): grab the queue.
BgGrab ==
    /\ pc[Bg] = "idle" /\ queue # 0
    /\ queue' = 0
    /\ me' = [me EXCEPT ![Bg] = [Fresh EXCEPT !.rest = queue]]
    /\ Goto(Bg, "next")
    /\ UNCHANGED <<group, lock, xidVars, next, notify, redoVars, fileVars, runVars>>

\* Take the next element of the grabbed queue and the count of its
\* notifications.
BgNext ==
    LET f == me[Bg].rest
    IN  /\ pc[Bg] = "next"
        /\ notify' = [notify EXCEPT ![f] = 0]
        /\ me' = [me EXCEPT ![Bg] = [Fresh EXCEPT !.id = f, !.rest = next[f],
                                                  !.n = notify[f], !.ret = "counted"]]
        /\ Goto(Bg, "mark")
        /\ UNCHANGED <<group, lock, xidVars, queue, next, redoVars, fileVars,
                       runVars>>

\* mark_xid_done() once for every notification of the element, then the next
\* one, if any.
BgCounted ==
    /\ pc[Bg] = "counted"
    /\ IF me[Bg].n > 0
       THEN me' = [me EXCEPT ![Bg].n = @ - 1] /\ Goto(Bg, "mark")
       ELSE IF me[Bg].rest # 0
       THEN UNCHANGED me /\ Goto(Bg, "next")
       ELSE me' = [me EXCEPT ![Bg] = Fresh] /\ Goto(Bg, "idle")
    /\ UNCHANGED <<group, lock, xidVars, bgVars, redoVars, fileVars, runVars>>

----------------------------------------------------------------------------
(* RESET MASTER and PURGE BINARY LOGS.                                     *)

\* reset_logs() first keeps mark_xid_done() from waiting for LOCK_log ...
ResetStart ==
    /\ server = "up" /\ pc[Admin] = "idle" /\ admins < MaxAdmin /\ MayRotate
    /\ resetting' = resetting + 1
    /\ admins' = admins + 1
    /\ Goto(Admin, "reset")
    /\ UNCHANGED <<me, group, lock, list, xid_count, current, waiting, bgVars,
                   redoVars, fileVars, server, crashes>>

\* ... lets those that already do go first, and takes LOCK_log ...
ResetLog ==
    /\ pc[Admin] = "reset" /\ waiting = 0 /\ Free("log")
    /\ Take("log", Admin)
    /\ Goto(Admin, "reset_sync")
    /\ UNCHANGED <<me, group, xidVars, bgVars, redoVars, fileVars, runVars>>

\* ... passes through the locks of the groups in progress to wait for them, and
\* asks for a checkpoint of the active file.
ResetRequest ==
    /\ pc[Admin] = "reset_sync" /\ Free("sync") /\ Free("commit")
    /\ xid_count' = [xid_count EXCEPT ![current] = @ + 1]
    /\ me' = [me EXCEPT ![Admin] = [Fresh EXCEPT !.id = current, !.ret = "reset_wait"]]
    /\ Goto(Admin, "request")
    /\ UNCHANGED <<group, lock, list, current, waiting, resetting, bgVars, redoVars,
                   fileVars, runVars>>

\* When nothing is outstanding in any file, all files make way for a new one.
ResetFiles ==
    /\ pc[Admin] = "reset_wait"
    /\ \A f \in Range(list) : xid_count[f] = 0
    /\ index' = {current + 1}
    /\ ckpt' = [ckpt EXCEPT ![current + 1] = InitialCheckpoint(current + 1)]
    /\ current' = current + 1
    /\ list' = <<current + 1>>
    /\ resetting' = resetting - 1
    /\ Drop("log")
    /\ Goto(Admin, "idle")
    /\ UNCHANGED <<me, group, xid_count, waiting, bgVars, redoVars, written,
                   synced, runVars>>

\* LOCK_index is held throughout a rotation and from LOCK_log on in RESET MASTER.
IndexLocked ==
    \/ \E p \in Procs : pc[p] \in {"open", "create", "link"}
    \/ resetting > 0 /\ lock["log"] = Admin

\* Mutant: can_purge_log() does not look at binlog_xid_count_list.
PurgeLog_Listed ==
    /\ server = "up" /\ ~IndexLocked
    /\ Min(index) # current
    /\ index' = index \ {Min(index)}
    /\ UNCHANGED <<pc, me, group, lock, xidVars, bgVars, redoVars, written,
                   synced, ckpt, runVars>>

\* purge_logs(): the oldest file goes when can_purge_log() allows it.
PurgeLog ==
    /\ server = "up" /\ ~IndexLocked
    /\ Min(index) # current /\ Min(index) \notin Range(list)
    /\ index' = index \ {Min(index)}
    /\ UNCHANGED <<pc, me, group, lock, xidVars, bgVars, redoVars, written,
                   synced, ckpt, runVars>>

----------------------------------------------------------------------------
(* Crash and recovery.                                                     *)

\* What is in memory is lost, with the end of InnoDB's log that was not
\* flushed: a commit in it is a prepared transaction again, an unfinished
\* transaction is rolled back by its engine.  An event that was written and
\* not synced may have reached the disk or not.
Crash ==
    /\ server # "aborted" /\ crashes < MaxCrash /\ Max(index) < MaxFile
    /\ crashes' = crashes + 1
    /\ server' = "recovery"
    /\ pc' = [p \in Procs |-> IF p \notin Trx THEN "idle"
                              ELSE IF pc[p] \in {"idle", "done"} THEN pc[p] ELSE "gone"]
    /\ me' = [p \in Procs |-> Fresh]
    /\ group' = [t \in Trx |-> {}]
    /\ lock' = [l \in DOMAIN lock |-> None]
    /\ list' = <<>>
    /\ xid_count' = [f \in Files |-> 0]
    /\ waiting' = 0 /\ resetting' = 0
    /\ queue' = 0
    /\ next' = [f \in Files |-> 0]
    /\ notify' = [f \in Files |-> 0]
    /\ requests' = <<>>
    /\ lsn' = flushed
    /\ engine' = [t \in Trx |-> IF elsn[t] <= flushed THEN engine[t]
                                ELSE IF engine[t] = "committed" THEN "prepared"
                                ELSE "active"]
    /\ elsn' = [t \in Trx |-> 0]
    /\ \/ synced' = written
       \/ synced' = synced
    /\ written' = synced'
    /\ UNCHANGED <<current, flushed, unlogs, ckpt, index, admins>>

\* Mutant: only the last file is read.
Found_LastFile(t) == \E f \in {Max(index)} : t \in synced[f]

\* The files TC_LOG_BINLOG::recover() reads: the last one, and from the file
\* its last checkpoint event names.
LastFile == Max(index)
Scanned == {f \in index : ckpt[LastFile] <= f}

Found(t) == \E f \in Scanned : t \in synced[f]

\* find_log_pos() does not find that file.
RecoverAborts ==
    /\ server = "recovery" /\ ckpt[LastFile] \notin index
    /\ server' = "aborted"
    /\ UNCHANGED <<pc, me, group, lock, xidVars, bgVars, redoVars, fileVars,
                   admins, crashes>>

\* ha_recover_complete(): commit_by_xid() or rollback_by_xid(), both durable.
Recover(t) ==
    /\ server = "recovery" /\ ckpt[LastFile] \in index
    /\ engine[t] = "prepared"
    /\ engine' = [engine EXCEPT ![t] = IF Found(t) THEN "committed" ELSE "rolled_back"]
    /\ UNCHANGED <<pc, me, group, lock, xidVars, bgVars, requests, lsn, flushed,
                   elsn, unlogs, fileVars, runVars>>

\* The server opens a new file, with an empty list.
Restart ==
    /\ server = "recovery" /\ ckpt[LastFile] \in index
    /\ \A t \in Trx : engine[t] # "prepared"
    /\ current' = LastFile + 1
    /\ list' = <<LastFile + 1>>
    /\ index' = index \union {LastFile + 1}
    /\ ckpt' = [ckpt EXCEPT ![LastFile + 1] = InitialCheckpoint(LastFile + 1)]
    /\ server' = "up"
    /\ UNCHANGED <<pc, me, group, lock, xid_count, waiting, resetting, bgVars,
                   redoVars, written, synced, admins, crashes>>

----------------------------------------------------------------------------
Leader(t) ==
    \/ queue_for_group_commit(t)
    \/ LeaderWrite(t)
    \/ \E rotate \in BOOLEAN : LeaderSync(t, rotate)
    \/ LeaderOrdered(t)
    \/ \E u \in Trx : CommitOrdered(t, u)
    \/ EngineCommit(t)

Rotate(p) ==
    \/ OpenScan(p) \/ OpenCreate(p) \/ OpenLink(p) \/ AfterSync(p)
    \/ CheckpointRequest(p) \/ RequestPersistent(p) \/ RequestLsn(p)
    \/ RequestEnqueue(p)

Mark(p) ==
    \/ MarkXidDone(p) \/ MarkRemove(p) \/ MarkCheckpoint(p) \/ MarkEnd(p)

ResetStep == ResetLog \/ ResetRequest \/ ResetFiles

Background == BgGrab \/ BgNext \/ BgCounted

FlushStep == (\E l \in 1 .. lsn : FlushLog(l)) \/ FlushDetach

RecoverStep == RecoverAborts \/ (\E t \in Trx : Recover(t)) \/ Restart

Step(p) == Rotate(p) \/ Notify(p) \/ Mark(p)

\* The threads that have started something go on with it, the InnoDB master
\* task flushes the log, and a crashed server is started again.
Progress ==
    \/ \E t \in Trx : Leader(t)
    \/ \E p \in Procs : Step(p)
    \/ FlushLogsOrdered
    \/ ResetStep
    \/ Background
    \/ FlushStep
    \/ RecoverStep

Next ==
    \/ Progress
    \/ \E t \in Trx : Prepare(t)
    \/ FlushLogs
    \/ ResetStart
    \/ PurgeLog
    \/ Crash

Spec == Init /\ [][Next]_vars

----------------------------------------------------------------------------
\* The commit is on disk in the engine.
Durable(t) == engine[t] = "committed" /\ elsn[t] <= flushed

\* A transaction that is in the binary log, and whose commit is not on disk in
\* its engine, is in a file that recovery would read if the server crashed
\* now: no checkpoint event passes it, no purge and no RESET MASTER deletes it
\* (mark_xid_done(), open(), can_purge_log(), reset_logs()).
RecoveryReadsUndecided ==
    \A t \in Trx, f \in Files :
        t \in synced[f] /\ ~Durable(t) => f \in Scanned

\* After a restart a transaction the crash interrupted is committed in its
\* engine exactly when it is in the binary log, and one that was reported as
\* committed still is (recover(), ha_recover_complete()).
EngineAgreesWithBinlog ==
    server = "up" => \A t \in Trx :
        /\ pc[t] = "gone" =>
              (engine[t] = "committed" <=> \E f \in Files : t \in synced[f])
        /\ pc[t] = "done" => engine[t] = "committed"

\* "Binlog is always found, as we do not remove until count reaches 0": whoever
\* still has to count down, or to request a checkpoint, for a file finds its
\* entry with a positive count (the assertions of mark_xid_done(),
\* mark_xids_active() and do_checkpoint_request()).
EntryPinned ==
    \A p \in Procs : pc[p] \in {"mark", "request", "read_lsn", "enqueue"} =>
        me[p].id \in Range(list) /\ xid_count[me[p].id] > 0

\* Binlog checkpoint events are logged in order, across rotations and restarts:
\* the file that recovery starts from never moves back, so recovery may take
\* the last event it finds (the chained locks of mark_xid_done()).
CheckpointsInOrder == [][ckpt[LastFile] <= ckpt'[LastFile']]_vars

\* The file of the last checkpoint event on disk is in the index, so recovery
\* does not abort for a missing file - except while a thread in mark_xid_done()
\* is on its way from the last count to the synced event: it, or an open() that
\* overtakes it, has dropped entries from the list before any event on disk
\* says so, and purge_logs() may already delete their files.
CheckpointFilePresent ==
    server = "up" /\ (\A p \in Procs : pc[p] \notin {"lock_log", "checkpoint"})
        => ckpt[LastFile] \in index

\* Nothing is left hanging.  When no thread can go on, every transaction has
\* ended, RESET MASTER and FLUSH LOGS have returned, every commit checkpoint
\* request was notified and counted, and the active file is the only one in
\* the list.  Every behaviour of the bounded model is finite, so this is what
\* becomes of each of them when the threads keep running: no request is missed
\* in innodb_log_flush_request(), and nobody waits for ever for LOCK_log or for
\* the list to become idle.
NothingLeftHanging ==
    \/ ENABLED Progress
    \/ server = "aborted"
    \/ /\ \A p \in Procs : pc[p] \in {"idle", "done", "gone"}
       /\ requests = <<>> /\ queue = 0
       /\ list = <<current>> /\ xid_count[current] = 0
=============================================================================

------------------------------ MODULE SemiSync ------------------------------
(***************************************************************************)
(* Semi-synchronous replication on the primary (sql/semisync_master.cc):   *)
(* committing threads wait until a replica has acknowledged their binary   *)
(* log position, dump threads decide which events ask for an               *)
(* acknowledgement, the receiver thread (semisync_master_ack_receiver.cc)  *)
(* applies acknowledgements, and a timeout, the loss of the last replica   *)
(* or SET GLOBAL turns the mechanism off.                                  *)
(*                                                                         *)
(* A binary log position is a number: transaction p ends at position p.    *)
(* Everything the code does under LOCK_binlog is one step.  Position 0     *)
(* stands for a coordinate whose ..._inited flag is false.                 *)
(***************************************************************************)
EXTENDS Naturals, Sequences, FiniteSets, FiniteSetsExt

CONSTANTS
    Threads,      \* client connections that commit
    Replicas,     \* semi-synchronous replicas
    MaxPos,       \* bound: transactions written to the binary log
    MaxEvents     \* bound: SET GLOBAL statements, broken connections, kills
                  \* and failed allocations

ASSUME BoundsAssumption == MaxPos \in Nat /\ MaxEvents \in Nat

ASSUME ThreadsAssumption == IsFiniteSet(Threads)

VARIABLES
    enabled,      \* m_master_enabled; m_active_tranxs is NULL iff it is FALSE
    state,        \* m_state: is_on()
    waitNoSlave,  \* rpl_semi_sync_master_wait_no_slave
    active,       \* positions in m_active_tranxs
    commit,       \* m_commit_file_pos
    wait,         \* m_wait_file_pos: least position of the waiting threads
    reply,        \* m_reply_file_pos: greatest acknowledged position
    binlogEnd,    \* binlog_end_pos: what the dump threads may read
    pc,           \* where each committing thread is
    info,         \* thd->semisync_info: the position a thread waits for
    killed,       \* thd->killed
    receiver,     \* the ack receiver thread is running
    conn,         \* each replica's dump thread: "down", "up" or "ending"
    recv,         \* last position a replica has in its relay log
    acks,         \* acknowledgements on their way to the primary
    allocated,    \* connections whose thd->semisync_info is not NULL
    since,        \* history: Reported when semi-sync was last enabled
    failed,       \* history: positions whose report_binlog_update() failed
    aborted,      \* the server died in assert(m_active_tranxs != NULL)
    events        \* SET GLOBAL statements and faults so far

switch == <<enabled, state, active, commit, wait, reply, since>>
threads == <<pc, info, killed>>
memory == <<allocated, failed>>
net == <<receiver, conn, recv, acks>>
vars == <<switch, threads, memory, net, events, waitNoSlave, binlogEnd, aborted>>

Init ==
    /\ enabled = TRUE /\ state = TRUE /\ waitNoSlave = TRUE
    /\ active = {} /\ commit = 0 /\ wait = 0 /\ reply = 0
    /\ binlogEnd = 0 /\ since = 0
    /\ pc = [t \in Threads |-> "idle"]
    /\ info = [t \in Threads |-> 0]
    /\ killed = [t \in Threads |-> FALSE]
    /\ allocated = {} /\ failed = {}
    /\ receiver = TRUE /\ aborted = FALSE
    /\ conn = [r \in Replicas |-> "down"]
    /\ recv = [r \in Replicas |-> 0]
    /\ acks = [r \in Replicas |-> <<>>]
    /\ events = 0

-----------------------------------------------------------------------------
(* The pieces the operations share; all of them run under LOCK_binlog.     *)

\* rpl_semi_sync_master_clients: dump_end() decrements it before the
\* receiver forgets the replica.
clients(c) == Cardinality({r \in Replicas : c[r] = "up"})

\* cond_broadcast(): a thread whose timed wait has already expired keeps
\* its ETIMEDOUT.
Broadcast(p) == [t \in Threads |-> IF p[t] = "asleep" THEN "woken" ELSE p[t]]

\* rpl_semi_sync_master_wait_sessions, counted from before cond_timewait()
\* until the mutex is held again.
wait_sessions == Cardinality({t \in Threads : pc[t] \in {"asleep", "woken", "timedout"}})

\* Nobody is between the flush of its event group and its publication.
LogFree == \A t \in Threads : pc[t] \notin {"inserting", "reported"}

\* The last position whose report_binlog_update() has returned.
Reported == IF \E t \in Threads : pc[t] = "reported" THEN binlogEnd + 1 ELSE binlogEnd

\* A bounded event that the environment may or may not send.
Event == events < MaxEvents /\ events' = events + 1

\* switch_off().  The wait position is kept by the code but is not read
\* while its flag is false, except in report_reply_binlog(), where it can
\* only decide about a broadcast that nobody needs.
switch_off ==
    /\ state' = FALSE
    /\ active' = {}
    /\ wait' = 0
    /\ reply' = 0
    /\ UNCHANGED <<enabled, commit, since>>

\* Mutant: the first waiter's position is kept as the minimum.
CommitLoop_KeepWait(t, finish) ==
    IF ~state \/ killed[t] \/ reply >= info[t]
    THEN /\ finish
         /\ UNCHANGED switch
    ELSE /\ wait' = IF wait = 0 THEN info[t] ELSE wait
         /\ pc' = [pc EXCEPT ![t] = "asleep"]
         /\ UNCHANGED <<enabled, state, active, commit, reply, since>>
         /\ UNCHANGED <<info, killed>>

\* Mutant: any reply will do, whatever position it is for.
CommitLoop_AnyReply(t, finish) ==
    IF ~state \/ killed[t] \/ reply # 0
    THEN /\ finish
         /\ UNCHANGED switch
    ELSE /\ wait' = IF wait = 0 THEN info[t] ELSE Min({wait, info[t]})
         /\ pc' = [pc EXCEPT ![t] = "asleep"]
         /\ UNCHANGED <<enabled, state, active, commit, reply, since>>
         /\ UNCHANGED <<info, killed>>

\* The loop of commit_trx(), entered or re-entered with the mutex held.
CommitLoop(t, finish) ==
    IF ~state \/ killed[t] \/ reply >= info[t]
    THEN /\ finish
         /\ UNCHANGED switch
    ELSE /\ wait' = IF wait = 0 THEN info[t] ELSE Min({wait, info[t]})
         /\ pc' = [pc EXCEPT ![t] = "asleep"]
         /\ UNCHANGED <<enabled, state, active, commit, reply, since>>
         /\ UNCHANGED <<info, killed>>

\* commit_trx() returns and wait_after_commit() resets the coordinates; the
\* statement ends and with it KILL QUERY.
Return(t) ==
    /\ pc' = [pc EXCEPT ![t] = "idle"]
    /\ info' = [info EXCEPT ![t] = 0]
    /\ killed' = [killed EXCEPT ![t] = FALSE]

\* Mutant: any acknowledgement switches semi-sync on.
report_reply_binlog_On(pos) ==
    IF ~enabled
    THEN UNCHANGED <<switch, pc>>
    ELSE /\ state' = TRUE
         /\ reply' = Max({reply, pos})
         /\ active' = IF pos >= reply THEN {p \in active : p > pos} ELSE active
         /\ IF wait_sessions > 0 /\ reply' >= wait
            THEN wait' = 0 /\ pc' = Broadcast(pc)
            ELSE UNCHANGED <<wait, pc>>
         /\ UNCHANGED <<enabled, commit, since>>

\* report_reply_binlog(): pos has been acknowledged.  The code broadcasts just
\* after it unlocks: whoever falls asleep in between is woken for nothing, and
\* whoever times out in between might have done so just before.
report_reply_binlog(pos) ==
    IF ~enabled
    THEN UNCHANGED <<switch, pc>>
    ELSE /\ state' = (state \/ commit = 0 \/ pos >= commit)
         /\ reply' = Max({reply, pos})
         /\ active' = IF pos >= reply THEN {p \in active : p > pos} ELSE active
         /\ IF wait_sessions > 0 /\ reply' >= wait
            THEN wait' = 0 /\ pc' = Broadcast(pc)
            ELSE UNCHANGED <<wait, pc>>
         /\ UNCHANGED <<enabled, commit, since>>

-----------------------------------------------------------------------------
(* Committing threads.                                                      *)

\* The event group is written and flushed under LOCK_log, and
\* report_binlog_update() tests m_master_enabled without LOCK_binlog.  Only
\* if it is set does the position go to semisync_info.
report_binlog_update(t) ==
    /\ pc[t] = "idle"
    /\ LogFree
    /\ binlogEnd < MaxPos
    /\ IF enabled
       THEN /\ info' = [info EXCEPT ![t] = binlogEnd + 1]
            /\ allocated' = allocated \cup {t}
            /\ pc' = [pc EXCEPT ![t] = "inserting"]
       ELSE /\ pc' = [pc EXCEPT ![t] = "reported"]
            /\ UNCHANGED <<info, allocated>>
    /\ UNCHANGED <<switch, killed, failed, net, events, waitNoSlave, binlogEnd, aborted>>

\* The first report of a connection cannot allocate semisync_info and returns
\* 1: the commit fails, but the leader publishes the transaction all the same.
AllocationFails(t) ==
    /\ pc[t] = "idle"
    /\ LogFree
    /\ binlogEnd < MaxPos
    /\ enabled /\ t \notin allocated
    /\ Event
    /\ failed' = failed \cup {binlogEnd + 1}
    /\ pc' = [pc EXCEPT ![t] = "reported"]
    /\ UNCHANGED <<switch, info, killed, allocated, net, waitNoSlave, binlogEnd, aborted>>

\* The rest of the report, under LOCK_binlog, with "the real check".
write_tranx_in_binlog(t) ==
    LET pos == binlogEnd + 1 IN
    /\ pc[t] = "inserting"
    /\ pc' = [pc EXCEPT ![t] = "reported"]
    /\ IF enabled
       THEN /\ commit' = Max({commit, pos})
            /\ active' = IF state THEN active \cup {pos} ELSE active
            /\ UNCHANGED <<enabled, state, wait, reply, since>>
       ELSE UNCHANGED switch
    /\ UNCHANGED <<info, killed, memory, net, events, waitNoSlave, binlogEnd, aborted>>

\* insert_tranx_node() cannot allocate a node: semi-sync is switched off.
InsertFails(t) ==
    LET pos == binlogEnd + 1 IN
    /\ pc[t] = "inserting"
    /\ enabled /\ state
    /\ Event
    /\ commit' = Max({commit, pos})
    /\ state' = FALSE /\ active' = {} /\ wait' = 0 /\ reply' = 0
    /\ pc' = [Broadcast(pc) EXCEPT ![t] = "reported"]
    /\ UNCHANGED <<enabled, since, info, killed, memory, net, waitNoSlave, binlogEnd, aborted>>

\* The leader lets the dump threads read the transaction and goes on to
\* release LOCK_log.
update_binlog_end_pos(t) ==
    /\ pc[t] = "reported"
    /\ binlogEnd' = binlogEnd + 1
    /\ pc' = [pc EXCEPT ![t] = "written"]
    /\ UNCHANGED <<switch, info, killed, memory, net, events, waitNoSlave, aborted>>

\* wait_after_commit() tests m_master_enabled without the mutex; when it is
\* off the coordinates stay in semisync_info.
wait_after_commit(t) ==
    /\ pc[t] = "written"
    /\ pc' = [pc EXCEPT ![t] = IF enabled /\ info[t] # 0 THEN "committing" ELSE "idle"]
    /\ UNCHANGED <<switch, info, killed, memory, net, events, waitNoSlave, binlogEnd, aborted>>

\* commit_trx(), up to its first wait or its end.
commit_trx(t) ==
    /\ pc[t] = "committing"
    /\ CommitLoop(t, Return(t))
    /\ UNCHANGED <<memory, net, events, waitNoSlave, binlogEnd, aborted>>

\* A signalled thread has the mutex again and goes round the loop.
Woken(t) ==
    /\ pc[t] = "woken"
    /\ CommitLoop(t, Return(t))
    /\ UNCHANGED <<memory, net, events, waitNoSlave, binlogEnd, aborted>>

\* The timed wait expires; the thread does not have the mutex yet.
Expire(t) ==
    /\ pc[t] = "asleep"
    /\ pc' = [pc EXCEPT ![t] = "timedout"]
    /\ UNCHANGED <<switch, info, killed, memory, net, events, waitNoSlave, binlogEnd, aborted>>

\* With the mutex, it calls switch_off(), which needs m_active_tranxs, and
\* leaves the loop.
TimedOut(t) ==
    /\ pc[t] = "timedout"
    /\ IF enabled
       THEN /\ switch_off
            /\ pc' = [Broadcast(pc) EXCEPT ![t] = "idle"]
            /\ info' = [info EXCEPT ![t] = 0]
            /\ killed' = [killed EXCEPT ![t] = FALSE]
            /\ UNCHANGED aborted
       ELSE /\ aborted' = TRUE
            /\ UNCHANGED <<switch, threads>>
    /\ UNCHANGED <<memory, net, events, waitNoSlave, binlogEnd>>

\* KILL QUERY: THD::awake() broadcasts the condition the thread waits on.
Kill(t) ==
    /\ pc[t] \in {"committing", "asleep"}
    /\ ~killed[t]
    /\ Event
    /\ killed' = [killed EXCEPT ![t] = TRUE]
    /\ pc' = IF pc[t] = "asleep" THEN Broadcast(pc) ELSE pc
    /\ UNCHANGED <<switch, info, memory, net, waitNoSlave, binlogEnd, aborted>>

-----------------------------------------------------------------------------
(* Dump threads, replicas and the ack receiver.                             *)

\* dump_start(): a replica connects at the position it already has, which
\* counts as a reply.
dump_start(r) ==
    /\ conn[r] = "down"
    /\ conn' = [conn EXCEPT ![r] = "up"]
    /\ report_reply_binlog(recv[r])
    /\ UNCHANGED <<info, killed, memory, receiver, recv, acks, events, waitNoSlave,
                   binlogEnd, aborted>>

\* Mutant: the event that a thread waits for is itself not asked about.
need_sync_After(pos) ==
    /\ enabled
    /\ IF state
       THEN pos > reply /\ pos > wait /\ pos \in active
       ELSE pos >= commit

\* update_sync_header(): does event pos ask for an acknowledgement?
need_sync(pos) ==
    /\ enabled
    /\ IF state
       THEN pos > reply /\ pos >= wait /\ pos \in active
       ELSE pos >= commit

\* The next event is sent, and the replica writes it to its relay log and
\* replies (Repl_semi_sync_slave::slave_reply) if it was asked to.  An event
\* lost with the connection is one that was not sent.
send_event_to_slave(r) ==
    LET pos == recv[r] + 1 IN
    /\ conn[r] = "up"
    /\ pos <= binlogEnd
    /\ recv' = [recv EXCEPT ![r] = pos]
    /\ acks' = IF need_sync(pos) THEN [acks EXCEPT ![r] = Append(@, pos)] ELSE acks
    /\ UNCHANGED <<switch, threads, memory, receiver, conn, events, waitNoSlave,
                   binlogEnd, aborted>>

\* Ack_receiver::run() reads one acknowledgement: report_reply_packet().
report_reply_packet(r) ==
    /\ receiver
    /\ conn[r] # "down"
    /\ acks[r] # <<>>
    /\ acks' = [acks EXCEPT ![r] = Tail(@)]
    /\ report_reply_binlog(Head(acks[r]))
    /\ UNCHANGED <<info, killed, memory, receiver, conn, recv, events, waitNoSlave,
                   binlogEnd, aborted>>

\* The connection breaks: dump_end() calls remove_slave() first.
remove_slave(r) ==
    /\ conn[r] = "up"
    /\ Event
    /\ conn' = [conn EXCEPT ![r] = "ending"]
    /\ IF enabled /\ state /\ ~waitNoSlave /\ clients(conn') = 0
       THEN switch_off /\ pc' = Broadcast(pc)
       ELSE UNCHANGED <<switch, pc>>
    /\ UNCHANGED <<info, killed, memory, receiver, recv, acks, waitNoSlave,
                   binlogEnd, aborted>>

\* ... and Ack_receiver::remove_slave() after it: what was not read is lost.
ack_remove_slave(r) ==
    /\ conn[r] = "ending"
    /\ conn' = [conn EXCEPT ![r] = "down"]
    /\ acks' = [acks EXCEPT ![r] = <<>>]
    /\ UNCHANGED <<switch, threads, memory, receiver, recv, events, waitNoSlave,
                   binlogEnd, aborted>>

-----------------------------------------------------------------------------
(* SET GLOBAL statements (sql/sys_vars.cc).                                 *)

disable_master ==
    /\ enabled
    /\ Event
    /\ enabled' = FALSE
    /\ state' = FALSE /\ active' = {} /\ commit' = 0 /\ wait' = 0 /\ reply' = 0
    /\ pc' = Broadcast(pc)
    /\ UNCHANGED <<since, info, killed, memory, net, waitNoSlave, binlogEnd, aborted>>

\* fix_rpl_semi_sync_master_enabled() stops the receiver after that.
ack_receiver_stop ==
    /\ ~enabled
    /\ receiver
    /\ receiver' = FALSE
    /\ UNCHANGED <<switch, threads, memory, conn, recv, acks, events, waitNoSlave,
                   binlogEnd, aborted>>

enable_master ==
    /\ ~enabled /\ ~receiver
    /\ Event
    /\ enabled' = TRUE /\ receiver' = TRUE
    /\ state' = TRUE /\ active' = {} /\ commit' = 0 /\ wait' = 0 /\ reply' = 0
    /\ since' = Reported
    /\ UNCHANGED <<threads, memory, conn, recv, acks, waitNoSlave, binlogEnd, aborted>>

\* SET GLOBAL rpl_semi_sync_master_wait_no_slave: check_and_switch().
check_and_switch ==
    /\ Event
    /\ waitNoSlave' = ~waitNoSlave
    /\ IF enabled /\ state /\ ~waitNoSlave' /\ clients(conn) = 0
       THEN switch_off /\ pc' = Broadcast(pc)
       ELSE UNCHANGED <<switch, pc>>
    /\ UNCHANGED <<info, killed, memory, net, binlogEnd, aborted>>

Report(t) == report_binlog_update(t) \/ AllocationFails(t) \/ InsertFails(t)
Commit(t) ==
    \/ write_tranx_in_binlog(t) \/ update_binlog_end_pos(t)
    \/ wait_after_commit(t) \/ commit_trx(t) \/ Woken(t) \/ TimedOut(t)
Dump(r) == dump_start(r) \/ send_event_to_slave(r)
Receive(r) == report_reply_packet(r) \/ ack_remove_slave(r)

Next ==
    /\ ~aborted
    /\ \/ \E t \in Threads : Report(t) \/ Commit(t) \/ Expire(t) \/ Kill(t)
       \/ \E r \in Replicas : Dump(r) \/ Receive(r) \/ remove_slave(r)
       \/ disable_master \/ ack_receiver_stop \/ enable_master \/ check_and_switch

Spec == Init /\ [][Next]_vars

\* Threads inside the commit path, dump threads and the receiver run on, and a
\* replica that lost its connection comes back.  Nothing makes a timeout, a
\* fault, a statement of the administrator or a new transaction happen.
FairSpec ==
    /\ Spec
    /\ \A t \in Threads : WF_vars(~aborted /\ Commit(t))
    /\ \A r \in Replicas : WF_vars(~aborted /\ Dump(r)) /\ WF_vars(~aborted /\ Receive(r))

-----------------------------------------------------------------------------
(* Properties.                                                              *)

\* No lost wake-up: whoever sleeps in commit_trx() sleeps on a master that is
\* on, is not acknowledged yet, and is covered by the minimum wait position,
\* so that the acknowledgement it needs reaches the broadcast.
SleeperCovered ==
    \A t \in Threads : pc[t] = "asleep" =>
        state /\ reply < info[t] /\ wait # 0 /\ wait <= info[t]

\* While semi-sync is on, every transaction reported since it was enabled is
\* either tracked, so that its event asks for an acknowledgement, or has
\* reached a replica: switching off and catching up lose nobody.  Two kinds of
\* transactions escape and are excluded: one whose report_binlog_update()
\* failed for lack of memory (failed), and one whose report had returned, or
\* had found semi-sync disabled, when SET GLOBAL enabled it, and that was
\* published after that (at or below since).
TrackedOrReceived ==
    state => \A p \in (since + 1 .. Reported) \ failed :
                 p \in active \/ \E r \in Replicas : recv[r] >= p

\* commit_trx() returns with its transaction settled: unless the thread was
\* killed, some replica has the transaction or semi-sync is off, and, as the
\* assertion at its end says, the position is no longer in m_active_tranxs.
SettledAtReturn ==
    [][\A t \in Threads :
        pc[t] \in {"committing", "woken", "timedout"} /\ pc'[t] = "idle" /\ ~killed[t]
            => /\ ~state' \/ \E r \in Replicas : recv[r] >= info[t]
               /\ info[t] \notin active']_vars

\* Without any timeout, a sleeper whose transaction is tracked is woken:
\* update_sync_header() never withholds the request it depends on.
TrackedSleeperWakes ==
    \A t \in Threads :
        pc[t] = "asleep" /\ info[t] \in active ~> pc[t] # "asleep" \/ aborted

=============================================================================

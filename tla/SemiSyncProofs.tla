--------------------------- MODULE SemiSyncProofs ---------------------------
(***************************************************************************)
(* Proofs about SemiSync, for any finite set of committing threads, any    *)
(* set of replicas and any bounds.                                         *)
(***************************************************************************)
EXTENDS SemiSync, FiniteSetTheorems, TLAPS

LEMMA MaxOfTwo ==
  ASSUME NEW a \in Nat, NEW b \in Nat
  PROVE  Max({a, b}) = IF a >= b THEN a ELSE b
<1> DEFINE m == IF a >= b THEN a ELSE b
<1>1. m \in {a, b} /\ \A y \in {a, b} : m >= y
  OBVIOUS
<1>2. \A x \in {a, b} : (\A y \in {a, b} : x >= y) => x = m
  OBVIOUS
<1> QED
  BY <1>1, <1>2 DEF Max

LEMMA MinOfTwo ==
  ASSUME NEW a \in Nat, NEW b \in Nat
  PROVE  Min({a, b}) = IF a <= b THEN a ELSE b
<1> DEFINE m == IF a <= b THEN a ELSE b
<1>1. m \in {a, b} /\ \A y \in {a, b} : m <= y
  OBVIOUS
<1>2. \A x \in {a, b} : (\A y \in {a, b} : x <= y) => x = m
  OBVIOUS
<1> QED
  BY <1>1, <1>2 DEF Min

-----------------------------------------------------------------------------
(* The inductive invariant *)

Waits == {"committing", "asleep", "woken", "timedout"}

\* Where a thread has LOCK_log.
Reports == {"inserting", "reported"}

Places == {"idle", "written"} \cup Reports \cup Waits

\* What the variables of Repl_semi_sync_master, of the threads and of the
\* network range over.
Types ==
    /\ enabled \in BOOLEAN /\ state \in BOOLEAN
    /\ active \in SUBSET Nat
    /\ commit \in Nat /\ wait \in Nat /\ reply \in Nat
    /\ binlogEnd \in Nat /\ since \in Nat
    /\ failed \in SUBSET Nat
    /\ pc \in [Threads -> Places]
    /\ info \in [Threads -> Nat]
    /\ killed \in [Threads -> BOOLEAN]
    /\ recv \in [Replicas -> Nat]
    /\ acks \in [Replicas -> Seq(Nat)]

\* A master that is off tracks nothing, and one that is disabled is off.
OffIsEmpty == /\ state => enabled
              /\ ~state => active = {}

\* LOCK_log: one thread at a time reports and publishes its transaction.
OneReporter ==
    \A t, u \in Threads : pc[t] \in Reports /\ pc[u] \in Reports => t = u

\* m_commit_file_pos is at or after every position reported since semi-sync
\* was enabled, on or off.
CommitIsLast ==
    /\ since <= Reported
    /\ enabled => \A p \in (since + 1 .. Reported) \ failed : p <= commit

\* What a replica acknowledges it has, and what it has was written.
AcksReceived ==
    \A r \in Replicas : /\ recv[r] <= binlogEnd
                        /\ \A i \in DOMAIN acks[r] : acks[r][i] <= recv[r]

\* The reply position is one that some replica has, and is not tracked.
ReplyReceived ==
    /\ reply # 0 => \E r \in Replicas : recv[r] >= reply
    /\ \A p \in active : p > reply

\* Only a thread with a position waits.
WaitsForSomething == \A t \in Threads : pc[t] \in Waits => info[t] # 0

SemiSyncInv ==
    /\ Types /\ OneReporter /\ OffIsEmpty /\ CommitIsLast /\ AcksReceived /\ ReplyReceived
    /\ WaitsForSomething /\ SleeperCovered /\ TrackedOrReceived

-----------------------------------------------------------------------------
(* The pieces that the operations share *)

LEMMA Sleeps ==
  ASSUME NEW t \in Threads, pc[t] = "asleep"
  PROVE  wait_sessions > 0
<1> DEFINE S == {u \in Threads : pc[u] \in {"asleep", "woken", "timedout"}}
<1>1. IsFiniteSet(S)
  BY ThreadsAssumption, FS_Subset
<1>2. S # {}
  OBVIOUS
<1>3. Cardinality(S) \in Nat /\ Cardinality(S) # 0
  BY <1>1, <1>2, FS_EmptySet, FS_CardinalityType
<1> QED
  BY <1>3 DEF wait_sessions

\* cond_broadcast() leaves nobody asleep and moves nobody else.
LEMMA BroadcastEffect ==
  ASSUME Types
  PROVE  /\ Broadcast(pc) \in [Threads -> Places]
         /\ \A t \in Threads : /\ Broadcast(pc)[t] # "asleep"
                               /\ Broadcast(pc)[t] \in Waits <=> pc[t] \in Waits
                               /\ Broadcast(pc)[t] \in Reports <=> pc[t] \in Reports
                               /\ Broadcast(pc)[t] = "reported" <=> pc[t] = "reported"
  BY DEF Types, Broadcast, Waits, Reports, Places

\* A step that nobody takes inside LOCK_log.
NobodyReports ==
    /\ UNCHANGED <<binlogEnd, failed>>
    /\ \A t \in Threads : /\ pc'[t] \in Reports <=> pc[t] \in Reports
                          /\ pc'[t] = "reported" <=> pc[t] = "reported"

\* Such a step leaves the reported positions as they are.
LEMMA ReportedStays ==
  ASSUME NobodyReports, OneReporter
  PROVE  Reported' = Reported /\ OneReporter'
  BY DEF NobodyReports, Reported, OneReporter

\* A step that leaves the switch, the network and the reports alone.
LEMMA ThreadKeepsInv ==
  ASSUME SemiSyncInv, NobodyReports, Types', WaitsForSomething', SleeperCovered',
         UNCHANGED <<enabled, state, active, commit, reply, since, recv, acks>>
  PROVE  SemiSyncInv'
<1>1. Reported' = Reported /\ OneReporter'
  BY ReportedStays DEF SemiSyncInv
<1>2. UNCHANGED <<binlogEnd, failed>>
  BY DEF NobodyReports
<1>3. OffIsEmpty' /\ ReplyReceived' /\ AcksReceived'
  BY <1>2 DEF SemiSyncInv, OffIsEmpty, AcksReceived, ReplyReceived
<1>4. CommitIsLast' /\ TrackedOrReceived'
  BY <1>1, <1>2 DEF SemiSyncInv, CommitIsLast, TrackedOrReceived
<1> QED
  BY <1>1, <1>3, <1>4 DEF SemiSyncInv

\* report_reply_binlog() for a position that a replica has.
LEMMA ReplyKeepsInv ==
  ASSUME SemiSyncInv, NEW r \in Replicas, NEW pos \in Nat, pos <= recv[r],
         report_reply_binlog(pos), UNCHANGED <<info, killed, recv, binlogEnd, failed>>,
         acks' \in [Replicas -> Seq(Nat)], AcksReceived'
  PROVE  SemiSyncInv'
<1> USE DEF SemiSyncInv
<1>1. CASE ~enabled
  <2>1. UNCHANGED <<enabled, state, active, commit, wait, reply, since, pc>>
    BY <1>1 DEF report_reply_binlog, switch
  <2>2. Reported' = Reported
    BY <2>1, Zenon DEF Reported
  <2>3. Types' /\ OneReporter' /\ OffIsEmpty' /\ ReplyReceived'
    BY <2>1, Zenon DEF Types, OneReporter, OffIsEmpty, ReplyReceived
  <2>4. WaitsForSomething' /\ SleeperCovered'
    BY <2>1, Zenon DEF WaitsForSomething, SleeperCovered
  <2>5. CommitIsLast' /\ TrackedOrReceived'
    BY <2>1, <2>2, Zenon DEF CommitIsLast, TrackedOrReceived
  <2> QED
    BY <2>3, <2>4, <2>5
<1>2. CASE enabled
  <2>1. /\ state' = (state \/ commit = 0 \/ pos >= commit)
        /\ reply' = Max({reply, pos})
        /\ active' = IF pos >= reply THEN {p \in active : p > pos} ELSE active
        /\ IF wait_sessions > 0 /\ reply' >= wait
             THEN wait' = 0 /\ pc' = Broadcast(pc)
             ELSE UNCHANGED <<wait, pc>>
        /\ UNCHANGED <<enabled, commit, since>>
    BY <1>2 DEF report_reply_binlog
  <2>0. Reported' = Reported /\ OneReporter'
    <3>1. NobodyReports
      BY <2>1, BroadcastEffect DEF NobodyReports
    <3> QED
      BY <3>1, ReportedStays
  <2>2. reply' = IF reply >= pos THEN reply ELSE pos
    BY <2>1, MaxOfTwo DEF Types
  <2>3. Types'
    <3>1. state' \in BOOLEAN
      BY <2>1
    <3>2. reply' \in Nat /\ active' \in SUBSET Nat
      BY <2>1, <2>2, Zenon DEF Types
    <3>4. wait' \in Nat
      BY <2>1 DEF Types
    <3>3. pc' \in [Threads -> Places]
      BY <2>1, BroadcastEffect DEF Types
    <3> QED
      BY <2>1, <3>1, <3>2, <3>3, <3>4 DEF Types
  <2>4. OffIsEmpty'
    BY <1>2, <2>1, Zenon DEF OffIsEmpty, Types
  <2>5. CommitIsLast'
    BY <2>0, <2>1 DEF CommitIsLast
  <2>6. ReplyReceived'
    <3>1. reply' # 0 => \E q \in Replicas : recv[q] >= reply'
      BY <2>2 DEF ReplyReceived, Types
    <3>2. \A p \in active' : p > reply'
      BY <2>1, <2>2 DEF ReplyReceived, Types
    <3> QED
      BY <3>1, <3>2 DEF ReplyReceived
  <2>7. WaitsForSomething'
    BY <2>1, BroadcastEffect DEF WaitsForSomething
  <2>8. SleeperCovered'
    <3> SUFFICES ASSUME NEW t \in Threads, pc'[t] = "asleep"
                 PROVE  state' /\ reply' < info[t] /\ wait' # 0 /\ wait' <= info[t]
      BY DEF SleeperCovered
    <3>1. UNCHANGED <<wait, pc>> /\ ~(wait_sessions > 0 /\ reply' >= wait)
      BY <2>1, BroadcastEffect
    <3>2. wait_sessions > 0
      BY <3>1, Sleeps
    <3> QED
      BY <2>1, <2>3, <3>1, <3>2 DEF SleeperCovered, Types
  <2>9. TrackedOrReceived'
    <3> SUFFICES ASSUME state', NEW p \in (since + 1 .. Reported) \ failed
                 PROVE  p \in active' \/ \E q \in Replicas : recv[q] >= p
      BY <2>0, <2>1 DEF TrackedOrReceived
    <3>0. p \in Nat /\ p > 0
      BY DEF Types
    <3>1. CASE state
      <4>1. CASE \E q \in Replicas : recv[q] >= p
        BY <4>1
      <4>2. CASE p \in active
        BY <2>1, <3>0, <4>2 DEF Types
      <4> QED
        BY <3>1, <4>1, <4>2 DEF TrackedOrReceived
    <3>2. CASE ~state
      <4>1. p <= commit
        BY <1>2 DEF CommitIsLast
      <4>2. recv[r] >= p
        BY <2>1, <3>0, <3>2, <4>1 DEF Types
      <4> QED
        BY <4>2
    <3> QED
      BY <3>1, <3>2
  <2> QED
    BY <2>0, <2>3, <2>4, <2>5, <2>6, <2>7, <2>8, <2>9
<1> QED
  BY <1>1, <1>2 DEF Types

\* Everything that turns semi-sync off empties m_active_tranxs, forgets the
\* reply and leaves nobody asleep.
LEMMA SwitchOffKeepsInv ==
  ASSUME SemiSyncInv, ~state', state' \in BOOLEAN, active' = {}, wait' = 0, reply' = 0,
         enabled' \in BOOLEAN, OneReporter', CommitIsLast', WaitsForSomething',
         commit' \in Nat, UNCHANGED <<since, recv, acks, binlogEnd, failed>>,
         pc' \in [Threads -> Places],
         info' \in [Threads -> Nat], killed' \in [Threads -> BOOLEAN],
         \A t \in Threads : pc'[t] # "asleep"
  PROVE  SemiSyncInv'
<1>1. Types'
  BY DEF SemiSyncInv, Types
<1>2. OffIsEmpty' /\ ReplyReceived' /\ SleeperCovered' /\ TrackedOrReceived'
  BY DEF OffIsEmpty, ReplyReceived, SleeperCovered, TrackedOrReceived
<1>3. AcksReceived'
  BY DEF SemiSyncInv, AcksReceived
<1> QED
  BY <1>1, <1>2, <1>3 DEF SemiSyncInv

\* A thread goes round the loop of commit_trx(), from any of the places where
\* it has the mutex.
LEMMA LoopKeepsInv ==
  ASSUME SemiSyncInv, NEW t \in Threads, pc[t] \in Waits,
         CommitLoop(t, Return(t)), UNCHANGED <<memory, net, binlogEnd>>
  PROVE  SemiSyncInv'
<1> USE DEF SemiSyncInv
<1>0. UNCHANGED <<recv, acks, binlogEnd, failed>>
  BY DEF net, memory
<1>1. CASE ~state \/ killed[t] \/ reply >= info[t]
  <2>1. Return(t) /\ UNCHANGED switch
    BY <1>1 DEF CommitLoop
  <2>2. UNCHANGED <<enabled, state, active, commit, wait, reply, since>>
    BY <2>1 DEF switch
  <2>3. Types'
    BY <1>0, <2>1, <2>2 DEF Return, Types, Places
  <2>4. \A u \in Threads : pc'[u] # "idle" => pc'[u] = pc[u] /\ info'[u] = info[u]
    BY <2>1 DEF Return, Types
  <2>5. WaitsForSomething' /\ SleeperCovered'
    BY <2>2, <2>4 DEF WaitsForSomething, SleeperCovered, Waits
  <2>6. NobodyReports
    BY <1>0, <2>1 DEF NobodyReports, Return, Types, Reports, Waits
  <2> QED
    BY <1>0, <2>2, <2>3, <2>5, <2>6, ThreadKeepsInv
<1>2. CASE ~(~state \/ killed[t] \/ reply >= info[t])
  <2>1. /\ wait' = IF wait = 0 THEN info[t] ELSE Min({wait, info[t]})
        /\ pc' = [pc EXCEPT ![t] = "asleep"]
        /\ UNCHANGED <<enabled, state, active, commit, reply, since>>
        /\ UNCHANGED <<info, killed>>
    BY <1>2 DEF CommitLoop
  <2>2. /\ wait' \in Nat /\ wait' # 0 /\ wait' <= info[t]
        /\ wait # 0 => wait' <= wait
    <3>1. info[t] \in Nat /\ info[t] # 0 /\ wait \in Nat
      BY DEF Types, WaitsForSomething
    <3>2. CASE wait = 0
      BY <2>1, <3>1, <3>2
    <3>3. CASE wait # 0
      BY <2>1, <3>1, <3>3, MinOfTwo
    <3> QED
      BY <3>2, <3>3
  <2>3. Types'
    BY <1>0, <2>1, <2>2 DEF Types, Waits, Places
  <2>4. SleeperCovered'
    BY <1>2, <2>1, <2>2 DEF SleeperCovered, Types
  <2>5. WaitsForSomething'
    BY <2>1 DEF WaitsForSomething, Types
  <2>6. NobodyReports
    BY <1>0, <2>1 DEF NobodyReports, Types, Reports, Waits
  <2> QED
    BY <1>0, <2>1, <2>3, <2>4, <2>5, <2>6, ThreadKeepsInv
<1> QED
  BY <1>1, <1>2

\* The first part of a report tracks nothing: it either leaves the rest to
\* write_tranx_in_binlog() or ends with semi-sync disabled or with an error.
LEMMA ReportKeepsInv ==
  ASSUME SemiSyncInv, NEW t \in Threads, report_binlog_update(t) \/ AllocationFails(t)
  PROVE  SemiSyncInv'
<1> USE DEF SemiSyncInv
<1>1. /\ pc[t] = "idle" /\ \A u \in Threads : pc[u] \notin Reports
      /\ UNCHANGED <<enabled, state, active, commit, wait, reply, since, killed, recv, acks,
                     binlogEnd>>
      /\ Reported = binlogEnd
  BY DEF report_binlog_update, AllocationFails, LogFree, Reports, switch, net, Reported
<1>2. CASE report_binlog_update(t) /\ enabled
  <2>1. /\ info' = [info EXCEPT ![t] = binlogEnd + 1] /\ failed' = failed
        /\ pc' = [pc EXCEPT ![t] = "inserting"]
    BY <1>2 DEF report_binlog_update
  <2>2. Types'
    BY <1>1, <2>1 DEF Types, Places, Reports
  <2>3. OneReporter' /\ Reported' = Reported
    BY <1>1, <2>1 DEF OneReporter, Reported, Types, Reports
  <2>4. WaitsForSomething' /\ SleeperCovered'
    BY <1>1, <2>1 DEF WaitsForSomething, SleeperCovered, Types, Waits
  <2>5. OffIsEmpty' /\ ReplyReceived' /\ AcksReceived'
    BY <1>1 DEF OffIsEmpty, ReplyReceived, AcksReceived
  <2>6. CommitIsLast' /\ TrackedOrReceived'
    BY <1>1, <2>1, <2>3 DEF CommitIsLast, TrackedOrReceived
  <2> QED
    BY <2>2, <2>3, <2>4, <2>5, <2>6
<1>3. CASE ~(report_binlog_update(t) /\ enabled)
  <2>1. /\ info' = info /\ pc' = [pc EXCEPT ![t] = "reported"]
        /\ \/ ~enabled /\ failed' = failed
           \/ failed' = failed \cup {binlogEnd + 1}
    BY <1>3 DEF report_binlog_update, AllocationFails
  <2>2. Types'
    <3>0. failed \in SUBSET Nat /\ binlogEnd + 1 \in Nat
      BY DEF Types
    <3>1. failed' \in SUBSET Nat
      BY <2>1, <3>0, Zenon
    <3>2. pc' \in [Threads -> Places]
      BY <2>1 DEF Types, Places, Reports
    <3> QED
      BY <1>1, <2>1, <3>1, <3>2 DEF Types
  <2>3. OneReporter' /\ Reported' = binlogEnd + 1
    BY <1>1, <2>1 DEF OneReporter, Reported, Types, Reports
  <2>4. WaitsForSomething' /\ SleeperCovered'
    BY <1>1, <2>1 DEF WaitsForSomething, SleeperCovered, Types, Waits
  <2>5. OffIsEmpty' /\ ReplyReceived' /\ AcksReceived'
    BY <1>1 DEF OffIsEmpty, ReplyReceived, AcksReceived
  <2>6. enabled => \A p \in (since + 1 .. Reported') \ failed' :
                     p \in (since + 1 .. Reported) \ failed
    <3>1. failed' = failed \cup {binlogEnd + 1} \/ ~enabled
      BY <2>1
    <3>2. \A p \in since + 1 .. binlogEnd + 1 : p # binlogEnd + 1 => p \in since + 1 .. binlogEnd
      BY DEF Types
    <3> QED
      BY <1>1, <2>3, <3>1, <3>2
  <2>7. CommitIsLast'
    BY <1>1, <2>3, <2>6 DEF CommitIsLast, Types
  <2>8. TrackedOrReceived'
    BY <1>1, <2>6 DEF TrackedOrReceived, OffIsEmpty
  <2> QED
    BY <2>2, <2>3, <2>4, <2>5, <2>7, <2>8
<1> QED
  BY <1>2, <1>3

\* The position that is about to be published is greater than all others.
LEMMA InsertKeepsInv ==
  ASSUME SemiSyncInv, NEW t \in Threads, write_tranx_in_binlog(t)
  PROVE  SemiSyncInv'
<1> USE DEF SemiSyncInv
<1> DEFINE pos == binlogEnd + 1
<1>1. /\ pc[t] = "inserting" /\ pc' = [pc EXCEPT ![t] = "reported"]
      /\ UNCHANGED <<info, killed, recv, acks, binlogEnd, failed>> /\ pos \in Nat
  BY DEF write_tranx_in_binlog, memory, net, Types
<1>2. OneReporter' /\ Reported = binlogEnd /\ Reported' = pos
  BY <1>1 DEF OneReporter, Reported, Types, Reports
<1>3. WaitsForSomething' /\ pc' \in [Threads -> Places]
  BY <1>1 DEF WaitsForSomething, Types, Waits, Places, Reports
<1>4. \A u \in Threads : pc'[u] = "asleep" => pc[u] = "asleep"
  BY <1>1 DEF Types
<1>5. AcksReceived'
  BY <1>1 DEF AcksReceived
<1>6. CASE enabled
  <2>1. /\ commit' = Max({commit, pos})
        /\ active' = IF state THEN active \cup {pos} ELSE active
        /\ UNCHANGED <<enabled, state, wait, reply, since>>
    BY <1>6 DEF write_tranx_in_binlog
  <2>2. commit' \in Nat /\ pos <= commit' /\ commit <= commit'
    <3>1. commit \in Nat /\ pos \in Nat
      BY <1>1 DEF Types
    <3> HIDE DEF pos
    <3> QED
      BY <2>1, <3>1, MaxOfTwo
  <2>3. Types' /\ OffIsEmpty'
    BY <1>1, <1>3, <2>1, <2>2 DEF Types, OffIsEmpty
  <2>4. CommitIsLast'
    <3>1. since <= pos
      BY <1>2 DEF CommitIsLast, Types
    <3>2. ASSUME NEW p \in (since + 1 .. pos) \ failed
          PROVE  p <= commit'
      <4>1. p = pos \/ p \in (since + 1 .. Reported) \ failed
        BY <1>2 DEF Types
      <4> QED
        BY <1>6, <2>2, <4>1 DEF CommitIsLast, Types
    <3> QED
      BY <1>1, <1>2, <2>1, <3>1, <3>2, Zenon DEF CommitIsLast
  <2>5. ReplyReceived'
    <3>1. reply <= binlogEnd
      BY DEF ReplyReceived, AcksReceived, Types
    <3> QED
      BY <1>1, <2>1, <3>1 DEF ReplyReceived, Types
  <2>6. SleeperCovered'
    BY <1>1, <1>4, <2>1 DEF SleeperCovered
  <2>7. TrackedOrReceived'
    <3> SUFFICES ASSUME state, NEW p \in (since + 1 .. pos) \ failed
                 PROVE  p \in active' \/ \E r \in Replicas : recv[r] >= p
      BY <1>1, <1>2, <2>1 DEF TrackedOrReceived
    <3>1. p = pos \/ p \in (since + 1 .. Reported) \ failed
      BY <1>2 DEF Types
    <3> QED
      BY <2>1, <3>1 DEF TrackedOrReceived
  <2> QED
    BY <1>2, <1>3, <1>5, <2>3, <2>4, <2>5, <2>6, <2>7
<1>7. CASE ~enabled
  <2>1. UNCHANGED <<enabled, state, active, commit, wait, reply, since>>
    BY <1>7 DEF write_tranx_in_binlog, switch
  <2>2. Types' /\ CommitIsLast'
    BY <1>1, <1>2, <1>3, <1>7, <2>1 DEF Types, CommitIsLast
  <2>3. OffIsEmpty' /\ ReplyReceived' /\ TrackedOrReceived'
    BY <1>1, <1>7, <2>1 DEF OffIsEmpty, ReplyReceived, TrackedOrReceived
  <2>4. SleeperCovered'
    BY <1>1, <1>4, <2>1 DEF SleeperCovered
  <2> QED
    BY <1>2, <1>3, <1>5, <2>2, <2>3, <2>4
<1> QED
  BY <1>6, <1>7 DEF Types

\* Without a node for the transaction there is nothing to track it with, and
\* semi-sync is switched off.
LEMMA InsertFailsKeepsInv ==
  ASSUME SemiSyncInv, NEW t \in Threads, InsertFails(t)
  PROVE  SemiSyncInv'
<1> USE DEF SemiSyncInv
<1> DEFINE pos == binlogEnd + 1
<1>1. /\ pc[t] = "inserting" /\ enabled /\ pos \in Nat
      /\ commit' = Max({commit, pos})
      /\ state' = FALSE /\ active' = {} /\ wait' = 0 /\ reply' = 0
      /\ pc' = [Broadcast(pc) EXCEPT ![t] = "reported"]
      /\ UNCHANGED <<enabled, since, info, killed, recv, acks, binlogEnd, failed>>
  BY DEF InsertFails, memory, net, Types
<1>2. commit' \in Nat /\ pos <= commit' /\ commit <= commit'
  <2>1. commit \in Nat /\ pos \in Nat
    BY <1>1 DEF Types
  <2> HIDE DEF pos
  <2> QED
    BY <1>1, <2>1, MaxOfTwo
<1>3. /\ pc' \in [Threads -> Places]
      /\ \A u \in Threads : pc'[u] # "asleep"
      /\ \A u \in Threads : pc'[u] \in Waits => pc[u] \in Waits
      /\ \A u \in Threads : pc'[u] \in Reports => pc[u] \in Reports
      /\ pc'[t] = "reported"
  BY <1>1, BroadcastEffect DEF Waits, Reports, Places
<1>4. OneReporter' /\ Reported = binlogEnd /\ Reported' = pos
  BY <1>1, <1>3 DEF OneReporter, Reported, Reports
<1>5. CommitIsLast'
  <2>1. since <= pos
    BY <1>4 DEF CommitIsLast, Types
  <2>2. ASSUME NEW p \in (since + 1 .. pos) \ failed
        PROVE  p <= commit'
    <3>1. p = pos \/ p \in (since + 1 .. Reported) \ failed
      BY <1>4 DEF Types
    <3> QED
      BY <1>1, <1>2, <3>1 DEF CommitIsLast, Types
  <2> QED
    BY <1>1, <1>4, <2>1, <2>2, Zenon DEF CommitIsLast
<1>6. WaitsForSomething'
  BY <1>1, <1>3 DEF WaitsForSomething
<1>7. info' \in [Threads -> Nat] /\ killed' \in [Threads -> BOOLEAN]
  BY <1>1 DEF Types
<1> QED
  BY <1>1, <1>2, <1>3, <1>4, <1>5, <1>6, <1>7, SwitchOffKeepsInv, Zenon DEF Types

\* Publication makes the reported position readable and changes nothing else.
LEMMA PublishKeepsInv ==
  ASSUME SemiSyncInv, NEW t \in Threads, update_binlog_end_pos(t)
  PROVE  SemiSyncInv'
<1> USE DEF SemiSyncInv
<1>1. /\ pc[t] = "reported" /\ binlogEnd' = binlogEnd + 1
      /\ pc' = [pc EXCEPT ![t] = "written"]
      /\ UNCHANGED <<enabled, state, active, commit, wait, reply, since, info, killed,
                     recv, acks, failed>>
  BY DEF update_binlog_end_pos, switch, memory, net
<1>2. OneReporter' /\ Reported' = Reported
  BY <1>1 DEF OneReporter, Reported, Types, Reports
<1>3. Types'
  BY <1>1 DEF Types, Places
<1>4. WaitsForSomething' /\ SleeperCovered'
  BY <1>1 DEF WaitsForSomething, SleeperCovered, Types, Waits
<1>5. AcksReceived'
  BY <1>1 DEF AcksReceived, Types
<1>6. OffIsEmpty' /\ ReplyReceived' /\ CommitIsLast' /\ TrackedOrReceived'
  BY <1>1, <1>2 DEF OffIsEmpty, ReplyReceived, CommitIsLast, TrackedOrReceived
<1> QED
  BY <1>2, <1>3, <1>4, <1>5, <1>6

\* A thread of commit_trx() whose timed wait expired switches semi-sync off
\* and wakes the others.
LEMMA TimedOutKeepsInv ==
  ASSUME SemiSyncInv, NEW t \in Threads, TimedOut(t)
  PROVE  SemiSyncInv'
<1> USE DEF SemiSyncInv
<1>0. pc[t] = "timedout" /\ UNCHANGED <<recv, acks, binlogEnd, failed>>
  BY DEF TimedOut, memory, net
<1>1. CASE enabled
  <2>1. /\ state' = FALSE /\ active' = {} /\ wait' = 0 /\ reply' = 0
        /\ UNCHANGED <<enabled, commit, since>>
        /\ pc' = [Broadcast(pc) EXCEPT ![t] = "idle"]
        /\ info' = [info EXCEPT ![t] = 0]
        /\ killed' = [killed EXCEPT ![t] = FALSE]
    BY <1>1 DEF TimedOut, switch_off
  <2>2. /\ pc' \in [Threads -> Places]
        /\ \A u \in Threads : pc'[u] # "asleep"
        /\ \A u \in Threads : pc'[u] \in Waits => u # t /\ pc[u] \in Waits
    BY <2>1, BroadcastEffect DEF Waits, Places
  <2>3. NobodyReports
    BY <1>0, <2>1, BroadcastEffect DEF NobodyReports, Reports
  <2>4. Reported' = Reported /\ OneReporter'
    BY <2>3, ReportedStays
  <2>5. CommitIsLast'
    BY <1>0, <2>1, <2>4 DEF CommitIsLast
  <2>6. info' \in [Threads -> Nat] /\ killed' \in [Threads -> BOOLEAN]
    BY <2>1 DEF Types
  <2>7. WaitsForSomething'
    BY <2>1, <2>2 DEF WaitsForSomething, Types
  <2> QED
    BY <1>0, <2>1, <2>2, <2>4, <2>5, <2>6, <2>7, SwitchOffKeepsInv, Zenon DEF Types
<1>2. CASE ~enabled
  <2>1. UNCHANGED <<enabled, state, active, commit, wait, reply, since, pc, info, killed>>
    BY <1>2 DEF TimedOut, switch, threads
  <2>2. Types' /\ WaitsForSomething' /\ SleeperCovered' /\ NobodyReports
    BY <1>0, <2>1 DEF Types, WaitsForSomething, SleeperCovered, NobodyReports
  <2> QED
    BY <1>0, <2>1, <2>2, ThreadKeepsInv
<1> QED
  BY <1>1, <1>2 DEF Types

\* switch_off() with its broadcast, and no switch at all, in the two handlers
\* that react to the loss of the last replica.
LEMMA MaybeOffKeepsInv ==
  ASSUME SemiSyncInv, UNCHANGED <<info, killed, recv, acks, binlogEnd, failed>>,
         \/ switch_off /\ pc' = Broadcast(pc)
         \/ UNCHANGED <<switch, pc>>
  PROVE  SemiSyncInv'
<1> USE DEF SemiSyncInv
<1>1. CASE switch_off /\ pc' = Broadcast(pc)
  <2>1. /\ state' = FALSE /\ active' = {} /\ wait' = 0 /\ reply' = 0
        /\ UNCHANGED <<enabled, commit, since>>
    BY <1>1 DEF switch_off
  <2>2. NobodyReports
    BY <1>1, BroadcastEffect DEF NobodyReports
  <2>3. Reported' = Reported /\ OneReporter'
    BY <2>2, ReportedStays
  <2>4. CommitIsLast'
    BY <2>1, <2>3 DEF CommitIsLast
  <2>5. WaitsForSomething'
    BY <1>1, BroadcastEffect DEF WaitsForSomething
  <2> QED
    BY <1>1, <2>1, <2>3, <2>4, <2>5, BroadcastEffect, SwitchOffKeepsInv, Zenon DEF Types
<1>2. CASE UNCHANGED <<switch, pc>>
  <2>1. UNCHANGED <<enabled, state, active, commit, wait, reply, since, pc>>
    BY <1>2 DEF switch
  <2>2. Types' /\ WaitsForSomething' /\ SleeperCovered' /\ NobodyReports
    BY <2>1 DEF Types, WaitsForSomething, SleeperCovered, NobodyReports
  <2> QED
    BY <2>1, <2>2, ThreadKeepsInv
<1> QED
  BY <1>1, <1>2

-----------------------------------------------------------------------------
(* The invariant *)

LEMMA InitInv == Init => SemiSyncInv
<1> SUFFICES ASSUME Init PROVE SemiSyncInv
  OBVIOUS
<1>1. Types
  <2>1. enabled \in BOOLEAN /\ state \in BOOLEAN /\ killed \in [Threads -> BOOLEAN]
    BY DEF Init
  <2>2. acks \in [Replicas -> Seq(Nat)]
    BY DEF Init
  <2> QED
    BY <2>1, <2>2 DEF Init, Types, Places
<1>4. OneReporter /\ Reported = 0
  BY DEF Init, OneReporter, Reports, Reported
<1>2. OffIsEmpty /\ CommitIsLast /\ AcksReceived /\ ReplyReceived
  BY <1>4 DEF Init, OffIsEmpty, CommitIsLast, AcksReceived, ReplyReceived
<1>3. WaitsForSomething /\ SleeperCovered /\ TrackedOrReceived
  BY <1>4 DEF Init, WaitsForSomething, Waits, SleeperCovered, TrackedOrReceived
<1> QED
  BY <1>1, <1>2, <1>3, <1>4 DEF SemiSyncInv

LEMMA CommitterKeepsInv ==
  ASSUME SemiSyncInv, NEW t \in Threads, Report(t) \/ Commit(t) \/ Expire(t) \/ Kill(t)
  PROVE  SemiSyncInv'
<1> USE DEF SemiSyncInv
<1>1. CASE wait_after_commit(t)
  <2>1. /\ pc[t] = "written"
        /\ pc' = [pc EXCEPT ![t] = IF enabled /\ info[t] # 0 THEN "committing" ELSE "idle"]
        /\ UNCHANGED <<enabled, state, active, commit, wait, reply, since, info, killed,
                       failed, recv, acks, binlogEnd>>
    BY <1>1 DEF wait_after_commit, switch, memory, net
  <2>2. Types'
    BY <2>1 DEF Types, Waits, Places
  <2>3. WaitsForSomething' /\ SleeperCovered'
    BY <2>1 DEF Types, Waits, WaitsForSomething, SleeperCovered
  <2>4. NobodyReports
    BY <2>1 DEF NobodyReports, Types, Reports
  <2> QED
    BY <2>1, <2>2, <2>3, <2>4, ThreadKeepsInv
<1>2. CASE commit_trx(t) \/ Woken(t)
  BY <1>2, LoopKeepsInv DEF commit_trx, Woken, Waits
<1>3. CASE Expire(t)
  <2>1. /\ pc[t] = "asleep" /\ pc' = [pc EXCEPT ![t] = "timedout"]
        /\ UNCHANGED <<enabled, state, active, commit, wait, reply, since, info, killed,
                       failed, recv, acks, binlogEnd>>
    BY <1>3 DEF Expire, switch, memory, net
  <2>2. Types'
    BY <2>1 DEF Types, Waits, Places
  <2>3. WaitsForSomething' /\ SleeperCovered'
    BY <2>1 DEF Types, Waits, WaitsForSomething, SleeperCovered
  <2>4. NobodyReports
    BY <2>1 DEF NobodyReports, Types, Reports
  <2> QED
    BY <2>1, <2>2, <2>3, <2>4, ThreadKeepsInv
<1>4. CASE Kill(t)
  <2>1. /\ pc' = IF pc[t] = "asleep" THEN Broadcast(pc) ELSE pc
        /\ killed' = [killed EXCEPT ![t] = TRUE]
        /\ UNCHANGED <<enabled, state, active, commit, wait, reply, since, info,
                       failed, recv, acks, binlogEnd>>
    BY <1>4 DEF Kill, switch, memory, net
  <2>2. Types'
    <3>1. killed' \in [Threads -> BOOLEAN]
      BY <2>1 DEF Types
    <3> QED
      BY <2>1, <3>1, BroadcastEffect DEF Types
  <2>3. WaitsForSomething' /\ SleeperCovered'
    BY <2>1, BroadcastEffect DEF WaitsForSomething, SleeperCovered
  <2>4. NobodyReports
    BY <2>1, BroadcastEffect DEF NobodyReports
  <2> QED
    BY <2>1, <2>2, <2>3, <2>4, ThreadKeepsInv
<1> QED
  BY <1>1, <1>2, <1>3, <1>4, ReportKeepsInv, InsertKeepsInv, InsertFailsKeepsInv,
     PublishKeepsInv, TimedOutKeepsInv DEF Report, Commit

LEMMA ReplicaKeepsInv ==
  ASSUME SemiSyncInv, NEW r \in Replicas, Dump(r) \/ Receive(r) \/ remove_slave(r)
  PROVE  SemiSyncInv'
<1> USE DEF SemiSyncInv
<1>1. CASE dump_start(r)
  <2>1. /\ report_reply_binlog(recv[r])
        /\ UNCHANGED <<info, killed, recv, acks, binlogEnd, failed>>
    BY <1>1 DEF dump_start, memory
  <2>2. AcksReceived' /\ acks' \in [Replicas -> Seq(Nat)] /\ recv[r] \in Nat
    BY <2>1 DEF AcksReceived, Types
  <2> QED
    BY <2>1, <2>2, ReplyKeepsInv
<1>2. CASE report_reply_packet(r)
  <2>1. /\ acks[r] # <<>> /\ acks' = [acks EXCEPT ![r] = Tail(@)]
        /\ report_reply_binlog(Head(acks[r]))
        /\ UNCHANGED <<info, killed, recv, binlogEnd, failed>>
    BY <1>2 DEF report_reply_packet, memory
  <2>2. Head(acks[r]) \in Nat /\ Head(acks[r]) <= recv[r]
    BY <2>1 DEF AcksReceived, Types
  <2>3. acks' \in [Replicas -> Seq(Nat)]
    BY <2>1 DEF Types
  <2>4. AcksReceived'
    <3>1. \A i \in DOMAIN Tail(acks[r]) : Tail(acks[r])[i] <= recv[r]
      BY <2>1 DEF AcksReceived, Types
    <3> QED
      BY <2>1, <3>1, SMTT(30) DEF AcksReceived, Types
  <2> QED
    BY <2>1, <2>2, <2>3, <2>4, ReplyKeepsInv
<1>3. CASE send_event_to_slave(r)
  <2> DEFINE pos == recv[r] + 1
  <2>1. /\ pos <= binlogEnd
        /\ recv' = [recv EXCEPT ![r] = pos]
        /\ acks' = IF need_sync(pos) THEN [acks EXCEPT ![r] = Append(@, pos)] ELSE acks
        /\ UNCHANGED <<enabled, state, active, commit, wait, reply, since, pc, info, killed,
                       failed, binlogEnd>>
    BY <1>3 DEF send_event_to_slave, switch, threads, memory
  <2>2. recv' \in [Replicas -> Nat] /\ \A q \in Replicas : recv[q] <= recv'[q]
    BY <2>1 DEF Types
  <2>3. acks' \in [Replicas -> Seq(Nat)]
    BY <2>1 DEF Types
  <2>4. AcksReceived'
    <3>1. \A i \in DOMAIN Append(acks[r], pos) : Append(acks[r], pos)[i] <= pos
      BY DEF AcksReceived, Types
    <3>2. \A i \in DOMAIN acks[r] : acks[r][i] <= pos
      BY DEF AcksReceived, Types
    <3> QED
      BY <2>1, <3>1, <3>2 DEF AcksReceived, Types
  <2>5. Reported' = Reported /\ OneReporter'
    BY <2>1, Zenon DEF Reported, OneReporter
  <2>6. ReplyReceived'
    BY <2>1, <2>2 DEF ReplyReceived, Types
  <2>7. TrackedOrReceived'
    <3> SUFFICES ASSUME state, NEW p \in (since + 1 .. Reported) \ failed
                 PROVE  p \in active \/ \E q \in Replicas : recv'[q] >= p
      BY <2>1, <2>5 DEF TrackedOrReceived
    <3>1. CASE p \in active
      BY <3>1
    <3>2. ASSUME NEW q \in Replicas, recv[q] >= p
          PROVE  recv'[q] >= p
      BY <2>2, <3>2 DEF Types
    <3> QED
      BY <3>1, <3>2 DEF TrackedOrReceived
  <2>8. CommitIsLast' /\ OffIsEmpty' /\ WaitsForSomething' /\ SleeperCovered'
    BY <2>1, <2>5 DEF OffIsEmpty, CommitIsLast, WaitsForSomething, SleeperCovered
  <2>9. Types'
    BY <2>1, <2>2, <2>3 DEF Types
  <2> QED
    BY <2>4, <2>5, <2>6, <2>7, <2>8, <2>9
<1>4. CASE ack_remove_slave(r)
  <2>1. /\ acks' = [acks EXCEPT ![r] = <<>>]
        /\ UNCHANGED <<enabled, state, active, commit, wait, reply, since, pc, info, killed,
                       failed, recv, binlogEnd>>
    BY <1>4 DEF ack_remove_slave, switch, threads, memory
  <2>2. acks' \in [Replicas -> Seq(Nat)] /\ AcksReceived'
    BY <2>1 DEF Types, AcksReceived
  <2>3. Reported' = Reported /\ OneReporter'
    BY <2>1, Zenon DEF Reported, OneReporter
  <2>4. Types' /\ OffIsEmpty' /\ ReplyReceived' /\ WaitsForSomething' /\ SleeperCovered'
    BY <2>1, <2>2 DEF Types, OffIsEmpty, ReplyReceived, WaitsForSomething, SleeperCovered
  <2>5. CommitIsLast' /\ TrackedOrReceived'
    BY <2>1, <2>3 DEF CommitIsLast, TrackedOrReceived
  <2> QED
    BY <2>2, <2>3, <2>4, <2>5
<1>5. CASE remove_slave(r)
  BY <1>5, MaybeOffKeepsInv DEF remove_slave, memory
<1> QED
  BY <1>1, <1>2, <1>3, <1>4, <1>5 DEF Dump, Receive

LEMMA AdminKeepsInv ==
  ASSUME SemiSyncInv,
         disable_master \/ ack_receiver_stop \/ enable_master \/ check_and_switch
  PROVE  SemiSyncInv'
<1> USE DEF SemiSyncInv
<1>1. CASE disable_master
  <2>1. /\ enabled' = FALSE /\ state' = FALSE /\ active' = {}
        /\ commit' = 0 /\ wait' = 0 /\ reply' = 0 /\ pc' = Broadcast(pc)
        /\ UNCHANGED <<since, info, killed, failed, recv, acks, binlogEnd>>
    BY <1>1 DEF disable_master, memory, net
  <2>2. NobodyReports
    BY <2>1, BroadcastEffect DEF NobodyReports
  <2>3. Reported' = Reported /\ OneReporter'
    BY <2>2, ReportedStays
  <2>4. CommitIsLast'
    BY <2>1, <2>3 DEF CommitIsLast
  <2>5. WaitsForSomething'
    BY <2>1, BroadcastEffect, SMTT(30) DEF WaitsForSomething
  <2> QED
    BY <2>1, <2>3, <2>4, <2>5, BroadcastEffect, SwitchOffKeepsInv, Zenon DEF Types
<1>2. CASE ack_receiver_stop
  <2>1. UNCHANGED <<enabled, state, active, commit, wait, reply, since, pc, info, killed,
                    failed, recv, acks, binlogEnd>>
    BY <1>2 DEF ack_receiver_stop, switch, threads, memory
  <2>2. Types' /\ WaitsForSomething' /\ SleeperCovered' /\ NobodyReports
    BY <2>1 DEF Types, WaitsForSomething, SleeperCovered, NobodyReports
  <2> QED
    BY <2>1, <2>2, ThreadKeepsInv
<1>3. CASE enable_master
  <2>1. /\ ~enabled /\ enabled' = TRUE /\ state' = TRUE /\ active' = {}
        /\ commit' = 0 /\ wait' = 0 /\ reply' = 0 /\ since' = Reported
        /\ UNCHANGED <<pc, info, killed, failed, recv, acks, binlogEnd>>
    BY <1>3 DEF enable_master, threads, memory
  <2>2. Reported' = Reported /\ OneReporter' /\ Reported \in Nat
    BY <2>1 DEF Reported, OneReporter, Types
  <2>3. Types' /\ OffIsEmpty' /\ AcksReceived' /\ ReplyReceived'
    BY <2>1, <2>2 DEF Types, OffIsEmpty, AcksReceived, ReplyReceived
  <2>4. WaitsForSomething' /\ SleeperCovered'
    BY <2>1 DEF OffIsEmpty, WaitsForSomething, SleeperCovered, Types
  <2>5. CommitIsLast' /\ TrackedOrReceived'
    BY <2>1, <2>2 DEF CommitIsLast, TrackedOrReceived
  <2> QED
    BY <2>2, <2>3, <2>4, <2>5
<1>4. CASE check_and_switch
  BY <1>4, MaybeOffKeepsInv DEF check_and_switch, memory, net
<1> QED
  BY <1>1, <1>2, <1>3, <1>4

LEMMA StepInv == SemiSyncInv /\ [Next]_vars => SemiSyncInv'
<1> SUFFICES ASSUME SemiSyncInv, [Next]_vars PROVE SemiSyncInv'
  OBVIOUS
<1>1. CASE UNCHANGED vars
  <2>1. UNCHANGED <<enabled, state, active, commit, wait, reply, since, pc, info, killed,
                    failed, recv, acks, binlogEnd>>
    BY <1>1 DEF vars, switch, threads, memory, net
  <2>2. Types' /\ WaitsForSomething' /\ SleeperCovered' /\ NobodyReports
    BY <2>1 DEF SemiSyncInv, Types, WaitsForSomething, SleeperCovered, NobodyReports
  <2> QED
    BY <2>1, <2>2, ThreadKeepsInv
<1>2. CASE Next
  BY <1>2, CommitterKeepsInv, ReplicaKeepsInv, AdminKeepsInv DEF Next
<1> QED
  BY <1>1, <1>2

\* Nobody but the thread itself takes it out of commit_trx().
LEMMA OwnReturn ==
  ASSUME SemiSyncInv, Next, NEW t \in Threads,
         pc[t] \in {"committing", "woken", "timedout"}, pc'[t] = "idle"
  PROVE  commit_trx(t) \/ Woken(t) \/ TimedOut(t)
<1> USE DEF SemiSyncInv
<1>0. Broadcast(pc)[t] # "idle" /\ pc[t] # "idle"
  BY BroadcastEffect DEF Waits
<1>1. SUFFICES ASSUME NEW u \in Threads,
                      Report(u) \/ Commit(u) \/ Expire(u) \/ Kill(u)
               PROVE  commit_trx(t) \/ Woken(t) \/ TimedOut(t)
  <2>1. ASSUME NEW r \in Replicas, Dump(r) \/ Receive(r) \/ remove_slave(r)
        PROVE  pc' = pc \/ pc' = Broadcast(pc)
    BY <2>1 DEF Dump, Receive, remove_slave, dump_start, send_event_to_slave,
       report_reply_packet, ack_remove_slave, report_reply_binlog, threads
  <2>2. ASSUME disable_master \/ ack_receiver_stop \/ enable_master \/ check_and_switch
        PROVE  pc' = pc \/ pc' = Broadcast(pc)
    BY <2>2 DEF disable_master, ack_receiver_stop, enable_master, check_and_switch, threads
  <2> QED
    BY <1>0, <2>1, <2>2 DEF Next
<1>2. CASE u = t
  <2>1. ~Report(u) /\ ~write_tranx_in_binlog(u) /\ ~update_binlog_end_pos(u)
        /\ ~wait_after_commit(u) /\ ~Expire(u)
    BY <1>2 DEF Report, report_binlog_update, AllocationFails, InsertFails,
       write_tranx_in_binlog, update_binlog_end_pos, wait_after_commit, Expire
  <2>2. ~Kill(u)
    BY <1>0 DEF Kill
  <2> QED
    BY <1>1, <1>2, <2>1, <2>2, Zenon DEF Commit
<1>3. CASE u # t
  <2>1. pc'[t] = pc[t] \/ pc'[t] = Broadcast(pc)[t]
    <3>0. Broadcast(pc) \in [Threads -> Places]
      BY BroadcastEffect
    <3>1. CASE commit_trx(u) \/ Woken(u)
      BY <1>3, <3>1 DEF commit_trx, Woken, CommitLoop, Return, Types
    <3>2. CASE TimedOut(u)
      BY <1>3, <3>0, <3>2 DEF TimedOut, threads, Types
    <3>3. CASE InsertFails(u)
      BY <1>3, <3>0, <3>3 DEF InsertFails
    <3>4. CASE wait_after_commit(u) \/ Expire(u) \/ Kill(u)
      BY <1>3, <3>4 DEF wait_after_commit, Expire, Kill, Types
    <3>5. CASE \/ report_binlog_update(u) \/ AllocationFails(u)
               \/ write_tranx_in_binlog(u) \/ update_binlog_end_pos(u)
      BY <1>3, <3>5 DEF report_binlog_update, AllocationFails, write_tranx_in_binlog,
         update_binlog_end_pos, Types
    <3> QED
      BY <1>1, <3>1, <3>2, <3>3, <3>4, <3>5, Zenon DEF Report, Commit
  <2> QED
    BY <1>0, <2>1
<1> QED
  BY <1>2, <1>3

LEMMA ReturnSettled ==
  ASSUME SemiSyncInv, [Next]_vars, NEW t \in Threads,
         pc[t] \in {"committing", "woken", "timedout"}, pc'[t] = "idle", ~killed[t]
  PROVE  /\ ~state' \/ \E r \in Replicas : recv[r] >= info[t]
         /\ info[t] \notin active'
<1> USE DEF SemiSyncInv
<1>1. Next
  BY DEF vars, threads
<1>2. info[t] \in Nat /\ info[t] # 0
  BY DEF Types, WaitsForSomething, Waits
<1>3. CASE commit_trx(t) \/ Woken(t)
  <2>1. (~state \/ reply >= info[t]) /\ UNCHANGED <<state, active>>
    BY <1>3 DEF commit_trx, Woken, CommitLoop, switch, Types
  <2>2. CASE ~state
    BY <2>1, <2>2 DEF OffIsEmpty
  <2>3. CASE reply >= info[t]
    <3>1. reply # 0
      BY <1>2, <2>3 DEF Types
    <3>2. PICK r \in Replicas : recv[r] >= reply
      BY <3>1 DEF ReplyReceived
    <3>3. recv[r] >= info[t]
      BY <1>2, <2>3, <3>2 DEF Types
    <3>4. info[t] \notin active
      BY <1>2, <2>3 DEF ReplyReceived, Types
    <3> QED
      BY <2>1, <3>3, <3>4
  <2> QED
    BY <2>1, <2>2, <2>3
<1>4. CASE TimedOut(t)
  <2>1. CASE enabled
    BY <1>4, <2>1 DEF TimedOut, switch_off
  <2>2. CASE ~enabled
    BY <1>4, <2>2 DEF TimedOut, threads
  <2> QED
    BY <2>1, <2>2
<1> QED
  BY <1>1, <1>3, <1>4, OwnReturn

-----------------------------------------------------------------------------
(* The theorems *)

\* No wake-up is lost in commit_trx(): whoever sleeps does so on a master that
\* is on, has no acknowledgement yet and is covered by m_wait_file_pos, whose
\* acknowledgement makes report_reply_binlog() broadcast.
THEOREM NoSleeperForgotten == Spec => []SleeperCovered
<1>1. Spec => []SemiSyncInv
  BY InitInv, StepInv, PTL DEF Spec
<1>2. SemiSyncInv => SleeperCovered
  BY DEF SemiSyncInv
<1> QED
  BY <1>1, <1>2, PTL

\* While semi-sync is on, every transaction that report_binlog_update() was
\* called for since it was enabled, and did not fail for lack of memory, is in
\* m_active_tranxs until a replica has it, whatever happened to the switch in
\* between.
THEOREM NoTransactionForgotten == Spec => []TrackedOrReceived
<1>1. Spec => []SemiSyncInv
  BY InitInv, StepInv, PTL DEF Spec
<1>2. SemiSyncInv => TrackedOrReceived
  BY DEF SemiSyncInv
<1> QED
  BY <1>1, <1>2, PTL

\* commit_trx() of a thread that was not killed returns only when a replica
\* has the transaction or semi-sync is off, and leaves nothing of it in
\* m_active_tranxs.
THEOREM CommitSettled == Spec => SettledAtReturn
<1> DEFINE Settled ==
      \A t \in Threads :
        pc[t] \in {"committing", "woken", "timedout"} /\ pc'[t] = "idle" /\ ~killed[t]
            => /\ ~state' \/ \E r \in Replicas : recv[r] >= info[t]
               /\ info[t] \notin active'
<1>1. Spec => []SemiSyncInv
  BY InitInv, StepInv, PTL DEF Spec
<1>2. SemiSyncInv /\ [Next]_vars => [Settled]_vars
  BY ReturnSettled
<1>3. SettledAtReturn <=> [][Settled]_vars
  BY DEF SettledAtReturn
<1> HIDE DEF Settled
<1> QED
  BY <1>1, <1>2, <1>3, PTL DEF Spec

=============================================================================

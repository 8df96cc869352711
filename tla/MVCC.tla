-------------------------------- MODULE MVCC ---------------------------------
(***************************************************************************)
(* Read views and purge of InnoDB, over TrxSys: ReadView::open()/close(),  *)
(* ReadViewBase::snapshot()/append() (read0read.cc, read0types.h),         *)
(* trx_sys_t::snapshot_ids() and clone_oldest_view(), and the use of the   *)
(* cloned view by the purge coordinator (trx0purge.cc).                    *)
(*                                                                         *)
(* A snapshot walks the lock-free hash element by element while            *)
(* transactions register, draw numbers and deregister.  The walk           *)
(* (mysys/lf_hash.cc, l_find) visits every element that stays in the hash, *)
(* in any order; when it meets an element being deleted it may go back to  *)
(* the start of the bucket and visit elements again.                       *)
(***************************************************************************)
EXTENDS TrxSys, FiniteSetsExt

CONSTANTS
    Reader,     \* trx_t objects that open read views
    Autocommit, \* those of them with is_autocommit_non_locking()
    Purger,     \* the purge coordinator, another maker of snapshots (if any)
    MaxRetry    \* bound on the retries of one walk of the hash

ASSUME MVCCAssumption == /\ Autocommit \subseteq Reader
                         /\ Purger \cap Reader = {}
                         /\ MaxRetry \in Nat

Walker == Reader \cup Purger

VARIABLES
    view,       \* ReadView of every reader, and purge_sys.view
    walk,       \* the snapshot in progress of every walker
    purged      \* identifiers whose history purge has removed

viewVars == <<view, walk, purged>>
vars == <<trxSysVars, viewVars>>

\* The transactions that have a serialisation number, hence changes to see; the
\* identifiers in use, drawn for a transaction that has not ended; and the
\* transactions with changes that have ended.
Numbered == {i \in Id : no[i] < TRX_ID_MAX}
Running == {trx[t].id : t \in Trx} \ {0}
Ended == Numbered \ Running

\* m_ids is a sorted vector: the set of its elements.  Two fields of a view are
\* history, read by properties only: `before', the transactions that had ended
\* when open() was called, and `twice', whether the walk had collected an
\* identifier twice.
ClosedView == [open |-> FALSE, low_limit_id |-> 0, up_limit_id |-> 0,
               ids |-> {}, low_limit_no |-> 0, before |-> {}, twice |-> FALSE]

\* The state of snapshot_ids(): the argument of copy_one_id() (m_id, m_no, the
\* elements and the size of m_ids), what the walk has still to visit, and the
\* retries it may still meet.
IdleWalk == [pc |-> "idle", m_id |-> 0, m_no |-> 0, ids |-> {}, size |-> 0,
             todo |-> {}, retries |-> 0, before |-> {}]

Init ==
    /\ TrxSysInit
    /\ view = [k \in Walker |-> ClosedView]
    /\ walk = [k \in Walker |-> IdleWalk]
    /\ purged = {}

\* ReadViewBase::changes_visible()
changes_visible(v, id) == /\ id < v.low_limit_id
                          /\ id < v.up_limit_id \/ id \notin v.ids

-----------------------------------------------------------------------------
(* trx_sys_t::snapshot_ids() and ReadViewBase::snapshot() *)

BeginSnapshot(k) ==
    walk' = [walk EXCEPT ![k] =
               [IdleWalk EXCEPT !.pc = "version",
                                !.before = IF k \in Reader THEN Ended ELSE {}]]

\* arg.m_id= get_rw_trx_hash_version() ...
ReadVersion(k) ==
    /\ walk[k].pc = "version"
    /\ walk' = [walk EXCEPT ![k].pc = "compare",
                            ![k].m_id = m_rw_trx_hash_version]
    /\ UNCHANGED <<trxSysVars, view, purged>>

\* Mutant: the walk starts whatever the version is.
CompareVersion_NoSpin(k) ==
    /\ walk[k].pc = "compare"
    /\ walk' = [walk EXCEPT ![k] =
          IF FALSE
            THEN [walk[k] EXCEPT !.pc = "version"]
            ELSE [walk[k] EXCEPT !.pc = "walk", !.m_no = walk[k].m_id,
                                 !.todo = rw_trx_hash]]
    /\ UNCHANGED <<trxSysVars, view, purged>>

\* ... != get_max_trx_id(): try again, or start to walk the hash.  An element
\* inserted from now on has a greater identifier, which copy_one_id() skips.
CompareVersion(k) ==
    /\ walk[k].pc = "compare"
    /\ walk' = [walk EXCEPT ![k] =
          IF walk[k].m_id # m_max_trx_id
            THEN [walk[k] EXCEPT !.pc = "version"]
            ELSE [walk[k] EXCEPT !.pc = "walk", !.m_no = walk[k].m_id,
                                 !.todo = rw_trx_hash]]
    /\ UNCHANGED <<trxSysVars, view, purged>>

\* Mutant: serialisation numbers are not collected.
copy_one_id_NoNumber(arg, id) ==
    IF id < arg.m_id
      THEN [arg EXCEPT !.ids = @ \cup {id}, !.size = @ + 1,
                       !.m_no = @]
      ELSE arg

copy_one_id(arg, id) ==
    IF id < arg.m_id
      THEN [arg EXCEPT !.ids = @ \cup {id}, !.size = @ + 1,
                       !.m_no = IF no[id] < @ THEN no[id] ELSE @]
      ELSE arg

\* The walk reaches an element; one that is deleted is passed over.
Visit(k) ==
    /\ walk[k].pc = "walk"
    /\ \E id \in walk[k].todo :
         LET arg == [walk[k] EXCEPT !.todo = @ \ {id}]
         IN  walk' = [walk EXCEPT ![k] = IF id \in rw_trx_hash
                                           THEN copy_one_id(arg, id) ELSE arg]
    /\ UNCHANGED <<trxSysVars, view, purged>>

\* l_find(): the walk cannot unlink a deleted element, because another thread
\* was faster, and goes back to the last dummy node.  The elements of that
\* bucket are visited again.
Retry(k) ==
    /\ walk[k].pc = "walk"
    /\ walk[k].retries > 0
    /\ \E again \in SUBSET (walk[k].ids \cap rw_trx_hash) :
         /\ again # {}
         /\ walk' = [walk EXCEPT ![k].todo = @ \cup again,
                                 ![k].retries = @ - 1]
    /\ UNCHANGED <<trxSysVars, view, purged>>

\* Mutant: m_ids is dropped without counting.
snapshot_AnyGap(arg) ==
    LET v == [open |-> FALSE, low_limit_id |-> arg.m_id,
              up_limit_id |-> IF arg.ids = {} THEN arg.m_id ELSE Min(arg.ids),
              ids |-> arg.ids, low_limit_no |-> arg.m_no,
              before |-> arg.before, twice |-> arg.size # Cardinality(arg.ids)]
    IN  IF /\ v.ids # {}
           /\ v.low_limit_no = v.low_limit_id
          THEN [v EXCEPT !.ids = {}, !.low_limit_id = v.up_limit_id,
                         !.low_limit_no = v.up_limit_id]
          ELSE v

\* snapshot() after the walk.  When the active transactions are exactly the
\* newest ones the view is the same as one without them, and m_ids is dropped.
snapshot(arg) ==
    LET v == [open |-> FALSE, low_limit_id |-> arg.m_id,
              up_limit_id |-> IF arg.ids = {} THEN arg.m_id ELSE Min(arg.ids),
              ids |-> arg.ids, low_limit_no |-> arg.m_no,
              before |-> arg.before, twice |-> arg.size # Cardinality(arg.ids)]
    IN  IF /\ v.ids # {}
           /\ v.low_limit_no = v.low_limit_id
           /\ v.low_limit_id = v.up_limit_id + arg.size
          THEN [v EXCEPT !.ids = {}, !.low_limit_id = v.up_limit_id,
                         !.low_limit_no = v.up_limit_id]
          ELSE v

-----------------------------------------------------------------------------
(* ReadView *)

\* ReadView::open(), up to the decision.  The view's m_mutex is held from here
\* to OpenSnapshot on the slow path, and not at all on the fast one.
Open(r) ==
    /\ r \in Reader /\ walk[r].pc = "idle" /\ ~view[r].open
    /\ IF /\ r \in Autocommit
          /\ view[r].ids = {}
          /\ view[r].low_limit_id = m_max_trx_id
         THEN walk' = [walk EXCEPT ![r].pc = "reuse", ![r].before = Ended]
         ELSE BeginSnapshot(r)
    /\ UNCHANGED <<trxSysVars, view, purged>>

OpenSnapshot(r) ==
    /\ r \in Reader /\ walk[r].pc = "walk" /\ walk[r].todo = {}
    /\ view' = [view EXCEPT ![r] = [snapshot(walk[r]) EXCEPT !.open = TRUE]]
    /\ walk' = [walk EXCEPT ![r] = IdleWalk]
    /\ UNCHANGED <<trxSysVars, purged>>

\* m_open.store(true) without m_mutex.
OpenReuse(r) ==
    /\ walk[r].pc = "reuse"
    /\ view' = [view EXCEPT ![r].open = TRUE, ![r].before = walk[r].before]
    /\ walk' = [walk EXCEPT ![r] = IdleWalk]
    /\ UNCHANGED <<trxSysVars, purged>>

\* read_view.close() at the end of the reading transaction.  Only the test in
\* open() of an autocommit reader looks at the limits of a closed view again:
\* where nobody does they are dropped.
Close(r) ==
    /\ r \in Reader /\ view[r].open
    /\ view' = [view EXCEPT ![r] = IF r \in Autocommit
                                     THEN [@ EXCEPT !.open = FALSE, !.before = {}]
                                     ELSE ClosedView]
    /\ UNCHANGED <<trxSysVars, walk, purged>>

-----------------------------------------------------------------------------
(* Purge: trx_purge() *)

\* clone_oldest_view(): first a snapshot of its own ...
PurgeBegin(p) ==
    /\ p \in Purger
    /\ walk[p].pc = "idle"
    /\ BeginSnapshot(p)
    /\ UNCHANGED <<trxSysVars, view, purged>>

PurgeSnapshot(p) ==
    /\ p \in Purger
    /\ walk[p].pc = "walk" /\ walk[p].todo = {}
    /\ view' = [view EXCEPT ![p] = snapshot(walk[p])]
    /\ walk' = [walk EXCEPT ![p] = [IdleWalk EXCEPT !.pc = "append",
                                                        !.todo = Reader]]
    /\ UNCHANGED <<trxSysVars, purged>>

\* Mutant: the active transactions of the other view are ignored.
append_NoIds(v, other) ==
    LET low == Min({v.low_limit_id, other.low_limit_id})
        ids == {id \in v.ids : id < low}
    IN  [v EXCEPT !.low_limit_no = Min({@, other.low_limit_no}),
                  !.low_limit_id = low, !.ids = ids,
                  !.up_limit_id = IF ids = {} THEN low ELSE Min(ids)]

\* ReadViewBase::append()
append(v, other) ==
    LET low == Min({v.low_limit_id, other.low_limit_id})
        ids == {id \in v.ids \cup other.ids : id < low}
    IN  [v EXCEPT !.low_limit_no = Min({@, other.low_limit_no}),
                  !.low_limit_id = low, !.ids = ids,
                  !.up_limit_id = IF ids = {} THEN low ELSE Min(ids)]

HoldsMutex(r) == walk[r].pc \in {"version", "compare", "walk"}

\* ... then append_to() for the view of every transaction in trx_list, which
\* waits for the view's m_mutex.
PurgeAppend(p) ==
    /\ p \in Purger
    /\ walk[p].pc = "append"
    /\ \E r \in walk[p].todo :
         /\ ~HoldsMutex(r)
         /\ view' = [view EXCEPT ![p] =
                        IF view[r].open THEN append(@, view[r]) ELSE @]
         /\ walk' = [walk EXCEPT ![p].todo = @ \ {r}]
    /\ UNCHANGED <<trxSysVars, purged>>

\* Mutant: the identifier is compared, not the number.
PurgeHistory_ById(p) ==
    /\ p \in Purger
    /\ walk[p].pc = "append" /\ walk[p].todo = {}
    /\ \E id \in history :
         /\ id < view[p].low_limit_id
         /\ history' = history \ {id}
         /\ purged' = purged \cup {id}
    /\ UNCHANGED <<m_max_trx_id, m_rw_trx_hash_version, rw_trx_hash, no, trx,
                   view, walk>>

\* trx_purge_fetch_next_rec(): undo logs below low_limit_no() are removed.
PurgeHistory(p) ==
    /\ p \in Purger
    /\ walk[p].pc = "append" /\ walk[p].todo = {}
    /\ \E id \in history :
         /\ no[id] < view[p].low_limit_no
         /\ history' = history \ {id}
         /\ purged' = purged \cup {id}
    /\ UNCHANGED <<m_max_trx_id, m_rw_trx_hash_version, rw_trx_hash, no, trx,
                   view, walk>>

PurgeEnd(p) ==
    /\ p \in Purger
    /\ walk[p].pc = "append" /\ walk[p].todo = {}
    /\ walk' = [walk EXCEPT ![p] = IdleWalk]
    /\ UNCHANGED <<trxSysVars, view, purged>>

-----------------------------------------------------------------------------
(* The steps of TrxSys seen from here. *)

\* Every element that is erased gives each walk in progress one more chance to
\* meet it half-way.
Erase(t) ==
    /\ Deregister(t)
    /\ walk' = [k \in Walker |->
          IF walk[k].pc = "walk" /\ walk[k].retries < MaxRetry
            THEN [walk[k] EXCEPT !.retries = @ + 1] ELSE walk[k]]
    /\ UNCHANGED <<view, purged>>

Next ==
    \/ \E t \in Trx : \/ TrxStep(t) /\ UNCHANGED <<viewVars>>
                      \/ Erase(t)
    \/ \E k \in Walker : \/ ReadVersion(k) \/ CompareVersion(k)
                         \/ Visit(k) \/ Retry(k)
    \/ \E r \in Reader : Open(r) \/ OpenSnapshot(r) \/ OpenReuse(r) \/ Close(r)
    \/ \E p \in Purger : \/ PurgeBegin(p) \/ PurgeSnapshot(p) \/ PurgeAppend(p)
                         \/ PurgeHistory(p) \/ PurgeEnd(p)

Spec == Init /\ [][Next]_vars

-----------------------------------------------------------------------------
(* Properties *)

OpenViews == {view[r] : r \in {q \in Reader : view[q].open}}

\* Types of the registry, the views and the snapshots in progress.
TypeOK ==
    /\ m_max_trx_id \in 1..(MaxId + 1)
    /\ m_rw_trx_hash_version \in 1..m_max_trx_id
    /\ rw_trx_hash \subseteq Running
    /\ no \in [Id -> 1..TRX_ID_MAX]
    /\ trx \in [Trx -> [state : States, id : 0..MaxId, drawn : 0..MaxId]]
    /\ \A k \in Walker : /\ view[k].ids \subseteq Id
                         /\ view[k].up_limit_id <= view[k].low_limit_id
                         /\ walk[k].ids \subseteq Id
    /\ history \cup purged \subseteq Id

\* No dirty read: an open view sees no transaction that is still running, not
\* even one caught between drawing its identifier and entering the hash.
NoDirtyRead == \A v \in OpenViews, i \in Running : ~changes_visible(v, i)

\* FACT C of read0read.cc: "Purge does not remove any delete-marked row that
\* is visible in any cursor read view."  A view that does not see a
\* transaction reads what was there before it, so its undo log must be kept.
PurgeRespectsViews == \A v \in OpenViews, i \in purged : changes_visible(v, i)

\* The proof of FACT C: "any joining or active transaction will not have a view
\* older than the purge view".  While purge uses its view (is_purgeable(),
\* row_vers_old_has_index_entry()), every open view sees what that view sees.
PurgeViewOldest ==
    \A p \in Purger : walk[p].pc = "append" /\ walk[p].todo = {} =>
        \A v \in OpenViews, i \in Numbered :
            changes_visible(view[p], i) => changes_visible(v, i)

\* Purge never removes the history of a transaction that is still registered:
\* its number was in the hash when the purge view was made, or is greater.
PurgeOnlyEnded == purged \cap Running = {}

SeesAllBefore(v) == \A i \in v.before : changes_visible(v, i)

\* A transaction that had been deregistered before ReadView::open() was called
\* is seen by the view, whatever ended or began during the walk - provided the
\* walk met no element twice.
CommittedVisibleOnce == \A v \in OpenViews : ~v.twice => SeesAllBefore(v)

\* "Opens a read view where exactly the transactions serialized before this
\* point in time are seen" (read0read.cc:196): the same without the proviso,
\* although "some transaction identifiers may appear multiple times in ids".
CommittedVisible == \A v \in OpenViews : SeesAllBefore(v)

=============================================================================

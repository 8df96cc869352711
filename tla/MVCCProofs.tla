----------------------------- MODULE MVCCProofs ------------------------------
(***************************************************************************)
(* Read views, continued: every step of MVCC keeps the invariant of        *)
(* SnapshotProofs, what follows for the readers, and what purge may        *)
(* remove.                                                                 *)
(***************************************************************************)
EXTENDS SnapshotProofs

-----------------------------------------------------------------------------
(* Who has ended stays seen *)

regVars == <<m_max_trx_id, m_rw_trx_hash_version, rw_trx_hash, no, trx>>

\* A step of walker k leaves the others alone.
OnlyWalker(k) ==
    /\ UNCHANGED regVars
    /\ \A j \in Walker \ {k} : view'[j] = view[j] /\ walk'[j] = walk[j]

LEMMA WalkerFrame ==
  ASSUME ViewTypes
  PROVE  /\ \A k \in Walker : ReadVersion(k) \/ CompareVersion(k) \/ Visit(k) \/ Retry(k)
                                => OnlyWalker(k)
         /\ \A r \in Reader : Open(r) \/ OpenSnapshot(r) \/ OpenReuse(r) \/ Close(r)
                                => OnlyWalker(r)
         /\ \A p \in Purger : PurgeBegin(p) \/ PurgeSnapshot(p) \/ PurgeAppend(p)
                                \/ PurgeHistory(p) \/ PurgeEnd(p) => OnlyWalker(p)
<1> USE DEF OnlyWalker, regVars, trxSysVars, ViewTypes, Walker
<1>1. ASSUME NEW k \in Walker, ReadVersion(k) \/ CompareVersion(k) \/ Visit(k) \/ Retry(k)
      PROVE  OnlyWalker(k)
  BY <1>1, Zenon DEF ReadVersion, CompareVersion, Visit, Retry
<1>2. ASSUME NEW r \in Reader, Open(r) \/ OpenSnapshot(r) \/ OpenReuse(r) \/ Close(r)
      PROVE  OnlyWalker(r)
  BY <1>2 DEF Open, OpenSnapshot, OpenReuse, Close, BeginSnapshot
<1>3. ASSUME NEW p \in Purger, PurgeBegin(p) \/ PurgeSnapshot(p) \/ PurgeAppend(p)
                                 \/ PurgeHistory(p) \/ PurgeEnd(p)
      PROVE  OnlyWalker(p)
  BY <1>3 DEF PurgeBegin, PurgeSnapshot, PurgeAppend, PurgeHistory, PurgeEnd, BeginSnapshot
<1> QED
  BY Zenon, <1>1, <1>2, <1>3

\* A step of a transaction changes no view, and no walk but its retries.
LEMMA TrxFrame ==
  ASSUME ViewTypes, NEW t \in Trx, (TrxStep(t) /\ UNCHANGED viewVars) \/ Erase(t)
  PROVE  /\ view' = view /\ purged' = purged
         /\ walk' \in [Walker -> WalkType]
         /\ \A k \in Walker : \/ walk'[k] = walk[k]
                              \/ walk'[k] = [walk[k] EXCEPT !.retries = @ + 1]
<1>1. CASE TrxStep(t) /\ UNCHANGED viewVars
  BY <1>1 DEF viewVars, ViewTypes
<1>2. CASE Erase(t)
  <2>1. \A k \in Walker : [walk[k] EXCEPT !.retries = @ + 1] \in WalkType
    BY DEF ViewTypes, WalkType
  <2> QED
    BY <1>2, <2>1 DEF Erase, ViewTypes
<1> QED
  BY <1>1, <1>2

LEMMA SeenStays ==
  ASSUME MVCCInv, Next, NEW r \in Reader, NEW i \in Ended, SeenBy(r, i)
  PROVE  SeenBy(r, i)'
<1> USE DEF MVCCInv
<1>0. /\ i \in Id /\ i \in Nat /\ i \notin Running /\ i < m_max_trx_id
      /\ r \in Walker /\ view[r] \in ViewType /\ walk[r] \in WalkType
  <2>1. i \in Id /\ i \in Nat /\ i \notin Running /\ no[i] # TRX_ID_MAX
    BY TrxSysAssumption DEF Ended, Numbered, Id, TRX_ID_MAX
  <2>2. i < m_max_trx_id
    BY <2>1, TrxSysAssumption DEF Registry, NumbersDrawn, RegTypes, TRX_ID_MAX
  <2> QED
    BY <2>1, <2>2 DEF ViewTypes, Walker
<1>1. CASE \E t \in Trx : (TrxStep(t) /\ UNCHANGED viewVars) \/ Erase(t)
  <2>1. /\ view'[r] = view[r]
        /\ walk'[r].pc = walk[r].pc /\ walk'[r].ids = walk[r].ids
        /\ walk'[r].m_id = walk[r].m_id
    BY <1>0, <1>1, TrxFrame, Zenon DEF WalkType
  <2> QED
    BY <2>1 DEF SeenBy, changes_visible
<1>2. ASSUME NEW k \in Walker, k # r, OnlyWalker(k) PROVE SeenBy(r, i)'
  BY <1>0, <1>2 DEF OnlyWalker, SeenBy, changes_visible
<1>3. CASE ReadVersion(r)
  BY <1>0, <1>3 DEF ReadVersion, SeenBy, ViewTypes, WalkType, changes_visible
<1>4. CASE CompareVersion(r)
  <2>1. view' = view
    BY <1>4 DEF CompareVersion
  <2>2. walk'[r].pc = "version" \/ (walk'[r].pc = "walk" /\ walk'[r].m_id = m_max_trx_id
                                       /\ walk'[r].ids = {})
    BY <1>0, <1>4 DEF CompareVersion, ViewTypes, WalkType, WalkOK
  <2> QED
    BY <1>0, <2>1, <2>2 DEF SeenBy, changes_visible
<1>5. CASE Visit(r)
  <2>1. view' = view /\ walk[r].pc = "walk" /\ walk'[r].pc = "walk"
        /\ walk'[r].m_id = walk[r].m_id /\ walk'[r].ids \subseteq walk[r].ids \cup rw_trx_hash
    BY <1>0, <1>5 DEF Visit, copy_one_id, ViewTypes, WalkType
  <2>2. i \notin rw_trx_hash
    BY <1>0, HashRuns
  <2> QED
    BY <2>1, <2>2 DEF SeenBy, changes_visible
<1>6. CASE Retry(r)
  <2>1. view' = view /\ walk[r].pc = "walk" /\ walk'[r].pc = "walk"
        /\ walk'[r].m_id = walk[r].m_id /\ walk'[r].ids = walk[r].ids
    BY <1>0, <1>6 DEF Retry, ViewTypes, WalkType
  <2> QED
    BY <2>1 DEF SeenBy, changes_visible
<1>7. CASE Open(r)
  <2>1. view' = view /\ ~view[r].open
    BY <1>7 DEF Open
  <2>2. walk'[r].pc = "version" \/ (walk'[r].pc = "reuse" /\ view[r].ids = {}
                                      /\ view[r].low_limit_id = m_max_trx_id)
    <3>1. CASE /\ r \in Autocommit /\ view[r].ids = {}
               /\ view[r].low_limit_id = m_max_trx_id
      <4>1. walk' = [walk EXCEPT ![r].pc = "reuse", ![r].before = Ended]
        BY <1>7, <3>1 DEF Open
      <4> QED
        BY <1>0, <3>1, <4>1 DEF ViewTypes, WalkType
    <3>2. CASE ~(/\ r \in Autocommit /\ view[r].ids = {}
                 /\ view[r].low_limit_id = m_max_trx_id)
      <4>1. BeginSnapshot(r)
        BY <1>7, <3>2 DEF Open
      <4> QED
        BY <1>0, <4>1 DEF BeginSnapshot, ViewTypes, IdleWalk
    <3> QED
      BY <3>1, <3>2
  <2> QED
    BY <1>0, <2>1, <2>2 DEF SeenBy
<1>8. CASE OpenSnapshot(r)
  <2>1. /\ walk[r].pc = "walk" /\ walk[r].todo = {} /\ walk'[r].pc = "idle"
        /\ view'[r] = [snapshot(walk[r]) EXCEPT !.open = TRUE]
    BY <1>0, <1>8 DEF OpenSnapshot, ViewTypes, IdleWalk
  <2>2. /\ snapshot(walk[r]) \in ViewType
        /\ ~snapshot(walk[r]).twice => changes_visible(snapshot(walk[r]), i)
    BY <1>0, <2>1, SnapshotOK DEF SeenBy
  <2>3. /\ view'[r].twice = snapshot(walk[r]).twice /\ view'[r].ids = snapshot(walk[r]).ids
        /\ view'[r].low_limit_id = snapshot(walk[r]).low_limit_id
        /\ view'[r].up_limit_id = snapshot(walk[r]).up_limit_id
    BY <2>1, <2>2 DEF ViewType
  <2> QED
    BY <2>1, <2>2, <2>3 DEF SeenBy, changes_visible
<1>9. CASE OpenReuse(r)
  <2>1. /\ walk[r].pc = "reuse" /\ walk'[r].pc = "idle" /\ view'[r].ids = view[r].ids
        /\ view'[r].low_limit_id = view[r].low_limit_id
    BY <1>0, <1>9 DEF OpenReuse, ViewTypes, ViewType, IdleWalk
  <2> QED
    BY <2>1 DEF SeenBy, changes_visible
<1>10. CASE Close(r)
  <2>1. walk' = walk /\ view'[r].open = FALSE /\ walk[r].pc = "idle"
    BY <1>0, <1>10 DEF Close, ViewTypes, ViewType, ClosedView, Roles
  <2> QED
    BY <2>1 DEF SeenBy
<1>11. \A p \in Purger : p \in Walker /\ p # r
  BY MVCCAssumption DEF Walker
<1> QED
  BY <1>0, <1>1, <1>2, <1>3, <1>4, <1>5, <1>6, <1>7, <1>8, <1>9, <1>10, <1>11,
     WalkerFrame, Zenon DEF Next, Walker

-----------------------------------------------------------------------------
(* The invariant is kept *)

\* Transactions that had ended when open() was called stay seen.
LEMMA BeforeKept ==
  ASSUME MVCCInv, Next, RegStep,
         \A r \in Reader :
            /\ \/ walk'[r].before \subseteq walk[r].before
               \/ walk'[r].before \subseteq Ended /\ walk[r].pc = "idle" /\ ~view[r].open
            /\ view'[r] = view[r] \/ ~view'[r].open \/ view'[r].before \subseteq walk[r].before
  PROVE  BeforeSeen'
<1> SUFFICES ASSUME NEW r \in Reader
             PROVE  /\ walk'[r].before \subseteq Ended'
                    /\ \A i \in walk'[r].before : SeenBy(r, i)'
                    /\ view'[r].open /\ ~view'[r].twice => SeesAllBefore(view'[r])
  BY DEF BeforeSeen, SeesAllBefore, changes_visible
<1>0. Ended \subseteq Ended'
  BY DEF RegStep
<1>1. \A i \in walk[r].before : i \in Ended /\ SeenBy(r, i)'
  BY SeenStays DEF MVCCInv, BeforeSeen
<1>2. walk[r].pc = "idle" /\ ~view[r].open => \A i \in Ended : SeenBy(r, i)'
  BY SeenStays DEF SeenBy
<1>3. walk'[r].before \subseteq Ended' /\ \A i \in walk'[r].before : SeenBy(r, i)'
  BY <1>0, <1>1, <1>2
<1>4. ASSUME view'[r].open, ~view'[r].twice PROVE SeesAllBefore(view'[r])
  <2>1. CASE view'[r] = view[r]
    BY <1>4, <2>1 DEF MVCCInv, BeforeSeen
  <2>2. CASE view'[r].before \subseteq walk[r].before
    BY <1>1, <1>4, <2>2 DEF SeenBy, SeesAllBefore, changes_visible
  <2> QED
    BY <1>4, <2>1, <2>2
<1> QED
  BY <1>3, <1>4

LEMMA TrxKeepsInv ==
  ASSUME MVCCInv, Next, NEW t \in Trx, (TrxStep(t) /\ UNCHANGED viewVars) \/ Erase(t)
  PROVE  MVCCInv'
<1> USE DEF MVCCInv
<1>1. Registry' /\ RegStep
  BY TrxKeepsRegistry DEF Erase
<1>2. /\ view' = view /\ purged' = purged
      /\ walk' \in [Walker -> WalkType]
      /\ \A k \in Walker : \/ walk'[k] = walk[k]
                           \/ walk'[k] = [walk[k] EXCEPT !.retries = @ + 1]
  BY TrxFrame
<1>3. \A k \in Walker : /\ view[k] \in ViewType /\ walk[k] \in WalkType
                        /\ walk'[k].pc = walk[k].pc /\ walk'[k].before = walk[k].before
                        /\ walk'[k].todo = walk[k].todo
  BY <1>2 DEF ViewTypes, WalkType
<1>4. ViewTypes' /\ Roles'
  BY <1>2, <1>3 DEF ViewTypes, Roles, Walker
<1>5. \A k \in Walker : WalkOK(walk[k])' /\ ViewOK(view[k])'
  BY <1>1, <1>2, <1>3, WalkStays, ViewStays, Zenon
<1>6. BeforeSeen'
  BY <1>1, <1>2, <1>3, BeforeKept DEF Walker
<1>7. history' \cup purged' \subseteq Numbered'
  <2>1. Numbered \subseteq Numbered'
    BY <1>1 DEF RegStep
  <2>2. history' \subseteq history \cup Numbered
    <3>1. CASE CommitHistory(t)
      <4>1. trx[t].id \in Id /\ no[trx[t].id] # TRX_ID_MAX
        BY <3>1 DEF CommitHistory, Registry, NumbersDrawn, IdsUnique, RegTypes, Id
      <4>2. trx[t].id \in Numbered
        BY <4>1, TrxSysAssumption DEF Numbered, Registry, RegTypes, TRX_ID_MAX
      <4> QED
        BY <3>1, <4>2 DEF CommitHistory
    <3>2. CASE ~CommitHistory(t)
      BY Zenon, <3>2 DEF TrxStep, Erase, RegisterDraw, RegisterInsert, RegisterRefresh,
         SerialiseDraw, SerialiseStore, SerialiseRefresh, CommitEmpty, Deregister
    <3> QED
      BY <3>1, <3>2
  <2> QED
    BY <1>2, <2>1, <2>2
<1> QED
  BY <1>1, <1>4, <1>5, <1>6, <1>7

LEMMA OneWalkerKeepsInv ==
  ASSUME MVCCInv, Next, NEW k \in Walker, OnlyWalker(k), ViewTypes',
         WalkOK(walk[k])', ViewOK(view[k])',
         walk'[k].pc = "reuse" => k \in Autocommit,
         walk'[k].pc = "append" => k \in Purger /\ walk'[k].todo \subseteq Reader,
         k \in Reader =>
            /\ view'[k].open => walk'[k].pc = "idle"
            /\ \/ walk'[k].before \subseteq walk[k].before
               \/ walk'[k].before \subseteq Ended /\ walk[k].pc = "idle" /\ ~view[k].open
            /\ view'[k] = view[k] \/ ~view'[k].open \/ view'[k].before \subseteq walk[k].before,
         history' \cup purged' \subseteq Numbered
  PROVE  MVCCInv'
<1> USE DEF MVCCInv
<1>0. UNCHANGED regVars
  BY Zenon DEF OnlyWalker
<1>1. Registry' /\ RegStep /\ Numbered' = Numbered
  BY <1>0, StutterKeepsRegistry, Zenon DEF regVars
<1>2. \A j \in Walker \ {k} : view'[j] = view[j] /\ walk'[j] = walk[j]
  BY Zenon DEF OnlyWalker
<1>3. Roles'
  BY Zenon, <1>2 DEF Roles, Walker
<1>4. \A j \in Walker \ {k} : WalkOK(walk[j])' /\ ViewOK(view[j])'
  BY <1>1, <1>2, WalkStays, ViewStays, Zenon DEF ViewTypes
<1>5. BeforeSeen'
  BY <1>1, <1>2, BeforeKept, Zenon DEF Walker
<1> QED
  BY Zenon, <1>1, <1>3, <1>4, <1>5

\* What OneWalkerKeepsInv wants of a step that touches a walk only.
LEMMA WalkOnlyKeepsInv ==
  ASSUME MVCCInv, Next, NEW k \in Walker, OnlyWalker(k), UNCHANGED <<view, history, purged>>,
         walk' \in [Walker -> WalkType], WalkOK(walk[k])',
         walk'[k].pc \in {"version", "compare", "walk"}, walk'[k].before = walk[k].before,
         walk[k].pc # "idle"
  PROVE  MVCCInv'
<1>1. ViewTypes'
  BY DEF ViewTypes, MVCCInv
<1>2. ViewOK(view[k])'
  BY ViewStays, StutterKeepsRegistry DEF MVCCInv, ViewTypes, OnlyWalker, regVars
<1>3. k \in Reader => ~view[k].open
  BY Zenon DEF MVCCInv, Roles
<1>4. history' \cup purged' \subseteq Numbered
  BY DEF MVCCInv
<1> QED
  BY Zenon, <1>1, <1>2, <1>3, <1>4, OneWalkerKeepsInv

LEMMA ReadVersionKeepsInv ==
  ASSUME MVCCInv, Next, NEW k \in Walker, ReadVersion(k)
  PROVE  MVCCInv'
<1> /\ Registry /\ ViewTypes /\ Roles /\ WalkOK(walk[k]) /\ ViewOK(view[k])
    /\ history \cup purged \subseteq Numbered
  BY DEF MVCCInv
<1>1. OnlyWalker(k) /\ UNCHANGED <<view, history, purged>>
  BY WalkerFrame, Zenon DEF ReadVersion, trxSysVars
<1>2. m_rw_trx_hash_version \in Nat /\ m_rw_trx_hash_version' = m_rw_trx_hash_version
  BY DEF Registry, RegTypes, ReadVersion, trxSysVars
<1>3. walk' \in [Walker -> WalkType]
  <2> DEFINE w == [walk[k] EXCEPT !.pc = "compare", !.m_id = m_rw_trx_hash_version]
  <2>1. w \in WalkType
    BY <1>2, Zenon DEF ViewTypes, WalkType
  <2>2. walk' = [walk EXCEPT ![k] = w]
    BY Zenon DEF ReadVersion, ViewTypes, WalkType
  <2> HIDE DEF w
  <2> QED
    BY <2>1, <2>2 DEF ViewTypes
<1>4. /\ walk[k].pc = "version" /\ walk'[k].pc = "compare"
      /\ walk'[k].m_id = m_rw_trx_hash_version
      /\ walk'[k].ids = walk[k].ids /\ walk'[k].size = walk[k].size
      /\ walk'[k].todo = walk[k].todo /\ walk'[k].before = walk[k].before
  BY DEF ReadVersion, ViewTypes, WalkType
<1>5. WalkOK(walk[k])'
  BY <1>2, <1>4 DEF WalkOK
<1> QED
  BY Zenon, <1>1, <1>3, <1>4, <1>5, WalkOnlyKeepsInv

\* The version read equals the counter: nobody is pending now, so the hash
\* holds every transaction whose identifier is below the limit.
LEMMA NobodyPending ==
  ASSUME Registry, NEW n \in Nat, n <= m_rw_trx_hash_version, n = m_max_trx_id
  PROVE  Running \subseteq rw_trx_hash /\ LateNumbers(n)
<1>1. Cardinality(Pending) = 0
  BY PendingFinite DEF Registry, RegTypes, VersionCounts
<1>2. Pending = {}
  BY <1>1, PendingFinite, FS_EmptySet
<1>3. Running \subseteq rw_trx_hash
  BY <1>2, RunningHasTrx DEF Registry, HashExact, IdsUnique, Pending
<1> QED
  BY <1>2, <1>3 DEF LateNumbers, Pending

LEMMA CompareVersionKeepsInv ==
  ASSUME MVCCInv, Next, NEW k \in Walker, CompareVersion(k)
  PROVE  MVCCInv'
<1> /\ Registry /\ ViewTypes /\ Roles /\ WalkOK(walk[k]) /\ ViewOK(view[k])
    /\ history \cup purged \subseteq Numbered
  BY DEF MVCCInv
<1>1. OnlyWalker(k) /\ UNCHANGED <<view, history, purged>> /\ walk[k].pc = "compare"
  BY WalkerFrame, Zenon DEF CompareVersion, trxSysVars
<1>2. /\ walk[k] \in WalkType /\ walk[k].m_id \in Nat /\ walk[k].m_id <= m_rw_trx_hash_version
      /\ walk[k].ids = {} /\ walk[k].size = 0 /\ walk[k].todo = {} /\ rw_trx_hash \subseteq Id
  BY Zenon, <1>1, HashRuns DEF ViewTypes, WalkType, WalkOK
<1>3. CASE walk[k].m_id # m_max_trx_id
  <2>1. walk' = [walk EXCEPT ![k] = [walk[k] EXCEPT !.pc = "version"]]
    BY <1>3 DEF CompareVersion
  <2>2. walk' \in [Walker -> WalkType]
    BY Zenon, <1>2, <2>1 DEF ViewTypes, WalkType
  <2>3. /\ walk'[k].pc = "version" /\ walk'[k].ids = {} /\ walk'[k].size = 0
        /\ walk'[k].todo = {} /\ walk'[k].before = walk[k].before
    BY <1>2, <2>1 DEF ViewTypes, WalkType
  <2>4. WalkOK(walk[k])'
    BY Zenon, <2>3 DEF WalkOK
  <2> QED
    BY Zenon, <1>1, <2>2, <2>3, <2>4, WalkOnlyKeepsInv
<1>4. CASE walk[k].m_id = m_max_trx_id
  <2>1. walk' = [walk EXCEPT ![k] = [walk[k] EXCEPT !.pc = "walk", !.m_no = walk[k].m_id,
                                                    !.todo = rw_trx_hash]]
    BY <1>4 DEF CompareVersion
  <2>2. walk' \in [Walker -> WalkType]
    BY <1>2, <2>1, Zenon DEF ViewTypes, WalkType
  <2>3. /\ walk'[k].pc = "walk" /\ walk'[k].ids = {} /\ walk'[k].m_id = m_max_trx_id
        /\ walk'[k].m_no = m_max_trx_id
        /\ walk'[k].todo = rw_trx_hash /\ walk'[k].before = walk[k].before
    BY Zenon, <1>2, <1>4, <2>1 DEF ViewTypes, WalkType
  <2>4. Running \subseteq rw_trx_hash /\ LateNumbers(m_max_trx_id)
    BY <1>2, <1>4, NobodyPending
  <2>5. UNCHANGED <<m_max_trx_id, m_rw_trx_hash_version, rw_trx_hash, no, trx>>
    BY <1>1 DEF OnlyWalker, regVars
  <2>6. Running' = Running /\ m_max_trx_id \in Nat
    BY <2>5, StutterKeepsRegistry DEF Registry, RegTypes
  <2>7. WalkOK(walk[k])'
    BY <1>2, <2>3, <2>4, <2>5, <2>6 DEF WalkOK, LateNumbers
  <2> QED
    BY Zenon, <1>1, <2>2, <2>3, <2>7, WalkOnlyKeepsInv
<1> QED
  BY <1>3, <1>4

LEMMA VisitKeepsInv ==
  ASSUME MVCCInv, Next, NEW k \in Walker, Visit(k)
  PROVE  MVCCInv'
<1> /\ Registry /\ ViewTypes /\ Roles /\ WalkOK(walk[k]) /\ ViewOK(view[k])
    /\ history \cup purged \subseteq Numbered
  BY DEF MVCCInv
<1>1. OnlyWalker(k) /\ UNCHANGED <<view, history, purged>> /\ walk[k].pc = "walk"
  BY WalkerFrame, Zenon DEF Visit, trxSysVars
<1>2. PICK id \in walk[k].todo :
        LET arg == [walk[k] EXCEPT !.todo = @ \ {id}]
        IN  walk' = [walk EXCEPT ![k] = IF id \in rw_trx_hash
                                          THEN copy_one_id(arg, id) ELSE arg]
  BY Zenon DEF Visit
<1>3. UNCHANGED <<m_max_trx_id, m_rw_trx_hash_version, rw_trx_hash, no, trx>>
  BY Zenon, <1>1 DEF OnlyWalker, regVars
<1>4. Running' = Running
  BY <1>3, StutterKeepsRegistry
<1> DEFINE w == walk[k]
<1>5. /\ w \in WalkType /\ w.m_id \in Nat /\ w.m_no \in Nat /\ w.ids \subseteq Id
      /\ w.todo \subseteq Id /\ id \in Id /\ id \in Nat /\ w.m_no <= w.m_id
      /\ no[id] \in Nat /\ w.size \in Nat
  <2>1. w \in WalkType /\ w.todo \subseteq Id /\ w.m_no <= w.m_id
    BY Zenon, <1>1 DEF ViewTypes, WalkOK
  <2> QED
    BY Zenon, <2>1, NumbersAreNat DEF WalkType
<1>6. CASE id \in rw_trx_hash /\ id < w.m_id
  <2>1. walk' = [walk EXCEPT ![k] = [w EXCEPT
                   !.todo = w.todo \ {id}, !.ids = w.ids \cup {id}, !.size = w.size + 1,
                   !.m_no = IF no[id] < w.m_no THEN no[id] ELSE w.m_no]]
    BY <1>2, <1>5, <1>6, Zenon DEF copy_one_id, WalkType
  <2>2. walk' \in [Walker -> WalkType]
    <3> DEFINE mno == IF no[id] < w.m_no THEN no[id] ELSE w.m_no
               n == [w EXCEPT !.todo = w.todo \ {id}, !.ids = w.ids \cup {id},
                              !.size = w.size + 1, !.m_no = mno]
    <3>1. mno \in Nat
      BY Zenon, <1>5
    <3> HIDE DEF mno
    <3>2. n \in WalkType
      <4>1. w.todo \ {id} \in SUBSET (Id \cup Reader) /\ w.ids \cup {id} \in SUBSET Id
            /\ w.size + 1 \in Nat
        BY <1>5
      <4> QED
        BY <1>5, <3>1, <4>1, Zenon DEF WalkType
    <3>3. walk' = [walk EXCEPT ![k] = n]
      BY <2>1 DEF mno
    <3> HIDE DEF n
    <3> QED
      BY Zenon, <3>2, <3>3 DEF ViewTypes
  <2>3. /\ walk'[k].pc = "walk" /\ walk'[k].before = w.before
        /\ walk'[k].ids = w.ids \cup {id} /\ walk'[k].todo = w.todo \ {id}
        /\ walk'[k].m_id = w.m_id
        /\ walk'[k].m_no = IF no[id] < w.m_no THEN no[id] ELSE w.m_no
    BY <1>1, <1>5, <2>1 DEF ViewTypes, WalkType
  <2>4. /\ walk'[k].m_no \in Nat /\ walk'[k].m_no <= w.m_no /\ walk'[k].m_no <= no[id]
    BY <1>5, <2>3
  <2>5. \A i \in w.ids : no[i] \in Nat
    BY Zenon, <1>5, NumbersAreNat
  <2>6. \A i \in walk'[k].ids : i < w.m_id /\ no[i] >= walk'[k].m_no
    BY <1>1, <1>5, <1>6, <2>3, <2>4, <2>5, SMTT(30) DEF WalkOK
  <2>7. walk'[k].m_no <= w.m_id
    BY <1>5, <2>4
  <2>8. \A i \in Running' : i < w.m_id =>
          i \in rw_trx_hash' /\ i \in walk'[k].ids \cup walk'[k].todo
    BY Zenon, <1>1, <1>3, <1>4, <2>3 DEF WalkOK
  <2>9. /\ w.m_id <= m_max_trx_id' /\ walk'[k].todo \subseteq Id
        /\ \A i \in walk'[k].ids : no'[i] >= walk'[k].m_no /\ i < w.m_id
    BY Zenon, <1>1, <1>3, <1>5, <2>3, <2>6, SMTT(30) DEF WalkOK
  <2>10. \A t \in Trx : trx'[t].state = "no_drawn" => trx'[t].drawn >= w.m_id
    BY Zenon, <1>1, <1>3, SMTT(30) DEF WalkOK, LateNumbers
  <2>11. WalkOK(walk[k])'
    BY Zenon, <2>3, <2>7, <2>8, <2>9, <2>10, SMTT(30) DEF WalkOK, LateNumbers
  <2> QED
    BY Zenon, <1>1, <2>2, <2>3, <2>11, WalkOnlyKeepsInv
<1>7. CASE ~(id \in rw_trx_hash /\ id < w.m_id)
  <2>1. walk' = [walk EXCEPT ![k] = [w EXCEPT !.todo = w.todo \ {id}]]
    BY <1>2, <1>5, <1>7, Zenon DEF copy_one_id, WalkType
  <2>2. walk' \in [Walker -> WalkType]
    BY Zenon, <1>5, <2>1 DEF ViewTypes, WalkType
  <2>3. /\ walk'[k].pc = "walk" /\ walk'[k].before = w.before
        /\ walk'[k].ids = w.ids /\ walk'[k].todo = w.todo \ {id}
        /\ walk'[k].m_id = w.m_id /\ walk'[k].m_no = w.m_no
    BY <1>1, <1>5, <2>1 DEF ViewTypes, WalkType
  <2>4. WalkOK(walk[k])'
    BY Zenon, <1>1, <1>3, <1>4, <1>5, <1>7, <2>3, SMTT(30) DEF WalkOK, LateNumbers
  <2> QED
    BY Zenon, <1>1, <2>2, <2>3, <2>4, WalkOnlyKeepsInv, SMTT(30)
<1> QED
  BY <1>6, <1>7

LEMMA RetryKeepsInv ==
  ASSUME MVCCInv, Next, NEW k \in Walker, Retry(k)
  PROVE  MVCCInv'
<1> /\ Registry /\ ViewTypes /\ Roles /\ WalkOK(walk[k]) /\ ViewOK(view[k])
    /\ history \cup purged \subseteq Numbered
  BY DEF MVCCInv
<1>1. OnlyWalker(k) /\ UNCHANGED <<view, history, purged>> /\ walk[k].pc = "walk"
  BY WalkerFrame, Zenon DEF Retry, trxSysVars
<1>2. PICK again \in SUBSET (walk[k].ids \cap rw_trx_hash) :
        walk' = [walk EXCEPT ![k].todo = @ \cup again, ![k].retries = @ - 1]
  BY Zenon DEF Retry
<1>3. UNCHANGED <<m_max_trx_id, m_rw_trx_hash_version, rw_trx_hash, no, trx>>
  BY <1>1 DEF OnlyWalker, regVars
<1>4. Running' = Running
  BY <1>3, StutterKeepsRegistry
<1> DEFINE w == walk[k]
           n == [w EXCEPT !.todo = w.todo \cup again, !.retries = w.retries - 1]
<1>5. w \in WalkType /\ w.todo \subseteq Id /\ again \subseteq Id /\ w.retries - 1 \in Nat
  BY <1>1 DEF ViewTypes, WalkType, WalkOK, Retry
<1>6. n \in WalkType /\ walk' = [walk EXCEPT ![k] = n]
  BY Zenon, <1>2, <1>5 DEF ViewTypes, WalkType
<1>7. /\ n.pc = "walk" /\ n.before = w.before /\ n.ids = w.ids /\ n.todo = w.todo \cup again
      /\ n.m_id = w.m_id /\ n.m_no = w.m_no
  BY <1>1, <1>5 DEF WalkType
<1> HIDE DEF n
<1>8. walk' \in [Walker -> WalkType] /\ walk'[k] = n
  BY <1>6 DEF ViewTypes
<1>9. WalkOK(walk[k])'
  BY Zenon, <1>1, <1>3, <1>4, <1>5, <1>7, <1>8 DEF WalkOK, LateNumbers
<1> QED
  BY Zenon, <1>1, <1>7, <1>8, <1>9, WalkOnlyKeepsInv, SMTT(30)

\* A walk that is idle, about to start or over makes no claim.
LEMMA IdleWalkOK ==
  ASSUME NEW k \in Walker, walk'[k].pc \notin {"compare", "walk"},
         walk'[k].pc = "version" =>
            walk'[k].ids = {} /\ walk'[k].size = 0 /\ walk'[k].todo = {}
  PROVE  WalkOK(walk[k])'
  BY Zenon DEF WalkOK

LEMMA IdleWalkType == IdleWalk \in WalkType /\ ClosedView \in ViewType
  BY Zenon, SMTT(30) DEF IdleWalk, WalkType, ClosedView, ViewType

LEMMA OpenKeepsInv ==
  ASSUME MVCCInv, Next, NEW r \in Reader, Open(r)
  PROVE  MVCCInv'
<1> /\ Registry /\ ViewTypes /\ Roles /\ WalkOK(walk[r]) /\ ViewOK(view[r])
    /\ history \cup purged \subseteq Numbered
  BY Zenon DEF MVCCInv, Walker
<1>0. r \in Walker /\ r \notin Purger
  BY Zenon, MVCCAssumption DEF Walker
<1>1. /\ OnlyWalker(r) /\ UNCHANGED <<view, history, purged>>
      /\ walk[r].pc = "idle" /\ ~view[r].open
  BY WalkerFrame DEF Open, trxSysVars
<1>2. Ended \in SUBSET Id
  BY DEF Ended, Numbered
<1>3. PICK n \in WalkType :
        /\ walk' = [walk EXCEPT ![r] = n]
        /\ n.before = Ended
        /\ \/ n.pc = "reuse" /\ r \in Autocommit
           \/ n.pc = "version" /\ n.ids = {} /\ n.size = 0 /\ n.todo = {}
  <2>1. CASE /\ r \in Autocommit /\ view[r].ids = {}
             /\ view[r].low_limit_id = m_max_trx_id
    <3> DEFINE n == [walk[r] EXCEPT !.pc = "reuse", !.before = Ended]
    <3>1. n \in WalkType /\ n.before = Ended /\ n.pc = "reuse"
      BY <1>0, <1>2, Zenon DEF ViewTypes, WalkType
    <3>2. walk' = [walk EXCEPT ![r] = n]
      BY <1>0, <2>1, Zenon DEF Open, ViewTypes, WalkType
    <3> QED
      BY <2>1, <3>1, <3>2, Zenon
  <2>2. CASE ~(/\ r \in Autocommit /\ view[r].ids = {}
               /\ view[r].low_limit_id = m_max_trx_id)
    <3> DEFINE n == [IdleWalk EXCEPT !.pc = "version", !.before = Ended]
    <3>1. /\ n \in WalkType /\ n.before = Ended /\ n.pc = "version" /\ n.ids = {}
          /\ n.size = 0 /\ n.todo = {}
      BY <1>2, Zenon DEF IdleWalk, WalkType
    <3>2. walk' = [walk EXCEPT ![r] = n]
      BY <2>2 DEF Open, BeginSnapshot
    <3> QED
      BY <3>1, <3>2, Zenon
  <2> QED
    BY Zenon, <2>1, <2>2
<1>4. walk' \in [Walker -> WalkType] /\ walk'[r] = n
  BY <1>0, <1>3 DEF ViewTypes
<1>5. ViewTypes'
  BY <1>1, <1>4 DEF ViewTypes
<1>6. WalkOK(walk[r])'
  BY <1>0, <1>3, <1>4, IdleWalkOK
<1>7. ViewOK(view[r])'
  BY Zenon, <1>0, <1>1, ViewStays, StutterKeepsRegistry DEF ViewTypes, OnlyWalker, regVars
<1>8. history' \cup purged' \subseteq Numbered
  BY <1>1
<1> QED
  BY Zenon, <1>0, <1>1, <1>3, <1>4, <1>5, <1>6, <1>7, <1>8, OneWalkerKeepsInv, SMTT(30)

\* A view is made or changed by its own walker, whose walk is idle afterwards
\* or goes on to the views of the others.
LEMMA ViewKeepsInv ==
  ASSUME MVCCInv, Next, NEW k \in Walker, OnlyWalker(k), NEW v \in ViewType, ViewOK(v),
         NEW n \in WalkType, n.pc \in {"idle", "append"},
         n.pc = "append" => k \in Purger /\ n.todo \subseteq Reader,
         view' = [view EXCEPT ![k] = v], walk' = [walk EXCEPT ![k] = n],
         k \in Reader =>
            /\ n.before \subseteq walk[k].before
            /\ ~v.open \/ v.before \subseteq walk[k].before,
         history' \cup purged' \subseteq Numbered
  PROVE  MVCCInv'
<1> /\ Registry /\ ViewTypes /\ Roles /\ WalkOK(walk[k]) /\ ViewOK(view[k])
    /\ history \cup purged \subseteq Numbered
  BY Zenon DEF MVCCInv
<1>1. /\ view' \in [Walker -> ViewType] /\ view'[k] = v
      /\ walk' \in [Walker -> WalkType] /\ walk'[k] = n
  BY Zenon DEF ViewTypes
<1>2. ViewTypes'
  BY <1>1 DEF ViewTypes
<1>3. WalkOK(walk[k])'
  BY Zenon, <1>1, IdleWalkOK
<1>4. ViewOK(view[k])'
  BY Zenon, <1>1, ViewMade DEF OnlyWalker, regVars
<1>5. k \in Purger => k \notin Reader
  BY MVCCAssumption
<1> QED
  BY Zenon, <1>1, <1>2, <1>3, <1>4, <1>5, OneWalkerKeepsInv

LEMMA OpenSnapshotKeepsInv ==
  ASSUME MVCCInv, Next, NEW r \in Reader, OpenSnapshot(r)
  PROVE  MVCCInv'
<1> /\ Registry /\ ViewTypes /\ Roles /\ WalkOK(walk[r]) /\ ViewOK(view[r])
    /\ history \cup purged \subseteq Numbered
  BY DEF MVCCInv, Walker
<1> DEFINE s == snapshot(walk[r])
           v == [s EXCEPT !.open = TRUE]
<1>0. r \in Walker /\ walk[r] \in WalkType /\ OnlyWalker(r)
  BY WalkerFrame DEF Walker, ViewTypes
<1>1. /\ walk[r].pc = "walk" /\ walk[r].todo = {}
      /\ view' = [view EXCEPT ![r] = v] /\ walk' = [walk EXCEPT ![r] = IdleWalk]
      /\ UNCHANGED <<history, purged>>
  BY DEF OpenSnapshot, trxSysVars
<1>2. s \in ViewType /\ ViewOK(s) /\ s.before = walk[r].before
  BY <1>0, <1>1, SnapshotOK
<1> HIDE DEF s
<1>3. /\ v \in ViewType /\ v.before = s.before /\ v.low_limit_id = s.low_limit_id
      /\ v.up_limit_id = s.up_limit_id /\ v.low_limit_no = s.low_limit_no /\ v.ids = s.ids
  BY <1>2, Zenon DEF ViewType
<1> HIDE DEF v
<1>4. ViewOK(v)
  BY Zenon, <1>2, <1>3 DEF ViewOK, changes_visible
<1>5. IdleWalk.pc = "idle" /\ IdleWalk.before = {}
  BY DEF IdleWalk
<1>6. history' \cup purged' \subseteq Numbered
  BY <1>1
<1> QED
  BY <1>0, <1>1, <1>2, <1>3, <1>4, <1>5, <1>6, IdleWalkType, ViewKeepsInv, Zenon

LEMMA OpenReuseKeepsInv ==
  ASSUME MVCCInv, Next, NEW r \in Reader, OpenReuse(r)
  PROVE  MVCCInv'
<1> /\ Registry /\ ViewTypes /\ Roles /\ WalkOK(walk[r]) /\ ViewOK(view[r])
    /\ history \cup purged \subseteq Numbered
  BY DEF MVCCInv, Walker
<1> DEFINE v == [view[r] EXCEPT !.open = TRUE, !.before = walk[r].before]
<1>0. r \in Walker /\ walk[r] \in WalkType /\ view[r] \in ViewType /\ OnlyWalker(r)
  BY WalkerFrame DEF Walker, ViewTypes
<1>1. /\ view' = [view EXCEPT ![r] = v] /\ walk' = [walk EXCEPT ![r] = IdleWalk]
      /\ UNCHANGED <<history, purged>>
  BY <1>0, Zenon DEF OpenReuse, trxSysVars, ViewTypes, ViewType
<1>2. /\ v \in ViewType /\ v.before = walk[r].before
      /\ v.low_limit_id = view[r].low_limit_id /\ v.up_limit_id = view[r].up_limit_id
      /\ v.low_limit_no = view[r].low_limit_no /\ v.ids = view[r].ids
  BY <1>0, Zenon DEF ViewType, WalkType
<1> HIDE DEF v
<1>3. ViewOK(v)
  BY Zenon, <1>0, <1>2 DEF ViewOK, changes_visible
<1>4. IdleWalk.pc = "idle" /\ IdleWalk.before = {}
  BY DEF IdleWalk
<1>5. history' \cup purged' \subseteq Numbered
  BY <1>1
<1> QED
  BY <1>0, <1>1, <1>2, <1>3, <1>4, <1>5, IdleWalkType, ViewKeepsInv, Zenon

\* A view without limits sees nothing.
LEMMA ClosedViewOK ==
  ASSUME Registry
  PROVE  ViewOK(ClosedView)
<1>1. /\ ClosedView.low_limit_id = 0 /\ ClosedView.up_limit_id = 0 /\ ClosedView.ids = {}
      /\ ClosedView.low_limit_no = 0
  BY DEF ClosedView
<1>2. \A i \in Running : i \in Nat /\ no[i] \in Nat
  BY HashRuns, NumbersAreNat
<1>3. LateNumbers(0)
  BY DEF LateNumbers, Registry, RegTypes
<1>4. 0 <= m_max_trx_id
  BY DEF Registry, RegTypes
<1> QED
  BY <1>1, <1>2, <1>3, <1>4 DEF ViewOK, changes_visible

LEMMA CloseKeepsInv ==
  ASSUME MVCCInv, Next, NEW r \in Reader, Close(r)
  PROVE  MVCCInv'
<1> /\ Registry /\ ViewTypes /\ Roles /\ WalkOK(walk[r]) /\ ViewOK(view[r])
    /\ history \cup purged \subseteq Numbered
  BY DEF MVCCInv, Walker
<1> DEFINE v == IF r \in Autocommit THEN [view[r] EXCEPT !.open = FALSE, !.before = {}]
                                    ELSE ClosedView
<1>0. /\ r \in Walker /\ walk[r] \in WalkType /\ view[r] \in ViewType /\ OnlyWalker(r)
      /\ view[r].open
  BY WalkerFrame, Zenon DEF Walker, ViewTypes, Close
<1>1. /\ view' = [view EXCEPT ![r] = v] /\ walk' = [walk EXCEPT ![r] = walk[r]]
      /\ UNCHANGED <<history, purged>>
  BY <1>0 DEF Close, trxSysVars, ViewTypes
<1>2. v \in ViewType /\ ~v.open
  <2>1. CASE r \in Autocommit
    BY <1>0, <2>1, Zenon DEF ViewType
  <2>2. CASE r \notin Autocommit
    BY <2>2, IdleWalkType DEF ClosedView
  <2> QED
    BY <2>1, <2>2
<1>3. ViewOK(v)
  <2>1. CASE r \in Autocommit
    <3>1. /\ v.low_limit_id = view[r].low_limit_id /\ v.up_limit_id = view[r].up_limit_id
          /\ v.low_limit_no = view[r].low_limit_no /\ v.ids = view[r].ids
      BY <1>0, <2>1 DEF ViewType
    <3> HIDE DEF v
    <3> QED
      BY Zenon, <1>0, <3>1 DEF ViewOK, changes_visible
  <2>2. CASE r \notin Autocommit
    BY <2>2, ClosedViewOK
  <2> QED
    BY <2>1, <2>2
<1> HIDE DEF v
<1>4. walk[r].pc = "idle"
  BY <1>0 DEF Roles
<1>5. history' \cup purged' \subseteq Numbered
  BY <1>1
<1> QED
  BY <1>0, <1>1, <1>2, <1>3, <1>4, <1>5, ViewKeepsInv, Zenon

LEMMA PurgeKeepsInv ==
  ASSUME MVCCInv, Next, NEW p \in Purger,
         PurgeBegin(p) \/ PurgeSnapshot(p) \/ PurgeAppend(p) \/ PurgeHistory(p) \/ PurgeEnd(p)
  PROVE  MVCCInv'
<1> /\ Registry /\ ViewTypes /\ Roles /\ WalkOK(walk[p]) /\ ViewOK(view[p])
    /\ history \cup purged \subseteq Numbered
  BY DEF MVCCInv, Walker
<1>0. /\ p \in Walker /\ p \notin Reader /\ walk[p] \in WalkType /\ view[p] \in ViewType
      /\ OnlyWalker(p)
  BY WalkerFrame, MVCCAssumption DEF Walker, ViewTypes
<1>1. view[p] = view[p] /\ view = [view EXCEPT ![p] = view[p]]
      /\ walk = [walk EXCEPT ![p] = walk[p]]
  BY <1>0 DEF ViewTypes
<1>2. CASE PurgeBegin(p)
  <2> DEFINE n == [IdleWalk EXCEPT !.pc = "version", !.before = {}]
  <2>1. walk' = [walk EXCEPT ![p] = n] /\ UNCHANGED <<view, history, purged>>
    BY <1>0, <1>2 DEF PurgeBegin, BeginSnapshot, trxSysVars
  <2>2. n \in WalkType /\ n.pc = "version" /\ n.ids = {} /\ n.size = 0 /\ n.todo = {}
    BY Zenon DEF IdleWalk, WalkType
  <2> HIDE DEF n
  <2>3. walk'[p] = n /\ ViewTypes'
    BY Zenon, <1>0, <2>1, <2>2, SMTT(30) DEF ViewTypes
  <2>4. WalkOK(walk[p])'
    BY Zenon, <1>0, <2>2, <2>3, IdleWalkOK, SMTT(30)
  <2>5. ViewOK(view[p])'
    BY Zenon, <1>0, <2>1, ViewStays, StutterKeepsRegistry DEF OnlyWalker, regVars
  <2> QED
    BY Zenon, <1>0, <2>1, <2>2, <2>3, <2>4, <2>5, OneWalkerKeepsInv, SMTT(30)
<1>3. CASE PurgeSnapshot(p)
  <2> DEFINE n == [IdleWalk EXCEPT !.pc = "append", !.todo = Reader]
  <2>1. /\ walk[p].pc = "walk" /\ walk[p].todo = {}
        /\ view' = [view EXCEPT ![p] = snapshot(walk[p])] /\ walk' = [walk EXCEPT ![p] = n]
        /\ UNCHANGED <<history, purged>>
    BY <1>3 DEF PurgeSnapshot, trxSysVars
  <2>2. n \in WalkType /\ n.pc = "append" /\ n.todo = Reader
    BY Zenon DEF IdleWalk, WalkType
  <2> HIDE DEF n
  <2>3. snapshot(walk[p]) \in ViewType /\ ViewOK(snapshot(walk[p]))
    BY Zenon, <1>0, <2>1, SnapshotOK, SMTT(30)
  <2> QED
    BY <1>0, <2>1, <2>2, <2>3, ViewKeepsInv, Zenon
<1>4. CASE PurgeAppend(p)
  <2>1. PICK r \in walk[p].todo :
          /\ view' = [view EXCEPT ![p] = IF view[r].open THEN append(view[p], view[r])
                                                         ELSE view[p]]
          /\ walk' = [walk EXCEPT ![p] = [walk[p] EXCEPT !.todo = @ \ {r}]]
    BY <1>0, <1>4, Zenon DEF PurgeAppend, ViewTypes, WalkType
  <2>2. UNCHANGED <<history, purged>> /\ walk[p].pc = "append"
    BY <1>4 DEF PurgeAppend, trxSysVars
  <2>6. walk[p].todo \subseteq Reader /\ r \in Walker
    BY Zenon, <1>0, <2>2, SMTT(30) DEF Roles, Walker
  <2> DEFINE n == [walk[p] EXCEPT !.todo = @ \ {r}]
  <2>3. n \in WalkType /\ n.pc = "append" /\ n.todo \subseteq Reader
    BY Zenon, <1>0, <2>2, <2>6 DEF WalkType
  <2> HIDE DEF n
  <2>4. CASE view[r].open
    <3>1. append(view[p], view[r]) \in ViewType /\ ViewOK(append(view[p], view[r]))
      BY Zenon, <1>0, <2>4, <2>6, AppendOK DEF ViewTypes, MVCCInv
    <3> QED
      BY <1>0, <2>1, <2>2, <2>3, <2>4, <3>1, ViewKeepsInv, Zenon DEF n
  <2>5. CASE ~view[r].open
    BY <1>0, <2>1, <2>2, <2>3, <2>5, ViewKeepsInv, Zenon DEF n
  <2> QED
    BY Zenon, <2>4, <2>5
<1>5. CASE PurgeHistory(p)
  <2>1. /\ history' \cup purged' \subseteq Numbered /\ UNCHANGED <<view, walk>>
        /\ walk[p].pc = "append" /\ walk[p].todo \subseteq Reader
    BY Zenon, <1>0, <1>5 DEF PurgeHistory, Roles
  <2> QED
    BY Zenon, <1>0, <1>1, <2>1, ViewKeepsInv
<1>6. CASE PurgeEnd(p)
  <2>1. walk' = [walk EXCEPT ![p] = IdleWalk] /\ UNCHANGED <<view, history, purged>>
    BY Zenon, <1>6 DEF PurgeEnd, trxSysVars
  <2>2. IdleWalk.pc = "idle"
    BY Zenon DEF IdleWalk
  <2> QED
    BY <1>0, <1>1, <2>1, <2>2, IdleWalkType, ViewKeepsInv, Zenon
<1> QED
  BY <1>2, <1>3, <1>4, <1>5, <1>6

LEMMA MVCCInitInv == Init => MVCCInv
<1> SUFFICES ASSUME Init PROVE MVCCInv
  OBVIOUS
<1> USE TrxSysAssumption DEF Init, TrxSysInit
<1>1. Pending = {}
  BY DEF Pending
<1>2. Registry
  <2>1. RegTypes
    BY DEF RegTypes, States, TRX_ID_MAX
  <2>2. VersionCounts
    BY <1>1, FS_EmptySet DEF VersionCounts
  <2>3. IdsUnique /\ HashExact /\ NumbersDrawn
    BY DEF IdsUnique, HashExact, NumbersDrawn
  <2> QED
    BY <2>1, <2>2, <2>3 DEF Registry
<1>3. ViewTypes
  BY IdleWalkType DEF ViewTypes
<1>4. \A k \in Walker : /\ view[k] = ClosedView /\ walk[k] = IdleWalk
                        /\ ~view[k].open /\ walk[k].pc = "idle" /\ walk[k].before = {}
  BY Zenon DEF ClosedView, IdleWalk
<1>5. Roles /\ BeforeSeen
  BY Zenon, <1>4 DEF Roles, BeforeSeen, Walker
<1>6. \A k \in Walker : WalkOK(walk[k]) /\ ViewOK(view[k])
  BY Zenon, <1>2, <1>4, ClosedViewOK DEF WalkOK
<1> QED
  BY Zenon, <1>2, <1>3, <1>5, <1>6 DEF MVCCInv

LEMMA MVCCStepInv == MVCCInv /\ [Next]_vars => MVCCInv'
<1> SUFFICES ASSUME MVCCInv, [Next]_vars PROVE MVCCInv'
  OBVIOUS
<1>1. CASE Next
  <2>1. ASSUME NEW k \in Walker, ReadVersion(k) \/ CompareVersion(k) \/ Visit(k) \/ Retry(k)
        PROVE  MVCCInv'
    BY <1>1, <2>1, ReadVersionKeepsInv, CompareVersionKeepsInv, VisitKeepsInv, RetryKeepsInv
  <2>2. ASSUME NEW r \in Reader, Open(r) \/ OpenSnapshot(r) \/ OpenReuse(r) \/ Close(r)
        PROVE  MVCCInv'
    BY <1>1, <2>2, OpenKeepsInv, OpenSnapshotKeepsInv, OpenReuseKeepsInv, CloseKeepsInv
  <2> QED
    BY Zenon, <1>1, <2>1, <2>2, TrxKeepsInv, PurgeKeepsInv DEF Next
<1>2. CASE UNCHANGED vars
  <2>1. /\ UNCHANGED <<m_max_trx_id, m_rw_trx_hash_version, rw_trx_hash, no, trx>>
        /\ UNCHANGED <<history, view, walk, purged>>
    BY <1>2 DEF vars, trxSysVars, viewVars
  <2>2. Registry' /\ RegStep /\ Numbered' = Numbered /\ Running' = Running
    BY <2>1, StutterKeepsRegistry DEF MVCCInv
  <2>3. \A k \in Walker : WalkOK(walk[k])' /\ ViewOK(view[k])'
    BY <2>1, <2>2, WalkStays, ViewStays DEF MVCCInv, ViewTypes
  <2>4. ViewTypes' /\ Roles'
    BY Zenon, <2>1 DEF MVCCInv, ViewTypes, Roles
  <2>5. BeforeSeen'
    BY <2>1, <2>2, Zenon DEF MVCCInv, BeforeSeen, Ended, SeenBy, SeesAllBefore, changes_visible
  <2> QED
    BY <2>1, <2>2, <2>3, <2>4, <2>5 DEF MVCCInv
<1> QED
  BY <1>1, <1>2

-----------------------------------------------------------------------------
(* Theorems about read views *)

LEMMA MVCCAlways == Spec => []MVCCInv
  BY MVCCInitInv, MVCCStepInv, PTL DEF Spec

\* The registry, the views and the walks of trx_sys_t keep their types; the
\* hash holds running transactions only.
THEOREM MVCCTypeCorrect == Spec => []TypeOK
<1>1. MVCCInv => TypeOK
  <2> SUFFICES ASSUME MVCCInv PROVE TypeOK
    OBVIOUS
  <2> USE DEF MVCCInv
  <2>1. rw_trx_hash \subseteq Running
    BY HashRuns
  <2>2. m_rw_trx_hash_version \in 1..m_max_trx_id
    BY PendingFinite DEF Registry, RegTypes, VersionCounts
  <2>3. \A k \in Walker : /\ view[k].ids \subseteq Id
                          /\ view[k].up_limit_id <= view[k].low_limit_id
                          /\ walk[k].ids \subseteq Id
    BY Zenon DEF ViewTypes, ViewType, WalkType, ViewOK
  <2>4. history \cup purged \subseteq Id
    BY DEF Numbered
  <2> QED
    BY Zenon, <2>1, <2>2, <2>3, <2>4 DEF TypeOK, Registry, RegTypes
<1> QED
  BY <1>1, MVCCAlways, PTL

\* ReadView::changes_visible() is false for every transaction that is still
\* running, however register_rw() and the lock-free walk interleave.
THEOREM NoDirtyReads == Spec => []NoDirtyRead
<1>1. MVCCInv => NoDirtyRead
  BY Zenon DEF MVCCInv, NoDirtyRead, OpenViews, ViewOK, Walker
<1> QED
  BY <1>1, MVCCAlways, PTL

\* A view sees every transaction that had been deregistered when open() was
\* called, unless its walk collected some identifier twice.
THEOREM CommittedSeen == Spec => []CommittedVisibleOnce
<1>1. MVCCInv => CommittedVisibleOnce
  BY Zenon DEF MVCCInv, CommittedVisibleOnce, OpenViews, BeforeSeen
<1> QED
  BY <1>1, MVCCAlways, PTL

-----------------------------------------------------------------------------
(* Purge.  That it removes no history which an open view needs holds without *)
(* the two cases that the runs mvcc_reuse and mvcc_duplicates show to be     *)
(* exceptions: a view that is reopened without its mutex, and a walk that    *)
(* collects an identifier twice.                                             *)


\* What the view of a purger that is past reader r sees, r sees too; and so it
\* is with what has been purged.
PurgeInv ==
    /\ \A p \in Purger : walk[p].pc = "append" =>
         \A r \in Reader \ walk[p].todo, i \in Numbered :
             changes_visible(view[p], i) => SeenBy(r, i)
    /\ \A i \in purged, r \in Reader : SeenBy(r, i)

\* Without retries no walk collects an identifier twice.
NoneTwice ==
    \A k \in Walker : /\ walk[k].retries = 0 /\ ~view[k].twice
                      /\ walk[k].pc = "walk" =>
                           /\ walk[k].size = Cardinality(walk[k].ids)
                           /\ walk[k].ids \cap walk[k].todo = {}

-----------------------------------------------------------------------------
(* What purge removes has ended *)

\* An undo log below low_limit_no() belongs to a transaction that the purge
\* view sees.
LEMMA PurgeableVisible ==
  ASSUME MVCCInv, NEW p \in Walker, NEW i \in Numbered, no[i] < view[p].low_limit_no
  PROVE  changes_visible(view[p], i) /\ i \notin Running
<1> USE DEF MVCCInv
<1>1. i \in Id /\ i \in Nat /\ no[i] \in Nat /\ no[i] # TRX_ID_MAX
  BY NumbersAreNat, TrxSysAssumption DEF Numbered, TRX_ID_MAX
<1>2. i < no[i]
  BY Zenon, <1>1 DEF Registry, NumbersDrawn
<1>3. /\ view[p].low_limit_no \in Nat /\ view[p].low_limit_id \in Nat
      /\ view[p].low_limit_no <= view[p].low_limit_id
  BY Zenon DEF ViewTypes, ViewType, ViewOK
<1>4. i \notin view[p].ids
  BY <1>1, <1>3 DEF ViewOK
<1>5. changes_visible(view[p], i)
  BY <1>1, <1>2, <1>3, <1>4 DEF changes_visible
<1> QED
  BY Zenon, <1>5 DEF ViewOK

LEMMA NextRegStep ==
  ASSUME MVCCInv, [Next]_vars
  PROVE  RegStep /\ Registry'
<1>1. ASSUME NEW t \in Trx, (TrxStep(t) /\ UNCHANGED viewVars) \/ Erase(t)
      PROVE  RegStep /\ Registry'
  BY <1>1, TrxKeepsRegistry DEF Erase, MVCCInv
<1>2. CASE UNCHANGED vars
  BY Zenon, <1>2, StutterKeepsRegistry DEF MVCCInv, vars, trxSysVars
<1>3. ASSUME NEW k \in Walker, OnlyWalker(k) PROVE RegStep /\ Registry'
  BY Zenon, <1>3, StutterKeepsRegistry DEF MVCCInv, OnlyWalker, regVars
<1> QED
  BY Zenon, <1>1, <1>2, <1>3, WalkerFrame DEF Next, MVCCInv, Walker

\* Only purge changes what has been purged, and adds what it covers.
LEMMA PurgedStep ==
  ASSUME MVCCInv, [Next]_vars, NEW i \in purged', i \notin purged
  PROVE  \E p \in Purger : /\ walk[p].pc = "append" /\ walk[p].todo = {}
                           /\ i \in Numbered /\ no[i] < view[p].low_limit_no
                           /\ UNCHANGED <<view, walk>> /\ UNCHANGED regVars
<1>1. \E p \in Purger : PurgeHistory(p)
  <2>1. ASSUME NEW t \in Trx, (TrxStep(t) /\ UNCHANGED viewVars) \/ Erase(t)
        PROVE  purged' = purged
    BY <2>1, TrxFrame DEF MVCCInv
  <2>2. ASSUME NEW k \in Walker, ReadVersion(k) \/ CompareVersion(k) \/ Visit(k) \/ Retry(k)
        PROVE  purged' = purged
    BY <2>2 DEF ReadVersion, CompareVersion, Visit, Retry
  <2>3. ASSUME NEW r \in Reader, Open(r) \/ OpenSnapshot(r) \/ OpenReuse(r) \/ Close(r)
        PROVE  purged' = purged
    BY <2>3 DEF Open, OpenSnapshot, OpenReuse, Close
  <2>4. ASSUME NEW p \in Purger, PurgeBegin(p) \/ PurgeSnapshot(p) \/ PurgeAppend(p)
                                   \/ PurgeEnd(p)
        PROVE  purged' = purged
    BY <2>4 DEF PurgeBegin, PurgeSnapshot, PurgeAppend, PurgeEnd
  <2>5. purged' # purged
    OBVIOUS
  <2>6. Next
    BY <2>5 DEF vars, viewVars
  <2> QED
    BY Zenon, <2>1, <2>2, <2>3, <2>4, <2>5, <2>6 DEF Next
<1>2. PICK p \in Purger : PurgeHistory(p)
  BY <1>1
<1>3. i \in history /\ no[i] < view[p].low_limit_no
  BY Zenon, <1>2 DEF PurgeHistory
<1> QED
  BY Zenon, <1>2, <1>3 DEF PurgeHistory, MVCCInv, regVars

\* trx_purge() never removes the history of a transaction that has not been
\* deregistered, whatever readers and walks do.
THEOREM PurgeLeavesRunning == Spec => []PurgeOnlyEnded
<1> DEFINE I == MVCCInv /\ purged \subseteq Ended
<1>1. Init => I
  BY MVCCInitInv DEF Init
<1>2. I /\ [Next]_vars => I'
  <2> SUFFICES ASSUME I, [Next]_vars PROVE I'
    OBVIOUS
  <2>1. MVCCInv'
    BY MVCCStepInv
  <2>2. Ended \subseteq Ended'
    BY Zenon, NextRegStep DEF RegStep
  <2>3. ASSUME NEW i \in purged', i \notin purged PROVE i \in Ended
    BY Zenon, <2>3, PurgedStep, PurgeableVisible DEF Ended, Walker
  <2> QED
    BY <2>1, <2>2, <2>3
<1>3. I => PurgeOnlyEnded
  BY DEF PurgeOnlyEnded, Ended
<1> QED
  BY <1>1, <1>2, <1>3, PTL DEF Spec

-----------------------------------------------------------------------------
(* What purge removes or may remove is seen by the views *)

\* A transaction that the view of a walker sees, and that has a number after a
\* step, had it before and had ended.
LEMMA SeenHadEnded ==
  ASSUME MVCCInv, [Next]_vars, NEW p \in Walker, NEW i \in Numbered',
         changes_visible(view[p], i)
  PROVE  i \in Ended
<1> USE DEF MVCCInv
<1>1. i \in Id /\ i \notin Running
  BY Zenon DEF Numbered, ViewOK
<1>2. \A u \in Trx : trx[u].id # i
  BY <1>1, RunningHasTrx DEF Id
<1>3. no'[i] = no[i]
  BY Zenon, <1>1, <1>2, NextRegStep DEF RegStep
<1>4. i \in Numbered
  BY Zenon, <1>3 DEF Numbered
<1> QED
  BY <1>1, <1>4 DEF Ended

\* PurgeAppend() of reader r, which is neither walking nor reopening its view.
LEMMA AppendedSeen ==
  ASSUME MVCCInv, Autocommit = {}, NEW p \in Purger, NEW r \in Reader, NEW i \in Id,
         ~HoldsMutex(r),
         changes_visible(IF view[r].open THEN append(view[p], view[r]) ELSE view[p], i)
  PROVE  changes_visible(view[p], i) /\ SeenBy(r, i)
<1> USE DEF MVCCInv
<1>0. r \in Walker /\ p \in Walker /\ view[r] \in ViewType /\ view[p] \in ViewType
  BY Zenon DEF Walker, ViewTypes
<1>1. walk[r].pc # "walk" /\ walk[r].pc # "reuse"
  BY Zenon, <1>0 DEF HoldsMutex, Roles
<1>2. CASE view[r].open
  BY <1>0, <1>1, <1>2, AppendOK DEF SeenBy
<1>3. CASE ~view[r].open
  BY Zenon, <1>1, <1>3 DEF SeenBy
<1> QED
  BY Zenon, <1>2, <1>3

LEMMA WalkPc ==
  ASSUME ViewTypes, NEW k \in Walker,
         ReadVersion(k) \/ CompareVersion(k) \/ Visit(k) \/ Retry(k)
  PROVE  walk'[k].pc \in {"version", "compare", "walk"}
<1>0. walk[k] \in WalkType
  BY Zenon DEF ViewTypes
<1>1. CASE ReadVersion(k)
  BY <1>0, <1>1 DEF ReadVersion, ViewTypes, WalkType
<1>2. CASE CompareVersion(k)
  BY <1>0, <1>2 DEF CompareVersion, ViewTypes, WalkType
<1>3. CASE Visit(k)
  <2>1. PICK id \in walk[k].todo :
          LET arg == [walk[k] EXCEPT !.todo = @ \ {id}]
          IN  walk' = [walk EXCEPT ![k] = IF id \in rw_trx_hash
                                            THEN copy_one_id(arg, id) ELSE arg]
    BY <1>3, Zenon DEF Visit
  <2>2. walk'[k].pc = walk[k].pc
    BY <1>0, <2>1 DEF copy_one_id, ViewTypes, WalkType
  <2> QED
    BY Zenon, <1>3, <2>2 DEF Visit
<1>4. CASE Retry(k)
  <2>1. PICK again : walk' = [walk EXCEPT ![k].todo = @ \cup again, ![k].retries = @ - 1]
    BY <1>4, Zenon DEF Retry
  <2>2. walk'[k].pc = walk[k].pc
    BY <1>0, <2>1 DEF ViewTypes, WalkType
  <2> QED
    BY Zenon, <1>4, <2>2 DEF Retry
<1> QED
  BY Zenon, <1>1, <1>2, <1>3, <1>4

LEMMA PurgeStepInv ==
  ASSUME MVCCInv, Autocommit = {}, purged \subseteq Ended, PurgeInv, Next
  PROVE  PurgeInv'
<1> USE DEF MVCCInv
<1>0. \A p \in Purger : p \in Walker /\ p \notin Reader
  BY Zenon, MVCCAssumption DEF Walker
<1>1. ASSUME NEW i \in purged', NEW r \in Reader PROVE SeenBy(r, i)'
  <2>1. CASE i \in purged
    BY Zenon, <1>1, <2>1, SeenStays DEF PurgeInv
  <2>2. CASE i \notin purged
    <3>1. PICK p \in Purger : /\ walk[p].pc = "append" /\ walk[p].todo = {}
                              /\ i \in Numbered /\ no[i] < view[p].low_limit_no
      BY Zenon, <1>1, <2>2, PurgedStep
    <3>2. changes_visible(view[p], i) /\ i \in Ended
      BY Zenon, <1>0, <3>1, PurgeableVisible DEF Ended
    <3>3. SeenBy(r, i)
      BY Zenon, <3>1, <3>2 DEF PurgeInv
    <3> QED
      BY Zenon, <3>2, <3>3, SeenStays
  <2> QED
    BY Zenon, <2>1, <2>2
<1>2. ASSUME NEW p \in Purger, walk'[p].pc = "append",
             NEW r \in Reader, r \notin walk'[p].todo, NEW i \in Numbered',
             changes_visible(view'[p], i)
      PROVE  SeenBy(r, i)'
  <2>0. i \in Id
    BY DEF Numbered
  <2>1. SUFFICES changes_visible(view[p], i) /\ SeenBy(r, i)
    BY Zenon, <1>0, SeenHadEnded, SeenStays
  <2>2. CASE PurgeAppend(p)
    <3>1. PICK q \in walk[p].todo :
            /\ ~HoldsMutex(q) /\ walk[p].pc = "append"
            /\ view' = [view EXCEPT ![p] = IF view[q].open THEN append(@, view[q]) ELSE @]
            /\ walk' = [walk EXCEPT ![p].todo = @ \ {q}]
      BY <2>2, Zenon DEF PurgeAppend
    <3>2. /\ q \in Reader
          /\ view'[p] = IF view[q].open THEN append(view[p], view[q]) ELSE view[p]
          /\ walk'[p].todo = walk[p].todo \ {q}
      BY <1>0, <3>1 DEF Roles, ViewTypes, WalkType
    <3>3. changes_visible(view[p], i) /\ SeenBy(q, i)
      BY Zenon, <1>2, <2>0, <3>1, <3>2, AppendedSeen
    <3>4. r # q => SeenBy(r, i)
      <4>1. i \in Numbered
        BY Zenon, <1>0, <3>3, SeenHadEnded DEF Ended
      <4> QED
        BY <1>2, <3>1, <3>2, <3>3, <4>1 DEF PurgeInv
    <3> QED
      BY Zenon, <3>3, <3>4
  <2>3. CASE ~PurgeAppend(p)
    <3>1. view'[p] = view[p] /\ walk[p].pc = "append" /\ walk'[p].todo = walk[p].todo
      <4>1. ASSUME NEW t \in Trx, (TrxStep(t) /\ UNCHANGED viewVars) \/ Erase(t)
            PROVE  view'[p] = view[p] /\ walk'[p].pc = walk[p].pc
                   /\ walk'[p].todo = walk[p].todo
        <5>1. /\ view' = view
              /\ \/ walk'[p] = walk[p] \/ walk'[p] = [walk[p] EXCEPT !.retries = @ + 1]
          BY <1>0, <4>1, TrxFrame
        <5>2. walk[p] \in WalkType
          BY Zenon, <1>0 DEF ViewTypes
        <5> QED
          BY <5>1, <5>2 DEF WalkType
      <4>2. ASSUME NEW k \in Walker, k # p, OnlyWalker(k)
            PROVE  view'[p] = view[p] /\ walk'[p] = walk[p]
        BY Zenon, <1>0, <4>2 DEF OnlyWalker
      <4>3. ~(ReadVersion(p) \/ CompareVersion(p) \/ Visit(p) \/ Retry(p))
        BY Zenon, <1>0, <1>2, WalkPc
      <4>4. ~PurgeBegin(p) /\ ~PurgeEnd(p) /\ ~PurgeSnapshot(p)
        <5>1. ASSUME PurgeSnapshot(p) PROVE walk'[p].todo = Reader
          BY <1>0, <5>1 DEF PurgeSnapshot, IdleWalk, ViewTypes
        <5>2. ASSUME PurgeBegin(p) PROVE walk'[p].pc = "version"
          BY <1>0, <5>2 DEF PurgeBegin, BeginSnapshot, IdleWalk, ViewTypes
        <5>3. ASSUME PurgeEnd(p) PROVE walk'[p].pc = "idle"
          BY Zenon, <1>0, <5>3 DEF PurgeEnd, IdleWalk, ViewTypes
        <5> QED
          BY Zenon, <1>2, <5>1, <5>2, <5>3
      <4>5. PurgeHistory(p) => UNCHANGED <<view, walk>>
        BY Zenon DEF PurgeHistory
      <4> QED
        BY Zenon, <1>0, <1>2, <2>3, <4>1, <4>2, <4>3, <4>4, <4>5, WalkerFrame, SMTT(30) DEF Next, Walker
    <3>2. i \in Numbered
      BY Zenon, <1>0, <1>2, <3>1, SeenHadEnded DEF Ended
    <3> QED
      BY Zenon, <1>2, <3>1, <3>2 DEF PurgeInv
  <2> QED
    BY Zenon, <2>2, <2>3
<1> QED
  BY Zenon, <1>1, <1>2 DEF PurgeInv, changes_visible

-----------------------------------------------------------------------------
(* Without retries no identifier is collected twice *)

LEMMA TwiceWalkStep ==
  ASSUME MVCCInv, NoneTwice, NEW k \in Walker,
         ReadVersion(k) \/ CompareVersion(k) \/ Visit(k) \/ Retry(k)
  PROVE  /\ view'[k] = view[k] /\ walk'[k].retries = 0
         /\ walk'[k].pc = "walk" => /\ walk'[k].size = Cardinality(walk'[k].ids)
                                    /\ walk'[k].ids \cap walk'[k].todo = {}
<1> USE DEF MVCCInv
<1> DEFINE w == walk[k]
<1>0. w \in WalkType /\ w.retries = 0 /\ view'[k] = view[k]
  BY Zenon DEF ViewTypes, NoneTwice, ReadVersion, CompareVersion, Visit, Retry
<1>1. CASE ReadVersion(k)
  <2>1. walk'[k].pc = "compare" /\ walk'[k].retries = w.retries
    BY <1>0, <1>1 DEF ReadVersion, ViewTypes, WalkType
  <2> QED
    BY Zenon, <1>0, <2>1
<1>2. CASE CompareVersion(k)
  <2>1. w.ids = {} /\ w.size = 0
    BY <1>2 DEF CompareVersion, WalkOK
  <2>2. /\ walk'[k].ids = w.ids /\ walk'[k].size = w.size /\ walk'[k].retries = w.retries
    BY <1>0, <1>2 DEF CompareVersion, ViewTypes, WalkType
  <2> QED
    BY Zenon, <1>0, <2>1, <2>2, FS_EmptySet
<1>3. CASE Visit(k)
  <2>1. PICK id \in w.todo :
          walk' = [walk EXCEPT ![k] = IF id \in rw_trx_hash
                                        THEN copy_one_id([w EXCEPT !.todo = @ \ {id}], id)
                                        ELSE [w EXCEPT !.todo = @ \ {id}]]
    BY <1>3, Zenon DEF Visit
  <2>2. /\ w.size = Cardinality(w.ids) /\ w.ids \cap w.todo = {} /\ w.ids \in SUBSET Id
        /\ IsFiniteSet(w.ids)
    BY Zenon, <1>0, <1>3, IdsFinite DEF Visit, NoneTwice, WalkType
  <2>3. /\ walk'[k].todo = w.todo \ {id} /\ walk'[k].retries = 0
        /\ \/ walk'[k].ids = w.ids /\ walk'[k].size = w.size
           \/ walk'[k].ids = w.ids \cup {id} /\ walk'[k].size = w.size + 1
    BY <1>0, <2>1 DEF copy_one_id, ViewTypes, WalkType
  <2>4. Cardinality(w.ids \cup {id}) = w.size + 1
    BY <2>2, FS_AddElement, Zenon
  <2> QED
    BY <1>0, <2>2, <2>3, <2>4, Zenon
<1>4. CASE Retry(k)
  BY <1>0, <1>4 DEF Retry
<1> QED
  BY Zenon, <1>1, <1>2, <1>3, <1>4

\* A snapshot from such a walk has collected every identifier once.
LEMMA SnapshotOnce ==
  ASSUME NEW w, w.size = Cardinality(w.ids)
  PROVE  ~snapshot(w).twice
<1> DEFINE v == [open |-> FALSE, low_limit_id |-> w.m_id,
                 up_limit_id |-> IF w.ids = {} THEN w.m_id ELSE Min(w.ids),
                 ids |-> w.ids, low_limit_no |-> w.m_no,
                 before |-> w.before, twice |-> w.size # Cardinality(w.ids)]
           d == [v EXCEPT !.ids = {}, !.low_limit_id = v.up_limit_id,
                          !.low_limit_no = v.up_limit_id]
<1>1. snapshot(w) = v \/ snapshot(w) = d
  BY DEF snapshot
<1>2. v.twice = FALSE /\ d.twice = FALSE
  BY Zenon
<1> QED
  BY <1>1, <1>2, Zenon

LEMMA NoneTwiceStep ==
  ASSUME MVCCInv, MaxRetry = 0, NoneTwice, Next
  PROVE  NoneTwice'
<1> USE DEF MVCCInv
<1>0. \A k \in Walker : view[k] \in ViewType /\ walk[k] \in WalkType
  BY Zenon DEF ViewTypes
<1>1. CASE \E t \in Trx : (TrxStep(t) /\ UNCHANGED viewVars) \/ Erase(t)
  <2>1. view' = view /\ \A k \in Walker : walk'[k] = walk[k]
    BY <1>1 DEF Erase, viewVars, NoneTwice
  <2> QED
    BY Zenon, <2>1 DEF NoneTwice
<1>2. ASSUME NEW k \in Walker, OnlyWalker(k), walk'[k].retries = 0, ~view'[k].twice,
             walk'[k].pc = "walk" => /\ walk'[k].size = Cardinality(walk'[k].ids)
                                     /\ walk'[k].ids \cap walk'[k].todo = {}
      PROVE  NoneTwice'
  BY Zenon, <1>2 DEF NoneTwice, OnlyWalker
<1>3. ASSUME NEW k \in Walker, ReadVersion(k) \/ CompareVersion(k) \/ Visit(k) \/ Retry(k)
      PROVE  NoneTwice'
  <2>1. OnlyWalker(k)
    BY Zenon, <1>3, WalkerFrame
  <2>2. ~view'[k].twice
    BY Zenon, <1>3, TwiceWalkStep DEF NoneTwice
  <2> QED
    BY Zenon, <1>2, <1>3, <2>1, <2>2, TwiceWalkStep, SMTT(30)
<1>4. IdleWalk.retries = 0 /\ IdleWalk.pc = "idle"
  BY Zenon DEF IdleWalk
<1>5. ASSUME NEW r \in Reader, Open(r) \/ OpenSnapshot(r) \/ OpenReuse(r) \/ Close(r)
      PROVE  NoneTwice'
  <2>0. r \in Walker /\ OnlyWalker(r) /\ walk[r].retries = 0 /\ ~view[r].twice
    BY Zenon, <1>5, WalkerFrame DEF Walker, NoneTwice
  <2>1. walk'[r].retries = 0 /\ walk'[r].pc # "walk"
    <3>1. CASE Open(r)
      <4>1. CASE walk' = [walk EXCEPT ![r].pc = "reuse", ![r].before = Ended]
        BY <1>0, <2>0, <4>1 DEF ViewTypes, WalkType
      <4>2. CASE BeginSnapshot(r)
        BY <2>0, <4>2 DEF BeginSnapshot, IdleWalk, ViewTypes
      <4> QED
        BY Zenon, <3>1, <4>1, <4>2 DEF Open
    <3>2. CASE OpenSnapshot(r) \/ OpenReuse(r)
      BY <1>4, <2>0, <3>2 DEF OpenSnapshot, OpenReuse, ViewTypes
    <3>3. CASE Close(r)
      BY <2>0, <3>3 DEF Close, Roles
    <3> QED
      BY Zenon, <1>5, <3>1, <3>2, <3>3
  <2>2. ~view'[r].twice
    <3>1. CASE Open(r)
      BY <2>0, <3>1 DEF Open
    <3>2. CASE OpenSnapshot(r)
      <4>1. walk[r].size = Cardinality(walk[r].ids) /\ walk[r].todo = {} /\ walk[r].pc = "walk"
        BY <2>0, <3>2 DEF OpenSnapshot, NoneTwice
      <4>2. ~snapshot(walk[r]).twice /\ snapshot(walk[r]) \in ViewType
        BY Zenon, <1>0, <2>0, <4>1, SnapshotOnce, SnapshotOK
      <4>3. view'[r] = [snapshot(walk[r]) EXCEPT !.open = TRUE]
        BY <2>0, <3>2 DEF OpenSnapshot, ViewTypes
      <4> QED
        BY <4>2, <4>3 DEF ViewType
    <3>3. CASE OpenReuse(r)
      BY <1>0, <2>0, <3>3 DEF OpenReuse, ViewTypes, ViewType
    <3>4. CASE Close(r)
      BY <1>0, <2>0, <3>4 DEF Close, ViewTypes, ViewType, ClosedView
    <3> QED
      BY Zenon, <1>5, <3>1, <3>2, <3>3, <3>4
  <2> QED
    BY Zenon, <1>2, <2>0, <2>1, <2>2
<1>6. ASSUME NEW p \in Purger, PurgeBegin(p) \/ PurgeSnapshot(p) \/ PurgeAppend(p)
                                 \/ PurgeHistory(p) \/ PurgeEnd(p)
      PROVE  NoneTwice'
  <2>0. p \in Walker /\ OnlyWalker(p) /\ walk[p].retries = 0 /\ ~view[p].twice
    BY Zenon, <1>6, WalkerFrame DEF Walker, NoneTwice
  <2>1. CASE PurgeBegin(p)
    <3>1. view' = view /\ walk'[p].retries = 0 /\ walk'[p].pc = "version"
      BY <2>0, <2>1 DEF PurgeBegin, BeginSnapshot, IdleWalk, ViewTypes
    <3> QED
      BY Zenon, <1>2, <2>0, <3>1
  <2>2. CASE PurgeSnapshot(p)
    <3>1. walk'[p].retries = 0 /\ walk'[p].pc = "append" /\ view'[p] = snapshot(walk[p])
      BY <2>0, <2>2 DEF PurgeSnapshot, IdleWalk, ViewTypes
    <3>2. ~snapshot(walk[p]).twice
      BY <2>0, <2>2, SnapshotOnce DEF PurgeSnapshot, NoneTwice
    <3> QED
      BY Zenon, <1>2, <2>0, <3>1, <3>2
  <2>3. CASE PurgeAppend(p)
    <3>1. PICK r \in walk[p].todo :
            /\ view' = [view EXCEPT ![p] = IF view[r].open THEN append(@, view[r]) ELSE @]
            /\ walk' = [walk EXCEPT ![p].todo = @ \ {r}]
      BY <2>3, Zenon DEF PurgeAppend
    <3>2. walk'[p].retries = 0 /\ walk'[p].pc = "append"
      BY <1>0, <2>0, <2>3, <3>1 DEF PurgeAppend, ViewTypes, WalkType
    <3>3. r \in Walker
      BY <2>0, <2>3 DEF PurgeAppend, Roles, Walker
    <3>4. ~view'[p].twice
      BY <1>0, <2>0, <3>1, <3>3, AppendOK DEF ViewTypes
    <3> QED
      BY Zenon, <1>2, <2>0, <3>2, <3>4
  <2>4. CASE PurgeHistory(p)
    BY Zenon, <2>4 DEF PurgeHistory, NoneTwice
  <2>5. CASE PurgeEnd(p)
    BY Zenon, <1>2, <1>4, <2>0, <2>5 DEF PurgeEnd, ViewTypes
  <2> QED
    BY Zenon, <1>6, <2>1, <2>2, <2>3, <2>4, <2>5
<1> QED
  BY Zenon, <1>1, <1>3, <1>5, <1>6 DEF Next

-----------------------------------------------------------------------------
(* FACT C of read0read.cc *)

PurgeSafe == MVCCInv /\ purged \subseteq Ended /\ PurgeInv /\ NoneTwice

LEMMA PurgeSafeAlways ==
  ASSUME Autocommit = {}, MaxRetry = 0
  PROVE  Spec => []PurgeSafe
<1>1. Init => PurgeSafe
  <2> SUFFICES ASSUME Init PROVE PurgeSafe
    OBVIOUS
  <2>1. \A k \in Walker : /\ ~view[k].twice /\ walk[k].retries = 0 /\ walk[k].pc = "idle"
    BY Zenon DEF Init, ClosedView, IdleWalk
  <2>2. NoneTwice
    BY Zenon, <2>1 DEF NoneTwice
  <2>3. purged = {} /\ PurgeInv
    BY Zenon, <2>1 DEF Init, PurgeInv, Walker
  <2> QED
    BY <2>2, <2>3, MVCCInitInv DEF PurgeSafe
<1>2. PurgeSafe /\ [Next]_vars => PurgeSafe'
  <2> SUFFICES ASSUME PurgeSafe, [Next]_vars PROVE PurgeSafe'
    OBVIOUS
  <2>1. MVCCInv'
    BY MVCCStepInv DEF PurgeSafe
  <2>2. Ended \subseteq Ended'
    BY Zenon, NextRegStep DEF RegStep, PurgeSafe
  <2>3. ASSUME NEW i \in purged', i \notin purged PROVE i \in Ended
    BY Zenon, <2>3, PurgedStep, PurgeableVisible DEF Ended, Walker, PurgeSafe
  <2>4. purged' \subseteq Ended'
    BY <2>2, <2>3 DEF PurgeSafe
  <2>5. CASE Next
    BY Zenon, <2>1, <2>4, <2>5, PurgeStepInv, NoneTwiceStep DEF PurgeSafe
  <2>6. CASE UNCHANGED vars
    <3>1. UNCHANGED <<view, walk, purged, no>>
      BY <2>6 DEF vars, viewVars, trxSysVars
    <3>2. PurgeInv'
      BY <3>1, SMTT(30) DEF PurgeSafe, PurgeInv, SeenBy, changes_visible, Numbered
    <3>3. NoneTwice'
      BY Zenon, <3>1 DEF PurgeSafe, NoneTwice
    <3> QED
      BY <2>1, <2>4, <3>2, <3>3 DEF PurgeSafe
  <2> QED
    BY <2>5, <2>6
<1> QED
  BY <1>1, <1>2, PTL DEF Spec

\* What trx_purge() has removed is visible in every open view, so no view will
\* look for the versions that were there before.
THEOREM PurgeKeepsViews ==
  ASSUME Autocommit = {}, MaxRetry = 0
  PROVE  Spec => []PurgeRespectsViews
<1>1. PurgeSafe => PurgeRespectsViews
  BY Zenon DEF PurgeSafe, PurgeRespectsViews, PurgeInv, NoneTwice, OpenViews, SeenBy, Walker
<1> QED
  BY <1>1, PurgeSafeAlways, PTL

\* While purge uses the view that clone_oldest_view() made, every open view
\* sees what that view sees.
THEOREM PurgeViewIsOldest ==
  ASSUME Autocommit = {}, MaxRetry = 0
  PROVE  Spec => []PurgeViewOldest
<1>1. PurgeSafe => PurgeViewOldest
  BY DEF PurgeSafe, PurgeViewOldest, PurgeInv, NoneTwice, OpenViews, SeenBy, Walker
<1> QED
  BY <1>1, PurgeSafeAlways, PTL

=============================================================================

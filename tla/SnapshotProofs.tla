--------------------------- MODULE SnapshotProofs ----------------------------
(***************************************************************************)
(* Proofs about MVCC, for any finite set of transactions, any sets of      *)
(* readers and purgers and any bounds.  Here: the inductive invariant; the *)
(* registry of TrxSys keeps it; what a walk of the hash and a view say     *)
(* stays true while transactions move; snapshot() and append() make views  *)
(* that satisfy it.                                                        *)
(***************************************************************************)
EXTENDS MVCC, FiniteSetTheorems, TLAPS

-----------------------------------------------------------------------------
(* The inductive invariant: the registry *)

\* The transactions between drawing a number and refreshing the version.
Pending == {t \in Trx : trx[t].state \in {"id_drawn", "inserted", "no_drawn", "no_stored"}}

RegTypes ==
    /\ m_max_trx_id \in 1..(MaxId + 1)
    /\ m_rw_trx_hash_version \in Nat \ {0}
    /\ no \in [Id -> 1..TRX_ID_MAX]
    /\ trx \in [Trx -> [state : States, id : 0..MaxId, drawn : 0..MaxId]]

\* m_rw_trx_hash_version lags behind m_max_trx_id by the pending ones.
VersionCounts == m_rw_trx_hash_version + Cardinality(Pending) = m_max_trx_id

\* A trx_t has an identifier while it is started, and no two have the same.
IdsUnique ==
    /\ \A t \in Trx : /\ trx[t].state = "NOT_STARTED" <=> trx[t].id = 0
                      /\ trx[t].id < m_max_trx_id
    /\ \A t, u \in Trx : trx[t].id = trx[u].id /\ trx[t].id # 0 => t = u

\* The hash holds exactly the transactions past RegisterInsert().
HashExact ==
    /\ \A t \in Trx : trx[t].state \notin {"NOT_STARTED", "id_drawn"}
                         => trx[t].id \in rw_trx_hash
    /\ \A i \in rw_trx_hash : \E t \in Trx : /\ trx[t].id = i
                                             /\ trx[t].state \notin {"NOT_STARTED", "id_drawn"}

\* A serialisation number is greater than the identifier, was drawn, and is
\* stored once.
NumbersDrawn ==
    /\ \A i \in Id : no[i] = TRX_ID_MAX \/ (i < no[i] /\ no[i] < m_max_trx_id)
    /\ \A t \in Trx :
         /\ trx[t].state \in {"id_drawn", "inserted", "ACTIVE", "no_drawn"}
               => no[trx[t].id] = TRX_ID_MAX
         /\ trx[t].state = "no_drawn"
               => trx[t].id < trx[t].drawn /\ trx[t].drawn < m_max_trx_id
         /\ trx[t].state \in {"no_stored", "serialised"}
               => no[trx[t].id] # TRX_ID_MAX

Registry == RegTypes /\ VersionCounts /\ IdsUnique /\ HashExact /\ NumbersDrawn

-----------------------------------------------------------------------------
(* The inductive invariant: walks and views *)

ViewType == [open : BOOLEAN, low_limit_id : Nat, up_limit_id : Nat, ids : SUBSET Id,
             low_limit_no : Nat, before : SUBSET Id, twice : BOOLEAN]

WalkType == [pc : {"idle", "version", "compare", "walk", "reuse", "append"},
             m_id : Nat, m_no : Nat, ids : SUBSET Id, size : Nat,
             todo : SUBSET (Id \cup Reader), retries : Nat, before : SUBSET Id]

ViewTypes == view \in [Walker -> ViewType] /\ walk \in [Walker -> WalkType]

\* A bound that no transaction which has still to draw, store or lose its
\* serialisation number can fall below.
LateNumbers(n) == \A t \in Trx : trx[t].state = "no_drawn" => trx[t].drawn >= n

\* A walk in progress.  When it starts nobody is pending, so every transaction
\* below its limit is in the hash; from then on it is collected or still to be
\* visited, and what is collected has no number below m_no.
WalkOK(w) ==
    /\ w.pc \in {"version", "compare"} => w.ids = {} /\ w.size = 0 /\ w.todo = {}
    /\ w.pc = "compare" => w.m_id <= m_rw_trx_hash_version
    /\ w.pc = "walk" =>
         /\ w.m_no <= w.m_id /\ w.m_id <= m_max_trx_id
         /\ \A i \in Running : i < w.m_id => i \in rw_trx_hash /\ i \in w.ids \cup w.todo
         /\ \A i \in w.ids : i < w.m_id /\ no[i] >= w.m_no
         /\ w.todo \subseteq Id
         /\ LateNumbers(w.m_id)

\* A view.  It sees no running transaction, its limits enclose its active
\* ones, and nothing it does not see has or will have a number below its
\* low_limit_no.
ViewOK(v) ==
    /\ v.up_limit_id <= v.low_limit_id
    /\ v.low_limit_no <= v.low_limit_id /\ v.low_limit_id <= m_max_trx_id
    /\ \A i \in v.ids : v.up_limit_id <= i /\ i < v.low_limit_id /\ no[i] >= v.low_limit_no
    /\ \A i \in Running : ~changes_visible(v, i) /\ no[i] >= v.low_limit_no
    /\ LateNumbers(v.low_limit_no)

\* Whoever walks or reuses is the kind of object that does.
Roles ==
    /\ \A k \in Walker : /\ walk[k].pc = "reuse" => k \in Autocommit
                         /\ walk[k].pc = "append" => k \in Purger /\ walk[k].todo \subseteq Reader
    /\ \A r \in Reader : view[r].open => walk[r].pc = "idle"

\* Ended transaction i is seen by what reader r has open, or will have open
\* when its walk ends or it reuses its view.
SeenBy(r, i) ==
    /\ view[r].open /\ ~view[r].twice => changes_visible(view[r], i)
    /\ walk[r].pc = "walk" => i \notin walk[r].ids /\ i < walk[r].m_id
    /\ walk[r].pc = "reuse" => view[r].ids = {} /\ i < view[r].low_limit_id

BeforeSeen ==
    \A r \in Reader :
        /\ walk[r].before \subseteq Ended
        /\ \A i \in walk[r].before : SeenBy(r, i)
        /\ view[r].open /\ ~view[r].twice => SeesAllBefore(view[r])

MVCCInv ==
    /\ Registry /\ ViewTypes /\ Roles /\ BeforeSeen
    /\ \A k \in Walker : WalkOK(walk[k]) /\ ViewOK(view[k])
    /\ history \cup purged \subseteq Numbered

-----------------------------------------------------------------------------
(* Facts about Min and about the sets of identifiers *)

LEMMA MinOfSet ==
  ASSUME NEW S \in SUBSET Nat, S # {}
  PROVE  Min(S) \in S /\ \A y \in S : Min(S) <= y
<1> DEFINE R == {p \in Nat \X Nat : p[1] < p[2]}
<1>0. IsWellFoundedOn(R, Nat)
  BY NatLessThanWellFounded, Zenon DEF OpToRel
<1>3. \A a, b \in Nat : a < b => <<a, b>> \in R
  OBVIOUS
<1> HIDE DEF R
<1>1. PICK x \in S : \A y \in S : ~(<<y, x>> \in R)
  BY <1>0, WFMin, Zenon
<1>4. \A y \in S : ~(y < x)
  BY <1>1, <1>3, Zenon
<1>2. \A y \in S : x <= y
  BY <1>4
<1> QED
  BY <1>2, Zenon DEF Min

LEMMA MinOfTwo ==
  ASSUME NEW a \in Nat, NEW b \in Nat
  PROVE  /\ Min({a, b}) \in Nat /\ Min({a, b}) <= a /\ Min({a, b}) <= b
         /\ Min({a, b}) = a \/ Min({a, b}) = b
<1>1. {a, b} \in SUBSET Nat /\ {a, b} # {}
  OBVIOUS
<1>2. Min({a, b}) \in {a, b} /\ \A y \in {a, b} : Min({a, b}) <= y
  BY <1>1, MinOfSet
<1> QED
  BY <1>2

LEMMA RunningHasTrx ==
  ASSUME NEW i
  PROVE  i \in Running <=> i # 0 /\ \E t \in Trx : trx[t].id = i
  BY DEF Running

\* The hash holds running transactions only.
LEMMA HashRuns ==
  ASSUME Registry
  PROVE  rw_trx_hash \subseteq Running /\ Running \subseteq Id /\ 0 \notin Running
  BY RunningHasTrx DEF Registry, RegTypes, HashExact, IdsUnique, Id

-----------------------------------------------------------------------------
(* The registry *)

\* What the walks and the views depend on in a step of a transaction: limits
\* grow, a new identifier and a new number are not below m_max_trx_id, the
\* hash loses nobody who runs on, and who has ended stays so.
RegStep ==
    /\ m_max_trx_id <= m_max_trx_id'
    /\ m_rw_trx_hash_version <= m_rw_trx_hash_version'
    /\ \A i \in Running' : i \in Running \/ i >= m_max_trx_id
    /\ \A i \in Running' : i \in rw_trx_hash => i \in rw_trx_hash'
    /\ \A i \in Id : no'[i] = no[i] \/
         \E u \in Trx : trx[u].state = "no_drawn" /\ trx[u].id = i /\ no'[i] = trx[u].drawn
    /\ \A u \in Trx : trx'[u].state = "no_drawn" =>
         trx'[u].drawn >= m_max_trx_id \/ (trx[u].state = "no_drawn" /\ trx'[u] = trx[u])
    /\ Ended \subseteq Ended'
    /\ Numbered \subseteq Numbered'

LEMMA PendingFinite == IsFiniteSet(Pending) /\ Cardinality(Pending) \in Nat
  BY TrxSysAssumption, FS_Subset, FS_CardinalityType DEF Pending

\* One transaction moves; the version and the counter follow.
LEMMA VersionStep ==
  ASSUME Registry, NEW t \in Trx, \A u \in Trx \ {t} : trx'[u] = trx[u],
         m_max_trx_id' \in Nat, m_rw_trx_hash_version' \in Nat,
         \/ /\ t \notin Pending /\ t \in Pending'
            /\ m_max_trx_id' = m_max_trx_id + 1
            /\ m_rw_trx_hash_version' = m_rw_trx_hash_version
         \/ /\ t \in Pending /\ t \notin Pending'
            /\ m_max_trx_id' = m_max_trx_id
            /\ m_rw_trx_hash_version' = m_rw_trx_hash_version + 1
         \/ /\ t \in Pending <=> t \in Pending'
            /\ UNCHANGED <<m_max_trx_id, m_rw_trx_hash_version>>
  PROVE  VersionCounts'
<1> USE DEF Registry
<1>0. \A u \in Trx \ {t} : u \in Pending <=> u \in Pending'
  BY DEF Pending
<1>00. Pending \subseteq Trx /\ Pending' \subseteq Trx
  BY DEF Pending
<1>1. CASE t \notin Pending /\ t \in Pending'
  <2>1. Pending' = Pending \cup {t}
    BY <1>0, <1>00, <1>1
  <2>2. Cardinality(Pending') = Cardinality(Pending) + 1
    BY Zenon, <1>1, <2>1, PendingFinite, FS_AddElement
  <2> QED
    BY <1>1, <2>2, PendingFinite DEF VersionCounts, RegTypes
<1>2. CASE t \in Pending /\ t \notin Pending'
  <2>1. Pending' = Pending \ {t}
    BY <1>0, <1>00, <1>2
  <2>2. Cardinality(Pending') = Cardinality(Pending) - 1
    BY <1>2, <2>1, PendingFinite, FS_RemoveElement
  <2> QED
    BY <1>2, <2>2, PendingFinite DEF VersionCounts, RegTypes
<1>3. CASE t \in Pending <=> t \in Pending'
  <2>1. Pending' = Pending
    BY <1>0, <1>00, <1>3
  <2> QED
    BY <1>3, <2>1 DEF VersionCounts
<1> QED
  BY <1>1, <1>2, <1>3

LEMMA SameIds ==
  ASSUME \A u \in Trx : trx'[u].id = trx[u].id
  PROVE  Running' = Running
  BY DEF Running

\* A transaction begins: its identifier is new.
LEMMA RegisterDrawKeeps ==
  ASSUME Registry, NEW t \in Trx, RegisterDraw(t)
  PROVE  Registry' /\ RegStep
<1> USE TrxSysAssumption DEF Registry
<1>1. /\ trx[t].state = "NOT_STARTED" /\ m_max_trx_id <= MaxId
      /\ m_max_trx_id' = m_max_trx_id + 1
      /\ trx'[t] = [state |-> "id_drawn", id |-> m_max_trx_id, drawn |-> 0]
      /\ \A u \in Trx \ {t} : trx'[u] = trx[u]
      /\ UNCHANGED <<m_rw_trx_hash_version, rw_trx_hash, no>>
  BY DEF RegisterDraw, Draw, RegTypes
<1>0. no[m_max_trx_id] = TRX_ID_MAX
  BY <1>1 DEF NumbersDrawn, RegTypes, Id
<1>2. RegTypes'
  BY DEF RegisterDraw, Draw, RegTypes, Id, States
<1>3. VersionCounts'
  BY <1>1, <1>2, VersionStep DEF Pending, RegTypes
<1>4. IdsUnique'
  BY <1>1, <1>2 DEF IdsUnique, RegTypes
<1>5. HashExact'
  BY <1>1 DEF HashExact
<1>6. NumbersDrawn'
  <2>1. \A i \in Id : no'[i] = TRX_ID_MAX \/ (i < no'[i] /\ no'[i] < m_max_trx_id')
    BY <1>1 DEF NumbersDrawn, RegTypes, Id
  <2> QED
    BY <1>1, <1>0, <2>1 DEF NumbersDrawn, RegTypes
<1>7. \A i : i \in Running' <=> i \in Running \/ i = m_max_trx_id
  <2>1. \A i : i \in Running' <=> i # 0 /\ \E u \in Trx : trx'[u].id = i
    BY DEF Running
  <2> QED
    BY <1>1, <2>1, RunningHasTrx DEF IdsUnique, RegTypes
<1>8. Ended \subseteq Ended' /\ Numbered' = Numbered
  <2>1. m_max_trx_id \notin Numbered
    BY <1>0 DEF Numbered, TRX_ID_MAX
  <2>2. Numbered' = Numbered
    BY <1>1 DEF Numbered
  <2> QED
    BY <1>7, <2>1, <2>2 DEF Ended
<1>9. RegStep
  BY <1>1, <1>7, <1>8 DEF RegStep, RegTypes
<1> QED
  BY <1>2, <1>3, <1>4, <1>5, <1>6, <1>9

\* It enters the hash.
LEMMA RegisterInsertKeeps ==
  ASSUME Registry, NEW t \in Trx, RegisterInsert(t)
  PROVE  Registry' /\ RegStep
<1> USE TrxSysAssumption DEF Registry
<1>0. trx[t].id \in Id /\ no[trx[t].id] = TRX_ID_MAX
  BY DEF RegisterInsert, NumbersDrawn, IdsUnique, RegTypes, Id
<1>1. /\ trx[t].state = "id_drawn"
      /\ trx'[t].state = "inserted" /\ trx'[t].id = trx[t].id
      /\ \A u \in Trx \ {t} : trx'[u] = trx[u]
      /\ rw_trx_hash' = rw_trx_hash \cup {trx[t].id}
      /\ UNCHANGED <<m_rw_trx_hash_version, m_max_trx_id>>
  BY DEF RegisterInsert, RegTypes
<1>2. no' = no
  BY <1>0 DEF RegisterInsert, RegTypes
<1>3. RegTypes'
  <2>1. trx' = [trx EXCEPT ![t].state = "inserted"] /\ "inserted" \in States
    BY Zenon DEF RegisterInsert, States
  <2>2. trx' \in [Trx -> [state : States, id : 0..MaxId, drawn : 0..MaxId]]
    BY <2>1, Zenon DEF RegTypes
  <2> QED
    BY <1>1, <1>2, <2>2, Zenon DEF RegTypes
<1>4. VersionCounts'
  BY <1>1, <1>3, VersionStep DEF Pending, RegTypes
<1>5. IdsUnique'
  BY <1>1 DEF IdsUnique
<1>6. HashExact'
  BY <1>1 DEF HashExact
<1>7. NumbersDrawn'
  BY <1>1, <1>2 DEF NumbersDrawn
<1>8. Running' = Running /\ Numbered' = Numbered /\ Ended' = Ended
  BY <1>1, <1>2, SameIds DEF Numbered, Ended
<1>9. RegStep
  BY <1>1, <1>2, <1>8 DEF RegStep, RegTypes
<1> QED
  BY <1>3, <1>4, <1>5, <1>6, <1>7, <1>9

\* The version is refreshed, for the identifier or for the number; or the
\* commit goes on.
LEMMA StateOnlyKeeps ==
  ASSUME Registry, NEW t \in Trx,
         RegisterRefresh(t) \/ SerialiseRefresh(t) \/ CommitHistory(t) \/ CommitEmpty(t)
  PROVE  Registry' /\ RegStep
<1> USE TrxSysAssumption DEF Registry
<1> DEFINE Refresh == \/ trx[t].state = "inserted" /\ trx'[t].state = "ACTIVE"
                      \/ trx[t].state = "no_stored" /\ trx'[t].state = "serialised"
           End == /\ trx[t].state \in {"serialised", "ACTIVE"}
                  /\ trx'[t].state = "COMMITTED_IN_MEMORY"
<1>1. /\ \/ Refresh /\ m_rw_trx_hash_version' = m_rw_trx_hash_version + 1
         \/ End /\ UNCHANGED m_rw_trx_hash_version
      /\ trx'[t].id = trx[t].id
      /\ \A u \in Trx \ {t} : trx'[u] = trx[u]
      /\ UNCHANGED <<m_max_trx_id, rw_trx_hash, no>>
  BY DEF RegisterRefresh, SerialiseRefresh, CommitHistory, CommitEmpty,
     refresh_rw_trx_hash_version, RegTypes
<1>2. RegTypes'
  <2>1. trx' \in [Trx -> [state : States, id : 0..MaxId, drawn : 0..MaxId]]
    BY DEF RegisterRefresh, SerialiseRefresh, CommitHistory, CommitEmpty, RegTypes, States
  <2> QED
    BY <1>1, <2>1 DEF RegTypes
<1>3. VersionCounts'
  BY <1>1, <1>2, VersionStep DEF Pending, RegTypes
<1>4. IdsUnique'
  BY <1>1 DEF IdsUnique
<1>5. HashExact'
  BY <1>1 DEF HashExact
<1>6. NumbersDrawn'
  BY <1>1 DEF NumbersDrawn
<1>7. Running' = Running /\ Numbered' = Numbered /\ Ended' = Ended
  BY Zenon, <1>1, SameIds DEF Numbered, Ended
<1>8. RegStep
  BY <1>1, <1>7 DEF RegStep, RegTypes
<1> QED
  BY <1>2, <1>3, <1>4, <1>5, <1>6, <1>8

\* A number is drawn at commit: it is not below any limit taken so far.
LEMMA SerialiseDrawKeeps ==
  ASSUME Registry, NEW t \in Trx, SerialiseDraw(t)
  PROVE  Registry' /\ RegStep
<1> USE TrxSysAssumption DEF Registry
<1>1. /\ trx[t].state = "ACTIVE" /\ m_max_trx_id <= MaxId
      /\ m_max_trx_id' = m_max_trx_id + 1
      /\ trx'[t].state = "no_drawn" /\ trx'[t].id = trx[t].id
      /\ trx'[t].drawn = m_max_trx_id
      /\ \A u \in Trx \ {t} : trx'[u] = trx[u]
      /\ UNCHANGED <<m_rw_trx_hash_version, rw_trx_hash, no>>
  BY DEF SerialiseDraw, Draw, RegTypes
<1>2. RegTypes'
  <2>1. m_max_trx_id \in 0..MaxId /\ "no_drawn" \in States
    BY <1>1 DEF RegTypes, States
  <2>2. trx' \in [Trx -> [state : States, id : 0..MaxId, drawn : 0..MaxId]]
    BY <2>1, Zenon DEF SerialiseDraw, RegTypes
  <2> QED
    BY <1>1, <2>1, <2>2 DEF RegTypes
<1>3. VersionCounts'
  BY <1>1, <1>2, VersionStep DEF Pending, RegTypes
<1>4. IdsUnique'
  BY <1>1, <1>2 DEF IdsUnique, RegTypes
<1>5. HashExact'
  BY <1>1 DEF HashExact
<1>6. NumbersDrawn'
  <2>1. \A i \in Id : no'[i] = TRX_ID_MAX \/ (i < no'[i] /\ no'[i] < m_max_trx_id')
    BY <1>1 DEF NumbersDrawn, RegTypes, Id
  <2>2. \A u \in Trx : trx'[u].state = "no_drawn"
               => trx'[u].id < trx'[u].drawn /\ trx'[u].drawn < m_max_trx_id'
    BY <1>1 DEF NumbersDrawn, IdsUnique, RegTypes
  <2> QED
    BY Zenon, <1>1, <2>1, <2>2 DEF NumbersDrawn
<1>7. Running' = Running /\ Numbered' = Numbered /\ Ended' = Ended
  BY <1>1, SameIds DEF Numbered, Ended
<1>8. RegStep
  BY <1>1, <1>7 DEF RegStep, RegTypes
<1> QED
  BY <1>2, <1>3, <1>4, <1>5, <1>6, <1>8

\* The number is stored in the element of the hash.
LEMMA SerialiseStoreKeeps ==
  ASSUME Registry, NEW t \in Trx, SerialiseStore(t)
  PROVE  Registry' /\ RegStep
<1> USE TrxSysAssumption DEF Registry
<1> DEFINE id == trx[t].id
<1>0. /\ id \in Id /\ no[id] = TRX_ID_MAX /\ id < trx[t].drawn
      /\ trx[t].drawn < m_max_trx_id /\ trx[t].drawn \in 1..TRX_ID_MAX
      /\ trx[t].drawn # TRX_ID_MAX
  BY DEF SerialiseStore, NumbersDrawn, IdsUnique, RegTypes, Id, TRX_ID_MAX
<1>1. /\ trx[t].state = "no_drawn" /\ trx'[t].state = "no_stored" /\ trx'[t].id = id
      /\ \A u \in Trx \ {t} : trx'[u] = trx[u]
      /\ no'[id] = trx[t].drawn /\ \A i \in Id \ {id} : no'[i] = no[i]
      /\ UNCHANGED <<m_rw_trx_hash_version, m_max_trx_id, rw_trx_hash>>
  BY <1>0 DEF SerialiseStore, RegTypes
<1>2. RegTypes'
  <2>1. no' \in [Id -> 1..TRX_ID_MAX]
    BY <1>0 DEF SerialiseStore, RegTypes
  <2> QED
    BY <1>1, <2>1 DEF SerialiseStore, RegTypes, States
<1>3. VersionCounts'
  BY <1>1, <1>2, VersionStep DEF Pending, RegTypes
<1>4. IdsUnique'
  BY <1>1 DEF IdsUnique
<1>5. HashExact'
  BY <1>1 DEF HashExact
<1>6. NumbersDrawn'
  <2>1. \A i \in Id : no'[i] = TRX_ID_MAX \/ (i < no'[i] /\ no'[i] < m_max_trx_id')
    BY Zenon, <1>0, <1>1 DEF NumbersDrawn
  <2>2. \A u \in Trx \ {t} : trx[u].state # "NOT_STARTED" => trx[u].id \in Id \ {id}
    BY <1>0 DEF IdsUnique, RegTypes, Id
  <2> QED
    BY <1>0, <1>1, <2>1, <2>2 DEF NumbersDrawn
<1>7. Running' = Running /\ Numbered \subseteq Numbered' /\ Ended \subseteq Ended'
  <2>1. Running' = Running
    BY <1>1, SameIds
  <2>2. Numbered \subseteq Numbered'
    BY <1>0, <1>1 DEF Numbered, TRX_ID_MAX
  <2> QED
    BY <2>1, <2>2 DEF Ended
<1>8. RegStep
  BY <1>0, <1>1, <1>7 DEF RegStep, RegTypes
<1> QED
  BY <1>2, <1>3, <1>4, <1>5, <1>6, <1>8

\* The transaction leaves the hash.
LEMMA DeregisterKeeps ==
  ASSUME Registry, NEW t \in Trx, Deregister(t)
  PROVE  Registry' /\ RegStep
<1> USE TrxSysAssumption DEF Registry
<1>1. /\ trx[t].state = "COMMITTED_IN_MEMORY"
      /\ rw_trx_hash' = rw_trx_hash \ {trx[t].id}
      /\ trx'[t] = [state |-> "NOT_STARTED", id |-> 0, drawn |-> 0]
      /\ \A u \in Trx \ {t} : trx'[u] = trx[u]
      /\ UNCHANGED <<m_max_trx_id, m_rw_trx_hash_version, no>>
  BY DEF Deregister, RegTypes
<1>2. RegTypes'
  BY <1>1 DEF Deregister, RegTypes, States
<1>3. VersionCounts'
  BY <1>1, <1>2, VersionStep DEF Pending, RegTypes
<1>4. IdsUnique'
  BY <1>1 DEF IdsUnique, RegTypes
<1>5. HashExact'
  BY <1>1 DEF HashExact, IdsUnique
<1>6. NumbersDrawn'
  BY <1>1 DEF NumbersDrawn
<1>7. Running' = Running \ {trx[t].id}
  <2>1. \A i : i \in Running' <=> i # 0 /\ \E u \in Trx : trx'[u].id = i
    BY DEF Running
  <2> QED
    BY <1>1, <2>1, RunningHasTrx DEF IdsUnique
<1>8. Numbered' = Numbered /\ Ended \subseteq Ended'
  BY Zenon, <1>1, <1>7 DEF Numbered, Ended
<1>9. RegStep
  BY <1>1, <1>7, <1>8 DEF RegStep, RegTypes
<1> QED
  BY <1>2, <1>3, <1>4, <1>5, <1>6, <1>9

LEMMA TrxKeepsRegistry ==
  ASSUME Registry, NEW t \in Trx, TrxStep(t) \/ Deregister(t)
  PROVE  Registry' /\ RegStep
  BY RegisterDrawKeeps, RegisterInsertKeeps, StateOnlyKeeps, SerialiseDrawKeeps,
     SerialiseStoreKeeps, DeregisterKeeps DEF TrxStep

LEMMA StutterKeepsRegistry ==
  ASSUME Registry, UNCHANGED <<m_max_trx_id, m_rw_trx_hash_version, rw_trx_hash, no, trx>>
  PROVE  Registry' /\ RegStep /\ Running' = Running /\ Numbered' = Numbered
<1>1. Registry'
  BY DEF Registry, RegTypes, VersionCounts, Pending, IdsUnique, HashExact, NumbersDrawn
<1>2. Running' = Running /\ Numbered' = Numbered /\ Ended' = Ended
  BY DEF Running, Numbered, Ended
<1>3. RegStep
  BY <1>2 DEF RegStep, Registry, RegTypes
<1> QED
  BY <1>1, <1>2, <1>3

-----------------------------------------------------------------------------
(* Walks and views while transactions move *)

LEMMA NumberStays ==
  ASSUME Registry, Registry', RegStep, NEW n \in Nat, n <= m_max_trx_id, LateNumbers(n)
  PROVE  /\ \A t \in Trx : trx'[t].state = "no_drawn" => trx'[t].drawn >= n
         /\ \A i \in Id : no[i] >= n => no'[i] >= n
<1>1. \A t \in Trx : trx'[t].state = "no_drawn" => trx'[t].drawn >= n
  <2> SUFFICES ASSUME NEW t \in Trx, trx'[t].state = "no_drawn" PROVE trx'[t].drawn >= n
    OBVIOUS
  <2>1. CASE trx[t].state = "no_drawn" /\ trx'[t] = trx[t]
    BY <2>1 DEF LateNumbers
  <2>2. CASE trx'[t].drawn >= m_max_trx_id
    <3>1. trx'[t].drawn \in Nat /\ m_max_trx_id \in Nat
      BY DEF Registry, RegTypes
    <3> QED
      BY <2>2, <3>1
  <2> QED
    BY Zenon, <2>1, <2>2 DEF RegStep
<1>2. \A i \in Id : no[i] >= n => no'[i] >= n
  BY DEF RegStep, LateNumbers
<1> QED
  BY <1>1, <1>2

\* Every number that is or will be drawn by a transaction from limit n on.
LEMMA NewNumbers ==
  ASSUME Registry, NEW n \in Nat, n <= m_max_trx_id
  PROVE  \A i \in Id : i >= n => no[i] >= n
<1> SUFFICES ASSUME NEW i \in Id, i >= n PROVE no[i] >= n
  OBVIOUS
<1>1. i \in Nat /\ no[i] \in Nat /\ TRX_ID_MAX \in Nat /\ m_max_trx_id \in Nat
  BY TrxSysAssumption DEF Registry, RegTypes, Id, TRX_ID_MAX
<1>2. m_max_trx_id <= TRX_ID_MAX
  BY TrxSysAssumption DEF Registry, RegTypes, TRX_ID_MAX
<1>3. no[i] = TRX_ID_MAX \/ i < no[i]
  BY DEF Registry, NumbersDrawn
<1> QED
  BY <1>1, <1>2, <1>3

LEMMA ViewStays ==
  ASSUME Registry, Registry', RegStep, NEW k, view[k] \in ViewType, ViewOK(view[k]),
         view'[k] = view[k]
  PROVE  ViewOK(view[k])'
<1> DEFINE v == view[k]
<1>1. /\ v.low_limit_no \in Nat /\ v.low_limit_id \in Nat /\ v.up_limit_id \in Nat
      /\ v.ids \subseteq Id
  BY DEF ViewType
<1>2. m_max_trx_id \in Nat /\ m_max_trx_id' \in Nat /\ m_max_trx_id <= m_max_trx_id'
  BY TrxSysAssumption DEF Registry, RegTypes, RegStep
<1>3. /\ v.low_limit_no <= m_max_trx_id /\ v.low_limit_no <= m_max_trx_id'
      /\ v.low_limit_id <= m_max_trx_id'
  BY <1>1, <1>2 DEF ViewOK
<1>4. /\ \A t \in Trx : trx'[t].state = "no_drawn" => trx'[t].drawn >= v.low_limit_no
      /\ \A i \in Id : no[i] >= v.low_limit_no => no'[i] >= v.low_limit_no
  BY Zenon, <1>1, <1>3, NumberStays, SMTT(30) DEF ViewOK
<1>5. \A i \in v.ids : v.up_limit_id <= i /\ i < v.low_limit_id /\ no'[i] >= v.low_limit_no
  BY Zenon, <1>1, <1>4, SMTT(30) DEF ViewOK
<1>6. ASSUME NEW i \in Running'
      PROVE  ~changes_visible(v, i) /\ no'[i] >= v.low_limit_no
  <2>0. i \in Id /\ i \in Nat
    BY HashRuns, RunningHasTrx, SMTT(30) DEF Registry, RegTypes, Running, Id
  <2>1. CASE i \in Running
    BY Zenon, <1>4, <2>0, <2>1 DEF ViewOK
  <2>2. CASE i >= m_max_trx_id
    <3>1. no'[i] = TRX_ID_MAX \/ (i < no'[i] /\ no'[i] < m_max_trx_id')
      BY Zenon, <2>0 DEF Registry, NumbersDrawn
    <3>2. no'[i] \in Nat /\ m_max_trx_id' <= TRX_ID_MAX /\ TRX_ID_MAX \in Nat
      BY <2>0, TrxSysAssumption DEF Registry, RegTypes, TRX_ID_MAX
    <3>3. no'[i] >= v.low_limit_no
      BY <1>1, <1>2, <1>3, <2>0, <2>2, <3>1, <3>2
    <3>4. ~(i < v.low_limit_id)
      BY <1>1, <1>2, <2>0, <2>2 DEF ViewOK
    <3> QED
      BY <3>3, <3>4 DEF changes_visible
  <2> QED
    BY Zenon, <2>1, <2>2 DEF RegStep
<1> QED
  BY Zenon, <1>3, <1>4, <1>5, <1>6 DEF ViewOK, LateNumbers, changes_visible

LEMMA WalkStays ==
  ASSUME Registry, Registry', RegStep, NEW k, walk[k] \in WalkType, WalkOK(walk[k]),
         \/ walk'[k] = walk[k]
         \/ walk'[k] = [walk[k] EXCEPT !.retries = @ + 1]
  PROVE  WalkOK(walk[k])'
<1> DEFINE w == walk[k]
<1>1. /\ w.m_no \in Nat /\ w.m_id \in Nat /\ w.ids \subseteq Id
      /\ w'.pc = w.pc /\ w'.m_no = w.m_no /\ w'.m_id = w.m_id /\ w'.ids = w.ids
      /\ w'.size = w.size /\ w'.todo = w.todo
  BY DEF WalkType
<1>2. /\ m_max_trx_id \in Nat /\ m_max_trx_id' \in Nat /\ m_max_trx_id <= m_max_trx_id'
      /\ m_rw_trx_hash_version \in Nat /\ m_rw_trx_hash_version' \in Nat
      /\ m_rw_trx_hash_version <= m_rw_trx_hash_version'
  BY TrxSysAssumption DEF Registry, RegTypes, RegStep
<1>3. w.pc = "compare" => w.m_id <= m_rw_trx_hash_version'
  BY <1>1, <1>2 DEF WalkOK
<1>4. ASSUME w.pc = "walk"
      PROVE  /\ w.m_no <= w.m_id /\ w.m_id <= m_max_trx_id'
             /\ \A i \in Running' : i < w.m_id => i \in rw_trx_hash' /\ i \in w.ids \cup w.todo
             /\ \A i \in w.ids : i < w.m_id /\ no'[i] >= w.m_no
             /\ w.todo \subseteq Id
             /\ \A t \in Trx : trx'[t].state = "no_drawn" => trx'[t].drawn >= w.m_id
  <2>1. w.m_no <= w.m_id /\ w.m_id <= m_max_trx_id /\ w.todo \subseteq Id
    BY <1>4 DEF WalkOK
  <2>2. \A t \in Trx : trx'[t].state = "no_drawn" => trx'[t].drawn >= w.m_id
    BY <1>1, <1>4, <2>1, NumberStays DEF WalkOK
  <2>3. LateNumbers(w.m_no)
    BY <1>1, <1>4, <2>1 DEF WalkOK, LateNumbers, Registry, RegTypes
  <2>4. \A i \in w.ids : i < w.m_id /\ no'[i] >= w.m_no
    BY <1>1, <1>2, <1>4, <2>1, <2>3, NumberStays DEF WalkOK
  <2>5. \A i \in Running' : i \in Nat
    BY RunningHasTrx DEF Registry, RegTypes, Running
  <2>6. \A i \in Running' : i < w.m_id => i \in rw_trx_hash' /\ i \in w.ids \cup w.todo
    BY <1>1, <1>2, <1>4, <2>1, <2>5 DEF WalkOK, RegStep
  <2> QED
    BY <1>1, <1>2, <2>1, <2>2, <2>4, <2>6
<1> QED
  BY Zenon, <1>1, <1>3, <1>4 DEF WalkOK, LateNumbers

-----------------------------------------------------------------------------
(* ReadViewBase::snapshot() and append() *)

LEMMA NumbersAreNat ==
  ASSUME Registry
  PROVE  \A i \in Id : i \in Nat /\ no[i] \in Nat
  BY TrxSysAssumption DEF Registry, RegTypes, Id, TRX_ID_MAX

LEMMA IdsFinite ==
  ASSUME NEW S \in SUBSET Id
  PROVE  IsFiniteSet(S) /\ Cardinality(S) \in Nat /\ S \in SUBSET Nat
<1>1. IsFiniteSet(Id) /\ Id \in SUBSET Nat
  BY TrxSysAssumption, FS_Interval DEF Id
<1> QED
  BY <1>1, FS_Subset, FS_CardinalityType, Zenon

\* A number below another bound is no bound less.
LEMMA LateWeaker ==
  ASSUME Registry, NEW n \in Nat, NEW m \in Nat, m <= n, LateNumbers(n)
  PROVE  LateNumbers(m)
  BY DEF Registry, RegTypes, LateNumbers

LEMMA SnapshotOK ==
  ASSUME Registry, NEW w \in WalkType, WalkOK(w), w.pc = "walk", w.todo = {}
  PROVE  /\ snapshot(w) \in ViewType /\ ViewOK(snapshot(w))
         /\ ~snapshot(w).open /\ snapshot(w).before = w.before
         /\ \A i \in Id : i < w.m_id /\ i \notin w.ids /\ ~snapshot(w).twice
                             => changes_visible(snapshot(w), i)
<1> DEFINE up == IF w.ids = {} THEN w.m_id ELSE Min(w.ids)
           tw == w.size # Cardinality(w.ids)
           v == [open |-> FALSE, low_limit_id |-> w.m_id, up_limit_id |-> up,
                 ids |-> w.ids, low_limit_no |-> w.m_no, before |-> w.before, twice |-> tw]
           d == [v EXCEPT !.ids = {}, !.low_limit_id = v.up_limit_id,
                          !.low_limit_no = v.up_limit_id]
           Drop == w.ids # {} /\ w.m_no = w.m_id /\ w.m_id = up + w.size
<1>0. snapshot(w) = IF Drop THEN d ELSE v
  BY DEF snapshot
<1>1. /\ w.m_id \in Nat /\ w.m_no \in Nat /\ w.ids \in SUBSET Id /\ w.size \in Nat
      /\ w.before \in SUBSET Id /\ w.m_no <= w.m_id /\ w.m_id <= m_max_trx_id
      /\ LateNumbers(w.m_id)
      /\ \A i \in w.ids : i < w.m_id /\ no[i] >= w.m_no
  BY DEF WalkType, WalkOK
<1>2. /\ w.ids \in SUBSET Nat /\ IsFiniteSet(w.ids) /\ Cardinality(w.ids) \in Nat
      /\ w.ids # {} => Min(w.ids) \in w.ids
      /\ \A i \in w.ids : Min(w.ids) <= i
  BY Zenon, <1>1, IdsFinite, MinOfSet
<1>3. up \in Nat /\ up <= w.m_id /\ \A i \in w.ids : up <= i
  BY <1>1, <1>2
<1>4. tw \in BOOLEAN
  OBVIOUS
<1>5. \A i \in Running : /\ i \in Id /\ i \in Nat /\ no[i] >= w.m_no
                         /\ i < w.m_id => i \in w.ids
  <2> SUFFICES ASSUME NEW i \in Running
               PROVE  i \in Id /\ i \in Nat /\ (i < w.m_id => i \in w.ids) /\ no[i] >= w.m_no
    BY Zenon
  <2>1. i \in Id /\ i \in Nat
    BY HashRuns DEF Id
  <2>2. i < w.m_id => i \in w.ids
    BY DEF WalkOK
  <2>3. i >= w.m_id => no[i] >= w.m_id
    BY <1>1, <2>1, NewNumbers
  <2>4. no[i] \in Nat
    BY <2>1, TrxSysAssumption DEF Registry, RegTypes, TRX_ID_MAX
  <2> QED
    BY <1>1, <2>1, <2>2, <2>3, <2>4
<1> HIDE DEF up, tw
<1>6. CASE ~Drop
  <2>1. snapshot(w) = v
    BY <1>0, <1>6
  <2>2. v \in ViewType
    BY Zenon, <1>1, <1>3, <1>4 DEF ViewType
  <2>3. \A i \in Running : ~changes_visible(v, i) /\ no[i] >= w.m_no
    BY <1>1, <1>2, <1>3, <1>5 DEF changes_visible
  <2>4. ViewOK(v)
    BY <1>1, <1>3, <2>3, LateWeaker, Zenon DEF ViewOK
  <2>5. \A i \in Id : i < w.m_id /\ i \notin w.ids => changes_visible(v, i)
    BY Zenon DEF changes_visible
  <2>6. v.open = FALSE /\ v.before = w.before
    BY Zenon
  <2> HIDE DEF v
  <2> QED
    BY Zenon, <2>1, <2>2, <2>4, <2>5, <2>6
<1>7. CASE Drop
  <2>1. snapshot(w) = d
    BY <1>0, <1>7
  <2>2. /\ d.open = FALSE /\ d.low_limit_id = up /\ d.up_limit_id = up /\ d.ids = {}
        /\ d.low_limit_no = up /\ d.before = w.before /\ d.twice = tw
    OBVIOUS
  <2>3. d \in ViewType
    BY <1>1, <1>3, <1>4, Zenon DEF ViewType
  <2>4. up < w.m_id
    BY Zenon, <1>1, <1>2, <1>7 DEF up
  <2>5. \A i \in Running : ~changes_visible(d, i) /\ no[i] >= up
    <3> SUFFICES ASSUME NEW i \in Running PROVE ~changes_visible(d, i) /\ no[i] >= up
      OBVIOUS
    <3>1. i \in Id /\ i \in Nat /\ (i < w.m_id => up <= i)
      BY Zenon, <1>3, <1>5
    <3>2. ~(i < up)
      BY <1>1, <1>3, <2>4, <3>1
    <3>3. no[i] \in Nat /\ no[i] >= w.m_no
      BY <1>5, <3>1, TrxSysAssumption DEF Registry, RegTypes, TRX_ID_MAX
    <3>4. no[i] >= up
      BY <1>1, <1>3, <1>7, <3>3
    <3> QED
      BY <2>2, <3>2, <3>4 DEF changes_visible
  <2>6. ViewOK(d)
    <3>1. LateNumbers(up) /\ up <= m_max_trx_id
      BY <1>1, <1>3, LateWeaker DEF Registry, RegTypes
    <3> HIDE DEF d
    <3> QED
      BY <1>3, <2>2, <2>5, <3>1 DEF ViewOK
  <2>7. \A i \in Id : i < w.m_id /\ i \notin w.ids /\ ~tw => changes_visible(d, i)
    <3> SUFFICES ASSUME NEW i \in Id, i < w.m_id, i \notin w.ids, ~tw PROVE i < up
      BY <2>2 DEF changes_visible
    <3>1. w.size = Cardinality(w.ids)
      BY DEF tw
    <3>2. IsFiniteSet(up .. w.m_id - 1) /\ Cardinality(up .. w.m_id - 1) = w.m_id - up
      <4>1. up \in Int /\ w.m_id - 1 \in Int /\ ~(up > w.m_id - 1)
        BY <1>1, <1>3, <2>4
      <4>2. (w.m_id - 1) - up + 1 = w.m_id - up
        BY <1>1, <1>3
      <4> QED
        BY <4>1, <4>2, FS_Interval, Zenon
    <3>3. w.ids \in SUBSET (up .. w.m_id - 1)
      BY <1>1, <1>2, <1>3
    <3>4. Cardinality(up .. w.m_id - 1) = Cardinality(w.ids)
      BY <1>1, <1>3, <1>7, <3>1, <3>2
    <3>5. w.ids = up .. w.m_id - 1
      BY <3>2, <3>3, <3>4, FS_Subset, Zenon
    <3>6. i \in Nat
      BY DEF Id
    <3> QED
      BY <1>1, <1>3, <3>5, <3>6
  <2> HIDE DEF d
  <2> QED
    BY Zenon, <2>1, <2>2, <2>3, <2>6, <2>7
<1> QED
  BY Zenon, <1>6, <1>7

\* append() makes a view that sees only what both see.
LEMMA AppendOK ==
  ASSUME Registry, NEW v \in ViewType, NEW o \in ViewType, ViewOK(v), ViewOK(o)
  PROVE  /\ append(v, o) \in ViewType /\ ViewOK(append(v, o))
         /\ append(v, o).open = v.open /\ append(v, o).twice = v.twice
         /\ \A i \in Id : changes_visible(append(v, o), i)
                             => changes_visible(v, i) /\ changes_visible(o, i)
<1> DEFINE low == Min({v.low_limit_id, o.low_limit_id})
           lno == Min({v.low_limit_no, o.low_limit_no})
           ids == {id \in v.ids \cup o.ids : id < low}
           up == IF ids = {} THEN low ELSE Min(ids)
           a == [v EXCEPT !.low_limit_no = lno, !.low_limit_id = low, !.ids = ids,
                          !.up_limit_id = up]
<1>0. append(v, o) = a
  BY DEF append
<1>1. /\ v.low_limit_id \in Nat /\ o.low_limit_id \in Nat
      /\ v.low_limit_no \in Nat /\ o.low_limit_no \in Nat
      /\ v.ids \in SUBSET Id /\ o.ids \in SUBSET Id
      /\ v.low_limit_id <= m_max_trx_id
      /\ v.low_limit_no <= v.low_limit_id /\ o.low_limit_no <= o.low_limit_id
  BY Zenon DEF ViewType, ViewOK
<1>2. /\ low \in Nat /\ low <= v.low_limit_id /\ low <= o.low_limit_id
      /\ low = v.low_limit_id \/ low = o.low_limit_id
  BY Zenon, <1>1, MinOfTwo
<1>3. lno \in Nat /\ lno <= v.low_limit_no /\ lno <= o.low_limit_no
  BY Zenon, <1>1, MinOfTwo
<1> HIDE DEF low, lno
<1>4. ids \in SUBSET Id /\ ids \in SUBSET Nat /\ \A i \in ids : i < low
  BY Zenon, <1>1, IdsFinite
<1>5. \A i \in Id : i < low /\ (i \in v.ids \/ i \in o.ids) => i \in ids
  OBVIOUS
<1>6. \A i \in ids : no[i] >= lno
  <2> SUFFICES ASSUME NEW i \in ids PROVE no[i] >= lno
    BY Zenon
  <2>1. no[i] \in Nat
    BY <1>4, TrxSysAssumption DEF Registry, RegTypes, TRX_ID_MAX
  <2>2. no[i] >= v.low_limit_no \/ no[i] >= o.low_limit_no
    BY Zenon DEF ViewOK
  <2> QED
    BY <1>1, <1>3, <2>1, <2>2
<1> HIDE DEF ids
<1>7. up \in Nat /\ up <= low /\ \A i \in ids : up <= i
  <2>1. CASE ids = {}
    BY <1>2, <2>1
  <2>2. CASE ids # {}
    <3>1. Min(ids) \in ids /\ \A i \in ids : Min(ids) <= i
      BY Zenon, <1>4, <2>2, MinOfSet
    <3>2. Min(ids) \in Nat /\ Min(ids) < low
      BY <1>4, <3>1, Zenon
    <3>3. up = Min(ids)
      BY <2>2
    <3> HIDE DEF up
    <3> QED
      BY <1>2, <3>1, <3>2, <3>3
  <2> QED
    BY Zenon, <2>1, <2>2
<1> HIDE DEF up
<1>8. /\ a.low_limit_no = lno /\ a.low_limit_id = low /\ a.ids = ids /\ a.up_limit_id = up
      /\ a.open = v.open /\ a.twice = v.twice /\ a \in ViewType
  BY <1>2, <1>3, <1>4, <1>7, Zenon DEF ViewType
<1> HIDE DEF a
<1>9. ASSUME NEW i \in Id, changes_visible(a, i)
      PROVE  changes_visible(v, i) /\ changes_visible(o, i)
  <2>1. i \in Nat /\ i < low /\ (i < up \/ i \notin ids)
    BY <1>8, <1>9 DEF changes_visible, Id
  <2>2. i \notin ids
    BY <1>7, <2>1
  <2>3. i \notin v.ids /\ i \notin o.ids
    BY <1>5, <2>1, <2>2
  <2> QED
    BY <1>1, <1>2, <2>1, <2>3 DEF changes_visible
<1>10. \A i \in Running : ~changes_visible(a, i) /\ no[i] >= lno
  <2> SUFFICES ASSUME NEW i \in Running PROVE ~changes_visible(a, i) /\ no[i] >= lno
    BY Zenon
  <2>1. i \in Id
    BY HashRuns
  <2>2. ~changes_visible(v, i) /\ no[i] >= v.low_limit_no
    BY Zenon DEF ViewOK
  <2>3. no[i] \in Nat
    BY <2>1, TrxSysAssumption DEF Registry, RegTypes, TRX_ID_MAX
  <2> QED
    BY <1>1, <1>3, <1>9, <2>1, <2>2, <2>3
<1>11. LateNumbers(lno)
  BY Zenon, <1>1, <1>3, LateWeaker DEF ViewOK
<1>12. lno <= low /\ low <= m_max_trx_id
  BY <1>1, <1>2, <1>3 DEF Registry, RegTypes
<1>13. ViewOK(a)
  BY Zenon, <1>4, <1>6, <1>7, <1>8, <1>10, <1>11, <1>12, SMTT(30) DEF ViewOK
<1> QED
  BY Zenon, <1>0, <1>8, <1>9, <1>13

\* A view that is made while no transaction moves.
LEMMA ViewMade ==
  ASSUME Registry, UNCHANGED <<m_max_trx_id, m_rw_trx_hash_version, rw_trx_hash, no, trx>>,
         NEW k, NEW v, ViewOK(v),
         view'[k].low_limit_id = v.low_limit_id, view'[k].up_limit_id = v.up_limit_id,
         view'[k].low_limit_no = v.low_limit_no, view'[k].ids = v.ids
  PROVE  ViewOK(view[k])'
<1>1. Running' = Running
  BY Zenon, StutterKeepsRegistry
<1> QED
  BY Zenon, <1>1 DEF ViewOK, changes_visible, LateNumbers

=============================================================================

------------------------------- MODULE TrxSys --------------------------------
(***************************************************************************)
(* The registry of read-write transactions of InnoDB, trx_sys_t in         *)
(* storage/innobase/include/trx0sys.h, and the steps by which a            *)
(* transaction passes through it (trx/trx0trx.cc): register_rw(), the      *)
(* serialisation number and the undo log at commit, deregister_rw().       *)
(*                                                                         *)
(* One counter, m_max_trx_id, hands out transaction identifiers and        *)
(* serialisation numbers.  There is no mutex: m_rw_trx_hash_version counts *)
(* the numbers whose owner has made them visible in rw_trx_hash, so every  *)
(* atomic access is an action of its own.                                  *)
(***************************************************************************)
EXTENDS Naturals, FiniteSets

CONSTANTS
    Trx,        \* trx_t objects of read-write transactions, reused
    MaxId       \* bound on the identifiers and numbers handed out

ASSUME TrxSysAssumption == MaxId \in Nat /\ IsFiniteSet(Trx)

VARIABLES
    m_max_trx_id, m_rw_trx_hash_version,
    rw_trx_hash,    \* identifiers of the registered transactions
    no,             \* rw_trx_hash_element_t::no, by transaction identifier
    trx,            \* per trx_t: where it is, its id, the number it has drawn
    history         \* identifiers whose undo log is in the history list

trxSysVars == <<m_max_trx_id, m_rw_trx_hash_version, rw_trx_hash, no, trx,
                history>>

Id == 1..MaxId

\* The number of a transaction that has not begun to commit: above them all.
TRX_ID_MAX == MaxId + 1

States == {"NOT_STARTED", "id_drawn", "inserted", "ACTIVE", "no_drawn",
           "no_stored", "serialised", "COMMITTED_IN_MEMORY"}

TrxSysInit ==
    /\ m_max_trx_id = 1
    /\ m_rw_trx_hash_version = 1
    /\ rw_trx_hash = {}
    /\ no = [i \in Id |-> TRX_ID_MAX]
    /\ trx = [t \in Trx |-> [state |-> "NOT_STARTED", id |-> 0, drawn |-> 0]]
    /\ history = {}

-----------------------------------------------------------------------------
\* get_new_trx_id_no_refresh(), within the bound.
Draw == /\ m_max_trx_id <= MaxId
        /\ m_max_trx_id' = m_max_trx_id + 1

refresh_rw_trx_hash_version ==
    m_rw_trx_hash_version' = m_rw_trx_hash_version + 1

\* register_rw(): the identifier is drawn ...
RegisterDraw(t) ==
    /\ trx[t].state = "NOT_STARTED"
    /\ Draw
    /\ trx' = [trx EXCEPT ![t] = [state |-> "id_drawn", id |-> m_max_trx_id,
                                  drawn |-> 0]]
    /\ UNCHANGED <<m_rw_trx_hash_version, rw_trx_hash, no, history>>

\* ... the transaction is put in the hash, with no number yet ...
RegisterInsert(t) ==
    /\ trx[t].state = "id_drawn"
    /\ rw_trx_hash' = rw_trx_hash \cup {trx[t].id}
    /\ no' = [no EXCEPT ![trx[t].id] = TRX_ID_MAX]
    /\ trx' = [trx EXCEPT ![t].state = "inserted"]
    /\ UNCHANGED <<m_max_trx_id, m_rw_trx_hash_version, history>>

\* ... and the version says so.
RegisterRefresh(t) ==
    /\ trx[t].state = "inserted"
    /\ refresh_rw_trx_hash_version
    /\ trx' = [trx EXCEPT ![t].state = "ACTIVE"]
    /\ UNCHANGED <<m_max_trx_id, rw_trx_hash, no, history>>

\* trx_serialise() -> assign_new_trx_no(): the same three steps for the number
\* of a transaction that has written undo log.
SerialiseDraw(t) ==
    /\ trx[t].state = "ACTIVE"
    /\ Draw
    /\ trx' = [trx EXCEPT ![t].state = "no_drawn", ![t].drawn = m_max_trx_id]
    /\ UNCHANGED <<m_rw_trx_hash_version, rw_trx_hash, no, history>>

SerialiseStore(t) ==
    /\ trx[t].state = "no_drawn"
    /\ no' = [no EXCEPT ![trx[t].id] = trx[t].drawn]
    /\ trx' = [trx EXCEPT ![t].state = "no_stored"]
    /\ UNCHANGED <<m_max_trx_id, m_rw_trx_hash_version, rw_trx_hash, history>>

SerialiseRefresh(t) ==
    /\ trx[t].state = "no_stored"
    /\ refresh_rw_trx_hash_version
    /\ trx' = [trx EXCEPT ![t].state = "serialised"]
    /\ UNCHANGED <<m_max_trx_id, rw_trx_hash, no, history>>

\* trx_purge_add_undo_to_history() and mtr->commit() in commit_low(); then
\* commit_in_memory() sets the state.
CommitHistory(t) ==
    /\ trx[t].state = "serialised"
    /\ history' = history \cup {trx[t].id}
    /\ trx' = [trx EXCEPT ![t].state = "COMMITTED_IN_MEMORY"]
    /\ UNCHANGED <<m_max_trx_id, m_rw_trx_hash_version, rw_trx_hash, no>>

\* commit_low() without a mini-transaction: nothing was logged, so there is
\* no number and no history.
CommitEmpty(t) ==
    /\ trx[t].state = "ACTIVE"
    /\ trx' = [trx EXCEPT ![t].state = "COMMITTED_IN_MEMORY"]
    /\ UNCHANGED <<m_max_trx_id, m_rw_trx_hash_version, rw_trx_hash, no,
                   history>>

\* Mutant: rw_trx_hash.erase() is forgotten.
Deregister_Kept(t) ==
    /\ trx[t].state = "COMMITTED_IN_MEMORY"
    /\ rw_trx_hash' = rw_trx_hash
    /\ trx' = [trx EXCEPT ![t] = [state |-> "NOT_STARTED", id |-> 0,
                                  drawn |-> 0]]
    /\ UNCHANGED <<m_max_trx_id, m_rw_trx_hash_version, no, history>>

\* deregister_rw(): rw_trx_hash.erase().
Deregister(t) ==
    /\ trx[t].state = "COMMITTED_IN_MEMORY"
    /\ rw_trx_hash' = rw_trx_hash \ {trx[t].id}
    /\ trx' = [trx EXCEPT ![t] = [state |-> "NOT_STARTED", id |-> 0,
                                  drawn |-> 0]]
    /\ UNCHANGED <<m_max_trx_id, m_rw_trx_hash_version, no, history>>

\* The steps of a transaction but the last, which its observers distinguish.
TrxStep(t) ==
    \/ RegisterDraw(t) \/ RegisterInsert(t) \/ RegisterRefresh(t)
    \/ SerialiseDraw(t) \/ SerialiseStore(t) \/ SerialiseRefresh(t)
    \/ CommitHistory(t) \/ CommitEmpty(t)

=============================================================================

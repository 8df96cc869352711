--------------------------------- MODULE MDL ---------------------------------
(***************************************************************************)
(* Metadata locks (sql/mdl.cc): MDL_lock with its granted and waiting      *)
(* tickets, MDL_context with its wait slot, and the deadlock detector.     *)
(*                                                                         *)
(* A step that holds MDL_lock::m_rwlock exclusively is one action.  The    *)
(* detector walks the wait-for graph with the locks on its path            *)
(* read-locked; it is interleaved with the others node by node.            *)
(***************************************************************************)
EXTENDS Integers, Sequences, FiniteSets, Functions

CONSTANTS
    Context,                \* MDL_context objects, one per connection
    Key,                    \* the tables that are locked
    Type,                   \* lock types
    Wanted,                 \* the pairs <<key, type>> each of them asks for
    Limits,                 \* the values max_write_lock_count may have
    MAX_SEARCH_DEPTH,       \* 32 in the code
    MaxTickets,             \* bound on the tickets of one context
    MaxHog,                 \* bound on m_hog_lock_count
    MaxDisconnects,         \* bound on the clients that disappear
    None

ASSUME MDLAssumption ==
    /\ Type \subseteq {"S", "SH", "SR", "SW", "SU", "SRO", "SNW", "SNRW", "X"}
    /\ {MAX_SEARCH_DEPTH, MaxTickets, MaxHog, MaxDisconnects} \subseteq Nat
    /\ MAX_SEARCH_DEPTH > 0 /\ None \notin Type
    /\ Wanted \in [Context -> SUBSET (Key \X Type)]
    /\ Limits \subseteq Nat \ {0}

VARIABLES
    lock,           \* MDL_lock of every key
    m_tickets,      \* the tickets every context owns
    m_wait,         \* its wait slot
    m_waiting_for,  \* the key it has announced to wait for
    call,           \* its call of acquire_lock() or upgrade_shared_lock()
    search,         \* its search for deadlocks
    gone,           \* contexts whose client was found to be gone
    max_write_lock_count    \* strong locks granted in a row before weak ones
                            \* (a global variable, which nobody sets here)

rest == <<gone, max_write_lock_count>>
vars == <<lock, m_tickets, m_wait, m_waiting_for, call, search, rest>>

\* MDL_object_lock::m_granted_incompatible
granted_incompatible ==
    [S |-> {"X"}, SH |-> {"X"}, SR |-> {"X", "SNRW"},
     SW |-> {"X", "SNRW", "SNW", "SRO"}, SU |-> {"X", "SNRW", "SNW", "SU"},
     SRO |-> {"X", "SNRW", "SW"}, SNW |-> {"X", "SNRW", "SNW", "SU", "SW"},
     SNRW |-> {"X", "SNRW", "SNW", "SRO", "SU", "SW", "SR"},
     X |-> {"X", "SNRW", "SNW", "SRO", "SU", "SW", "SR", "SH", "S"}]

\* MDL_object_lock::m_waiting_incompatible
waiting_incompatible ==
    [S |-> {"X"}, SH |-> {}, SR |-> {"X", "SNRW"},
     SW |-> {"X", "SNRW", "SNW"}, SU |-> {"X"}, SRO |-> {"X", "SNRW", "SW"},
     SNW |-> {"X"}, SNRW |-> {"X"}, X |-> {}]

\* MDL_object_lock::hog_lock_types_bitmap()
hog_lock_types == {"SNW", "SNRW", "X"}

has_stronger_or_equal_type(held, type) ==
    granted_incompatible[type] \subseteq granted_incompatible[held]

(***************************************************************************)
(* A ticket in a lock is a pair <<context, type>>.  The bitmap of the      *)
(* granted tickets is only a filter for the walk over them and is left     *)
(* out; the bitmap of the waiting ones decides, so it is kept with the     *)
(* counters it is maintained from.  MDL_lock objects are recycled without  *)
(* being reset (lf_hash_initializer): a key keeps its object.              *)
(***************************************************************************)
NewLock == [granted |-> {}, waiting |-> <<>>, bitmap |-> {},
            count |-> [t \in Type |-> 0], hog |-> 0]

(***************************************************************************)
(* A wait slot is "EMPTY", "GRANTED" or "CLOSED": VICTIM, TIMEOUT and      *)
(* KILLED have the same effect.  What it holds outside a wait is read by   *)
(* nobody before reset_status(); the model keeps "CLOSED" there.           *)
(***************************************************************************)
NoCall == [pc |-> "idle", key |-> None, type |-> None, old |-> None]
NoSearch == [path |-> <<>>, victim |-> None]

Init ==
    /\ lock = [k \in Key |-> NewLock]
    /\ m_tickets = [c \in Context |-> {}]
    /\ m_wait = [c \in Context |-> "CLOSED"]
    /\ m_waiting_for = [c \in Context |-> None]
    /\ call = [c \in Context |-> NoCall]
    /\ search = [c \in Context |-> NoSearch]
    /\ gone = {}
    /\ max_write_lock_count \in Limits

At(c, pc) == call[c].pc = pc
Ticket(c) == <<c, call[c].type>>

-----------------------------------------------------------------------------
(* MDL_lock *)

\* Ticket_list::add_ticket() for m_waiting
add_waiting(l, w) ==
    [l EXCEPT !.waiting = Append(@, w), !.bitmap = @ \cup {w[2]},
              !.count[w[2]] = @ + 1]

\* The list q without the ticket w.
Without(q, w) ==
    LET i == CHOOSE i \in DOMAIN q : q[i] = w
    IN  IF w \in Range(q) THEN SubSeq(q, 1, i - 1) \o SubSeq(q, i + 1, Len(q))
                          ELSE q

\* Ticket_list::remove_ticket() for m_waiting.  The list is intrusive: the
\* ticket leaves whichever list it is linked in.
remove_waiting(l, w) ==
    [l EXCEPT !.waiting = Without(@, w),
              !.granted = @ \ {w},
              !.bitmap = IF l.count[w[2]] = 1 THEN @ \ {w[2]} ELSE @,
              !.count[w[2]] = @ - 1]

\* The tickets of others that keep w from being granted, whatever waits.
Blocking(l, w) ==
    {g \in l.granted : g[1] # w[1] /\ g[2] \in granted_incompatible[w[2]]}

\* Mutant: whoever ignores priorities ignores the granted locks, too.
can_grant_lock_Ignore(l, w, ignore_lock_priority) ==
    \/ ignore_lock_priority
    \/ /\ l.bitmap \cap waiting_incompatible[w[2]] = {}
       /\ Blocking(l, w) = {}

can_grant_lock(l, w, ignore_lock_priority) ==
    /\ ignore_lock_priority \/ l.bitmap \cap waiting_incompatible[w[2]] = {}
    /\ Blocking(l, w) = {}

\* ++m_hog_lock_count, up to the bound.
Count(n) == IF n < MaxHog THEN n + 1 ELSE n

\* One round of the loop in reschedule_waiters(): r is the lock and the wait
\* slots, and strong tickets are skipped if too many were granted in a row.
TryGrant(r, w, skip) ==
    LET strong == w[2] \in hog_lock_types
    IN  IF /\ ~(skip /\ strong)
           /\ can_grant_lock(r.lock, w, skip)
           /\ r.wait[w[1]] = "EMPTY"
          THEN [lock |-> [remove_waiting(r.lock, w) EXCEPT
                            !.granted = @ \cup {w},
                            !.hog = IF strong THEN Count(@) ELSE @],
                wait |-> [r.wait EXCEPT ![w[1]] = "GRANTED"]]
          ELSE r

\* What s has become after each of the rounds.
Rounds(s, skip) ==
    LET after[i \in 0..Len(s.lock.waiting)] ==
            IF i = 0 THEN s ELSE TryGrant(after[i - 1], s.lock.waiting[i], skip)
    IN  after

reschedule_waiters(s) ==
    LET skip == /\ s.lock.hog >= max_write_lock_count
                /\ s.lock.bitmap \ hog_lock_types # {}
        end == Rounds(s, skip)[Len(s.lock.waiting)]
    IN  IF end.lock.bitmap \subseteq hog_lock_types
          THEN [end EXCEPT !.lock.hog = 0] ELSE end

IsEmpty(l) == l.granted = {} /\ l.waiting = <<>>

\* MDL_lock::remove_ticket(), after the ticket has left its list.
Removed(k, l, wait) ==
    LET s == [lock |-> l, wait |-> wait]
        r == IF IsEmpty(l) THEN s ELSE reschedule_waiters(s)
    IN  /\ lock' = [lock EXCEPT ![k] = r.lock]
        /\ m_wait' = r.wait

\* Some search has read-locked the MDL_lock of k, or m_LOCK_waiting_for of c.
ReadLocked(k) ==
    \E c \in Context : \E i \in DOMAIN search[c].path :
        call[search[c].path[i].ctx].key = k
Visited(c) ==
    \E d \in Context : \/ search[d].victim = c
                       \/ \E i \in DOMAIN search[d].path :
                             search[d].path[i].ctx = c

-----------------------------------------------------------------------------
(* acquire_lock(), upgrade_shared_lock() *)

\* find_ticket()
HasLock(c, k, t) == \E u \in Type : /\ <<k, u>> \in m_tickets[c]
                                    /\ has_stronger_or_equal_type(u, t)

\* acquire_lock() up to will_wait_for(), for a lock that the context does not
\* have.  The wait slot is emptied while the lock is still write-locked.
Request(c, k, t, old) ==
    LET w == <<c, t>>
        new == [pc |-> "merge", key |-> k, type |-> t, old |-> old]
    IN  /\ At(c, "idle") /\ c \notin gone
        /\ ~HasLock(c, k, t) /\ ~ReadLocked(k)
        /\ IF can_grant_lock(lock[k], w, FALSE)
             THEN /\ lock' = [lock EXCEPT ![k].granted = @ \cup {w}]
                  /\ m_tickets' = [m_tickets EXCEPT ![c] = @ \cup {<<k, t>>}]
                  /\ call' = [call EXCEPT ![c] = IF old = None THEN NoCall ELSE new]
                  /\ UNCHANGED m_wait
             ELSE /\ lock' = [lock EXCEPT ![k] = add_waiting(@, w)]
                  /\ m_wait' = [m_wait EXCEPT ![c] = "EMPTY"]
                  /\ call' = [call EXCEPT ![c] = [new EXCEPT !.pc = "announce"]]
                  /\ UNCHANGED m_tickets
        /\ UNCHANGED <<m_waiting_for, search, rest>>

acquire_lock(c) ==
    /\ Cardinality(m_tickets[c]) < MaxTickets
    /\ \E kt \in Wanted[c] : Request(c, kt[1], kt[2], None)

\* Only SU, SNW and SNRW locks are upgraded.
upgrade_shared_lock(c) ==
    \E kt \in m_tickets[c], t \in Type \cap {"SNW", "SNRW", "X"} :
        /\ kt[2] \in {"SU", "SNW", "SNRW"}
        /\ Request(c, kt[1], t, kt[2])

will_wait_for(c) ==
    /\ At(c, "announce") /\ ~Visited(c)
    /\ m_waiting_for' = [m_waiting_for EXCEPT ![c] = call[c].key]
    /\ call' = [call EXCEPT ![c].pc = "search"]
    /\ UNCHANGED <<lock, m_tickets, m_wait, search, rest>>

\* Mutant: the slot is left open for the caller to close.
TimedOut_Open(c) ==
    /\ At(c, "wait") /\ m_wait[c] = "EMPTY"
    /\ call' = [call EXCEPT ![c].pc = "gone"]
    /\ UNCHANGED <<lock, m_tickets, m_wait, m_waiting_for, search, rest>>

\* timed_wait() ends by itself, because of the time or of KILL, and closes the
\* slot before it releases m_LOCK_wait_status.
TimedOut(c) ==
    /\ At(c, "wait") /\ m_wait[c] = "EMPTY"
    /\ m_wait' = [m_wait EXCEPT ![c] = "CLOSED"]
    /\ UNCHANGED <<lock, m_tickets, m_waiting_for, call, search, rest>>

\* After a short wait the client turns out to be gone: acquire_lock() takes it
\* for a timeout, with the slot still open.
Disconnected(c) ==
    /\ At(c, "wait") /\ m_wait[c] = "EMPTY"
    /\ Cardinality(gone) < MaxDisconnects
    /\ gone' = gone \cup {c}
    /\ call' = [call EXCEPT ![c].pc = "gone"]
    /\ UNCHANGED <<lock, m_tickets, m_wait, m_waiting_for, search,
                   max_write_lock_count>>

\* The wait is over: timed_wait() has seen the slot, or the client is gone.
\* done_waiting_for() waits for the searches that are visiting the context;
\* then the new ticket is pushed to m_tickets.
done_waiting_for(c) ==
    LET new == <<call[c].key, call[c].type>>
    IN  /\ \/ At(c, "wait") /\ m_wait[c] # "EMPTY"
           \/ At(c, "gone")
        /\ ~Visited(c)
        /\ m_waiting_for' = [m_waiting_for EXCEPT ![c] = None]
        /\ IF At(c, "wait") /\ m_wait[c] = "GRANTED"
             THEN /\ m_tickets' = [m_tickets EXCEPT ![c] = @ \cup {new}]
                  /\ m_wait' = [m_wait EXCEPT ![c] = "CLOSED"]
                  /\ call' = [call EXCEPT ![c] = IF @.old = None THEN NoCall
                                                 ELSE [@ EXCEPT !.pc = "merge"]]
             ELSE /\ call' = [call EXCEPT ![c].pc = "remove"]
                  /\ UNCHANGED <<m_tickets, m_wait>>
        /\ UNCHANGED <<lock, search, rest>>

\* acquire_lock() fails and removes its ticket from m_waiting.
Fail(c) ==
    LET k == call[c].key
    IN  /\ At(c, "remove") /\ ~ReadLocked(k)
        /\ Removed(k, remove_waiting(lock[k], Ticket(c)),
                   [m_wait EXCEPT ![c] = "CLOSED"])
        /\ call' = [call EXCEPT ![c] = NoCall]
        /\ UNCHANGED <<m_tickets, m_waiting_for, search, rest>>

\* Mutant: the old ticket stays in m_granted.
Merge_Keep(c) ==
    LET k == call[c].key
    IN  /\ At(c, "merge") /\ ~ReadLocked(k)
        /\ m_tickets' = [m_tickets EXCEPT ![c] = @ \ {<<k, call[c].old>>}]
        /\ call' = [call EXCEPT ![c] = NoCall]
        /\ UNCHANGED <<lock, m_wait, m_waiting_for, search, rest>>

\* upgrade_shared_lock(): the old ticket takes the type of the new one, which
\* is destroyed.  It always is a new one (is_new_ticket): Request asks for no
\* lock that the context has already.
Merge(c) ==
    LET k == call[c].key
    IN  /\ At(c, "merge") /\ ~ReadLocked(k)
        /\ lock' = [lock EXCEPT ![k].granted = @ \ {<<c, call[c].old>>}]
        /\ m_tickets' = [m_tickets EXCEPT ![c] = @ \ {<<k, call[c].old>>}]
        /\ call' = [call EXCEPT ![c] = NoCall]
        /\ UNCHANGED <<m_wait, m_waiting_for, search, rest>>

-----------------------------------------------------------------------------
(* release_lock(), downgrade_lock() *)

release_lock(c) ==
    \E kt \in m_tickets[c] :
        LET k == kt[1]
        IN  /\ At(c, "idle") /\ ~ReadLocked(k)
            /\ Removed(k, [lock[k] EXCEPT !.granted = @ \ {<<c, kt[2]>>}], m_wait)
            /\ m_tickets' = [m_tickets EXCEPT ![c] = @ \ {kt}]
            /\ UNCHANGED <<m_waiting_for, call, search, rest>>

\* Only X and SNW locks are downgraded.
downgrade_lock(c) ==
    \E kt \in m_tickets[c], t \in Type \cap {"SU", "SNW", "SNRW"} :
        LET k == kt[1]
        IN  /\ At(c, "idle") /\ ~ReadLocked(k)
            /\ c \notin gone
            /\ kt[2] \in {"X", "SNW"} /\ <<k, t>> \notin m_tickets[c]
            /\ has_stronger_or_equal_type(kt[2], t)
            /\ Removed(k, [lock[k] EXCEPT
                             !.granted = (@ \ {<<c, kt[2]>>}) \cup {<<c, t>>}],
                       m_wait)
            /\ m_tickets' = [m_tickets EXCEPT ![c] = (@ \ {kt}) \cup {<<k, t>>}]
            /\ UNCHANGED <<m_waiting_for, call, search, rest>>

-----------------------------------------------------------------------------
(* find_deadlock() *)

\* The contexts that c waits for: MDL_lock::visit_subgraph()
Edges(c) ==
    LET l == lock[call[c].key]
        w == Ticket(c)
    IN  {g[1] : g \in Blocking(l, w)} \cup
        {v[1] : v \in {u \in Range(l.waiting) :
                         u[1] # c /\ u[2] \in waiting_incompatible[w[2]]}}

\* The search of c ends with a deadlock.  On the way back every node of the
\* path is a candidate; the weights that decide between them, of which some
\* depend on earlier searches, are left open.  The victim's m_LOCK_waiting_for
\* stays read-locked.
Found(c, path) ==
    /\ \E i \in DOMAIN path :
         search' = [search EXCEPT ![c] = [path |-> <<>>, victim |-> path[i].ctx]]
    /\ call' = [call EXCEPT ![c].pc = "victim"]

\* Mutant: the depth of the search is not limited.
Visit_Deep(c, path, d) ==
    LET longer == Append(path, [ctx |-> d, todo |-> Edges(d)])
    IN  IF m_waiting_for[d] = None \/ m_wait[d] # "EMPTY"
          THEN /\ search' = [search EXCEPT ![c].path = path]
               /\ call' = [call EXCEPT ![c].pc = IF path = <<>> THEN "wait" ELSE @]
        ELSE IF c \in Edges(d)
          THEN Found(c, longer)
          ELSE /\ search' = [search EXCEPT ![c].path = longer]
               /\ UNCHANGED call

\* Mutant: the wait slot is not looked at.
Visit_AnySlot(c, path, d) ==
    LET longer == Append(path, [ctx |-> d, todo |-> Edges(d)])
    IN  IF m_waiting_for[d] = None
          THEN /\ search' = [search EXCEPT ![c].path = path]
               /\ call' = [call EXCEPT ![c].pc = IF path = <<>> THEN "wait" ELSE @]
        ELSE IF Len(longer) >= MAX_SEARCH_DEPTH \/ c \in Edges(d)
          THEN Found(c, longer)
          ELSE /\ search' = [search EXCEPT ![c].path = longer]
               /\ UNCHANGED call

\* visit_subgraph() of the context d and of the lock it waits for, from a path
\* whose last node has d among its edges (or from nothing, d being c).
Visit(c, path, d) ==
    LET longer == Append(path, [ctx |-> d, todo |-> Edges(d)])
    IN  IF m_waiting_for[d] = None \/ m_wait[d] # "EMPTY"
          THEN /\ search' = [search EXCEPT ![c].path = path]
               /\ call' = [call EXCEPT ![c].pc = IF path = <<>> THEN "wait" ELSE @]
        ELSE IF Len(longer) >= MAX_SEARCH_DEPTH \/ c \in Edges(d)
          THEN Found(c, longer)
          ELSE /\ search' = [search EXCEPT ![c].path = longer]
               /\ UNCHANGED call

\* Every search starts with a fresh visitor.
StartSearch(c) ==
    /\ At(c, "search") /\ search[c].path = <<>>
    /\ Visit(c, <<>>, c)
    /\ UNCHANGED <<lock, m_tickets, m_wait, m_waiting_for, rest>>

\* Go on to the next adjacent node, or leave_node().
ContinueSearch(c) ==
    LET path == search[c].path
        last == path[Len(path)]
    IN  /\ At(c, "search") /\ path # <<>>
        /\ IF last.todo = {}
             THEN /\ search' = [search EXCEPT ![c].path = SubSeq(path, 1, Len(path) - 1)]
                  /\ call' = [call EXCEPT ![c].pc =
                                IF Len(path) = 1 THEN "wait" ELSE @]
             ELSE \E d \in last.todo :
                    Visit(c, [path EXCEPT ![Len(path)].todo = @ \ {d}], d)
        /\ UNCHANGED <<lock, m_tickets, m_wait, m_waiting_for, rest>>

\* Mutant: one search is enough.
SetVictim_Once(c) ==
    LET v == search[c].victim
    IN  /\ At(c, "victim")
        /\ m_wait' = [m_wait EXCEPT ![v] = IF @ = "EMPTY" THEN "CLOSED" ELSE @]
        /\ search' = [search EXCEPT ![c] = NoSearch]
        /\ call' = [call EXCEPT ![c].pc = "wait"]
        /\ UNCHANGED <<lock, m_tickets, m_waiting_for, rest>>

\* Unless the victim has received some other message, it is told.  The search
\* is repeated if another context was the victim.
SetVictim(c) ==
    LET v == search[c].victim
    IN  /\ At(c, "victim")
        /\ m_wait' = [m_wait EXCEPT ![v] = IF @ = "EMPTY" THEN "CLOSED" ELSE @]
        /\ search' = [search EXCEPT ![c] = NoSearch]
        /\ call' = [call EXCEPT ![c].pc = IF v = c THEN "wait" ELSE "search"]
        /\ UNCHANGED <<lock, m_tickets, m_waiting_for, rest>>

-----------------------------------------------------------------------------
Next == \E c \in Context :
    \/ acquire_lock(c) \/ upgrade_shared_lock(c)
    \/ will_wait_for(c) \/ StartSearch(c) \/ ContinueSearch(c) \/ SetVictim(c)
    \/ TimedOut(c) \/ Disconnected(c) \/ done_waiting_for(c)
    \/ Fail(c) \/ Merge(c)
    \/ release_lock(c) \/ downgrade_lock(c)

Spec == Init /\ [][Next]_vars

-----------------------------------------------------------------------------
(* Properties *)

\* Types of the locks, the wait slots and the calls in progress.
TypeOK ==
    /\ \A k \in Key : /\ lock[k].granted \subseteq Context \X Type
                      /\ lock[k].waiting \in Seq(Context \X Type)
                      /\ lock[k].bitmap \subseteq Type
                      /\ lock[k].count \in [Type -> Int]
                      /\ lock[k].hog \in 0..MaxHog
    /\ m_tickets \in [Context -> SUBSET (Key \X Type)]
    /\ m_wait \in [Context -> {"EMPTY", "GRANTED", "CLOSED"}]
    /\ m_waiting_for \in [Context -> Key \cup {None}]
    /\ \A c \in Context : /\ search[c].victim \in Context \cup {None}
                          /\ Len(search[c].path) < MAX_SEARCH_DEPTH
    /\ gone \subseteq Context

\* No two contexts hold incompatible locks, whichever of the ways to a lock
\* (at once, by another's reschedule_waiters(), upgrade, downgrade) they took.
NoConflictingGrants ==
    \A k \in Key : \A g \in lock[k].granted : Blocking(lock[k], g) = {}

\* What a context believes to hold is what the locks say, and nothing of a
\* request that failed is left in a lock: a grant that races with a timeout, a
\* kill, a victim's message or a disconnect is either taken or undone.
TicketsMatch ==
    \A c \in Context : At(c, "idle") =>
        \A k \in Key :
            /\ \A t \in Type : <<k, t>> \in m_tickets[c] <=>
                                 <<c, t>> \in lock[k].granted
            /\ \A t \in Type : <<c, t>> \notin Range(lock[k].waiting)

\* Waiting in earnest: searched, and no message has come.
Waiting(c) == At(c, "wait") /\ m_wait[c] = "EMPTY"

\* Contexts of which each waits for another one of them, and no search is left
\* that could notice, do not exist: whoever closes a loop finds it, also when
\* several close it at the same time and the searches run concurrently.
NoUndetectedDeadlock ==
    ~\E D \in SUBSET Context \ {{}} :
        \A c \in D : Waiting(c) /\ Edges(c) \cap D # {}

\* Whoever waits, waits for somebody: whatever removes the last obstacle to a
\* request also grants it.  With NoUndetectedDeadlock every chain of waits ends
\* at a context that can go on.  Not so once weak locks were let through before
\* strong ones (by default the limit is out of reach), nor once a disconnected
\* client has left its slot open.
NoMissedGrant ==
    max_write_lock_count > MaxHog /\ gone = {} =>
        \A c \in Context : Waiting(c) => Edges(c) # {}

Queued(c) == /\ ~At(c, "idle")
             /\ Ticket(c) \in Range(lock[call[c].key].waiting)

\* A victim is only chosen in a real deadlock: it and the context that searched
\* belong to contexts that all wait for one another.  A request that has been
\* granted, and whose context has not noticed yet, is no part of it.  The
\* exception is the one enter_node() makes: a search that has come to
\* MAX_SEARCH_DEPTH declares a deadlock "even if we have not found a loop".
VictimInDeadlock ==
    [][\A c \in Context : search[c].victim = None /\ search'[c].victim # None =>
          \/ Len(search[c].path) + 1 >= MAX_SEARCH_DEPTH
          \/ \E D \in SUBSET Context :
              /\ {c, search'[c].victim} \subseteq D
              /\ \A d \in D : Queued(d) /\ Edges(d) \cap D # {}]_vars

=============================================================================

----------------------------- MODULE MDLWaitProofs ----------------------------
(***************************************************************************)
(* Proofs about MDL, continued: every ticket that waits is kept waiting by *)
(* another one, so reschedule_waiters() overlooks nobody.                  *)
(***************************************************************************)
EXTENDS MDLProofs, FiniteSetTheorems

-----------------------------------------------------------------------------
(* Nobody is overlooked *)

\* The tickets of type t that wait.
Of(l, t) == {w \in Range(l.waiting) : w[2] = t}

\* The counters and the bitmap say which types wait.
Counted(l) ==
    \A t \in Type : /\ l.count[t] = Cardinality(Of(l, t))
                    /\ t \in l.bitmap <=> Of(l, t) # {}

\* Whoever waits could not be granted.
LockWaits(l, wait) ==
    /\ Counted(l)
    /\ \A w \in Range(l.waiting) : wait[w[1]] = "EMPTY" => Obstructed(l, w)

\* An upgrade is to a stronger type, and the ticket of that type is there before
\* the old one is dropped.
UpgradeOK(p, has) ==
    /\ p.pc # "idle" /\ p.old # None => /\ has_stronger_or_equal_type(p.type, p.old)
                                        /\ p.old # p.type
    /\ p.pc = "merge" => p.old # None /\ <<p.key, p.type>> \in has

CallWaits(p, slot, has) ==
    /\ p.pc = "remove" => slot = "CLOSED"
    /\ p.pc # "gone" /\ UpgradeOK(p, has)

Settled == max_write_lock_count > MaxHog /\ gone = {}

WaitsOK ==
    /\ \A c \in Context : CallWaits(call[c], m_wait[c], m_tickets[c])
    /\ \A k \in Key : LockWaits(lock[k], m_wait)

WaitInv == Settled => WaitsOK

-----------------------------------------------------------------------------
(* reschedule_waiters() overlooks nobody *)

\* Finitely many tickets of a type wait.
LEMMA FiniteOf ==
  ASSUME NEW l \in Lock, NEW t
  PROVE  IsFiniteSet(Of(l, t))
<1> DEFINE q == l.waiting
           n == Len(q)
<1>1. q \in Seq(Tickets)
  BY LockFields, Zenon
<1>2. n \in Nat /\ DOMAIN q = 1..n /\ q \in [1..n -> Tickets]
  BY <1>1
<1>3. q \in Surjection(1..n, Range(q))
  BY <1>2, Zenon DEF Surjection, Range
<1>4. IsFiniteSet(1..n)
  BY <1>2, FS_Interval
<1>5. IsFiniteSet(Range(q))
  BY <1>3, <1>4, FS_Surjection, Zenon
<1>6. Of(l, t) \in SUBSET Range(q)
  BY Zenon DEF Of
<1> QED
  BY <1>5, <1>6, FS_Subset, Zenon

\* Counters and bitmap of the same waiting tickets.
LEMMA CountedSame ==
  ASSUME NEW l, NEW m, Counted(l), m.count = l.count, m.bitmap = l.bitmap,
         Range(m.waiting) = Range(l.waiting)
  PROVE  Counted(m)
<1>1. \A t : Of(m, t) = Of(l, t)
  BY Zenon DEF Of
<1> QED
  BY <1>1, Zenon DEF Counted

\* A ticket stops waiting, and the counter and the bitmap follow.
LEMMA CountedLess ==
  ASSUME NEW l \in Lock, NEW m, Counted(l), NEW w \in Range(l.waiting),
         Range(m.waiting) = Range(l.waiting) \ {w}, Uncounted(l, m, w)
  PROVE  Counted(m)
<1> SUFFICES ASSUME NEW t \in Type
             PROVE  m.count[t] = Cardinality(Of(m, t)) /\ (t \in m.bitmap <=> Of(m, t) # {})
  BY Zenon DEF Counted
<1> DEFINE u == w[2]
<1>0. /\ l.count[t] = Cardinality(Of(l, t)) /\ (t \in l.bitmap <=> Of(l, t) # {})
      /\ l.count \in [Type -> Int]
      /\ m.bitmap = IF l.count[u] = 1 THEN l.bitmap \ {u} ELSE l.bitmap
      /\ m.count = [l.count EXCEPT ![u] = @ - 1]
  BY LockFields, Zenon DEF Counted, Uncounted
<1>1. CASE t # u
  <2>1. Of(m, t) = Of(l, t)
    BY <1>1, Zenon DEF Of
  <2>2. m.count[t] = l.count[t] /\ (t \in m.bitmap <=> t \in l.bitmap)
    BY <1>0, <1>1, Zenon
  <2> QED
    BY <1>0, <2>1, <2>2, Zenon
<1>2. CASE t = u
  <2> DEFINE a == Cardinality(Of(l, t))
             b == Cardinality(Of(m, t))
  <2>1. Of(m, t) = Of(l, t) \ {w} /\ w \in Of(l, t)
    BY <1>2, Zenon DEF Of
  <2>2. IsFiniteSet(Of(l, t))
    BY FiniteOf, Zenon
  <2>3. IsFiniteSet(Of(m, t)) /\ b = a - 1
    BY <2>1, <2>2, FS_RemoveElement, Zenon
  <2>4. b \in Nat /\ a \in Nat /\ (b = 0 <=> Of(m, t) = {})
    BY <2>2, <2>3, FS_CardinalityType, FS_EmptySet, Zenon
  <2>5. m.count[t] = l.count[t] - 1
    BY <1>0, <1>2, Zenon
  <2>6. t \in l.bitmap
    BY <1>0, <2>1, Zenon
  <2>7. t \in m.bitmap <=> l.count[t] # 1
    BY <1>0, <1>2, <2>6, Zenon
  <2> HIDE DEF a, b
  <2>8. l.count[t] = a
    BY <1>0, Zenon DEF a
  <2>9. m.count[t] = b /\ (t \in m.bitmap <=> b # 0)
    BY <2>3, <2>4, <2>5, <2>7, <2>8
  <2> QED
    BY <2>4, <2>9, Zenon DEF b
<1> QED
  BY <1>1, <1>2, Zenon

\* A ticket starts to wait.
LEMMA CountedMore ==
  ASSUME NEW l \in Lock, NEW m, Counted(l), NEW w \in Tickets, w \notin Range(l.waiting),
         Range(m.waiting) = Range(l.waiting) \cup {w}, m.bitmap = l.bitmap \cup {w[2]},
         m.count = [l.count EXCEPT ![w[2]] = @ + 1]
  PROVE  Counted(m)
<1> SUFFICES ASSUME NEW t \in Type
             PROVE  m.count[t] = Cardinality(Of(m, t)) /\ (t \in m.bitmap <=> Of(m, t) # {})
  BY Zenon DEF Counted
<1> DEFINE u == w[2]
<1>0. /\ l.count[t] = Cardinality(Of(l, t)) /\ (t \in l.bitmap <=> Of(l, t) # {})
      /\ l.count \in [Type -> Int]
  BY LockFields, Zenon DEF Counted
<1>1. CASE t # u
  <2>1. Of(m, t) = Of(l, t)
    BY <1>1, Zenon DEF Of
  <2>2. m.count[t] = l.count[t] /\ (t \in m.bitmap <=> t \in l.bitmap)
    BY <1>0, <1>1, Zenon
  <2> QED
    BY <1>0, <2>1, <2>2, Zenon
<1>2. CASE t = u
  <2>1. Of(m, t) = Of(l, t) \cup {w} /\ w \notin Of(l, t) /\ w \in Of(m, t)
    BY <1>2, Zenon DEF Of
  <2>2. IsFiniteSet(Of(l, t))
    BY FiniteOf, Zenon
  <2>3. Cardinality(Of(m, t)) = Cardinality(Of(l, t)) + 1
    BY <2>1, <2>2, FS_AddElement, Zenon
  <2>4. m.count[t] = l.count[t] + 1 /\ t \in m.bitmap
    BY <1>0, <1>2, Zenon
  <2> QED
    BY <1>0, <2>1, <2>3, <2>4, Zenon
<1> QED
  BY <1>1, <1>2, Zenon

\* The tickets that keep v waiting stay, or are replaced by w in the granted list,
\* where it keeps v waiting too.
LEMMA ObstructedKept ==
  ASSUME NEW l, NEW m, NEW v \in Tickets, NEW w \in Tickets, v[1] # w[1],
         Obstructed(l, v), m.granted = l.granted \cup {w},
         l.bitmap \ {w[2]} \subseteq m.bitmap
  PROVE  Obstructed(m, v)
<1>1. CASE Blocking(l, v) # {}
  <2>1. Blocking(m, v) # {}
    BY <1>1, Zenon DEF Blocking
  <2> QED
    BY <2>1, Zenon DEF Obstructed, can_grant_lock
<1>2. CASE Blocking(l, v) = {}
  <2>1. PICK t \in l.bitmap : t \in waiting_incompatible[v[2]]
    BY <1>2, Zenon DEF Obstructed, can_grant_lock
  <2>2. CASE t = w[2]
    <3>1. w[2] \in granted_incompatible[v[2]]
      BY <2>1, <2>2, TypeOfTicket, Tables, Zenon
    <3>2. w \in Blocking(m, v)
      BY <3>1, Zenon DEF Blocking
    <3> QED
      BY <3>2, Zenon DEF Obstructed, can_grant_lock
  <2>3. CASE t # w[2]
    <3>1. t \in m.bitmap \cap waiting_incompatible[v[2]]
      BY <2>1, <2>3, Zenon
    <3> QED
      BY <3>1, Zenon DEF Obstructed, can_grant_lock
  <2> QED
    BY <2>2, <2>3, Zenon
<1> QED
  BY <1>1, <1>2, Zenon

\* Nothing but the granted tickets and the bitmap decides.
LEMMA ObstructedSame ==
  ASSUME NEW l, NEW m, NEW v, Obstructed(l, v), l.granted \subseteq m.granted,
         l.bitmap \subseteq m.bitmap
  PROVE  Obstructed(m, v)
<1>1. Blocking(l, v) # {} => Blocking(m, v) # {}
  BY Zenon DEF Blocking
<1>2. l.bitmap \cap waiting_incompatible[v[2]] # {} =>
        m.bitmap \cap waiting_incompatible[v[2]] # {}
  BY Zenon
<1> QED
  BY <1>1, <1>2, Zenon DEF Obstructed, can_grant_lock

\* The tickets before place i that still wait could not be granted.
Passed(s, r, i) ==
    \A j \in 1..i : r.wait[s.lock.waiting[j][1]] = "EMPTY"
                      => Obstructed(r.lock, s.lock.waiting[j])

\* A round for a ticket in its turn.
LEMMA PassedTry ==
  ASSUME NEW s, Startable(s), NEW n \in Nat, n = Len(s.lock.waiting), NEW i \in Nat, i + 1 \in 1..n,
         NEW r, Since(s, r), Counted(r.lock), Passed(s, r, i), NEW e,
         e = TryGrant(r, s.lock.waiting[i + 1], FALSE)
  PROVE  Counted(e.lock) /\ Passed(s, e, i + 1)
<1> DEFINE w == s.lock.waiting[i + 1]
<1>0. \A j \in 1..n : s.lock.waiting[j] \in Range(s.lock.waiting) /\ s.lock.waiting[j] \in Tickets
  <2>1. s.lock.waiting \in Seq(Tickets)
    BY ResultFields, LockFields, Zenon DEF Startable
  <2>2. DOMAIN s.lock.waiting = 1..n
    BY <2>1
  <2>3. \A j \in 1..n : s.lock.waiting[j] \in Tickets
    BY <2>1, <2>2
  <2> QED
    BY <2>2, <2>3, Zenon DEF Range
<1>1. \A j \in 1..(i + 1) : (j \in 1..i \/ j = i + 1) /\ j \in 1..n
  OBVIOUS
<1>2. r \in Result /\ r.lock \in Lock /\ Distinct(r.lock.waiting) /\ r.wait \in [Context -> Slot]
  BY ResultFields, Zenon DEF Since
<1>3. w \in Tickets /\ w \in Range(s.lock.waiting) /\ w[1] \in Context
  BY <1>0, TypeOfTicket, Zenon
<1>4. \/ /\ e = r
         /\ r.wait[w[1]] = "EMPTY" => Obstructed(r.lock, w)
      \/ /\ r.wait[w[1]] = "EMPTY"
         /\ e.wait = [r.wait EXCEPT ![w[1]] = "GRANTED"]
         /\ Range(e.lock.waiting) = Range(r.lock.waiting) \ {w}
         /\ e.lock.granted = r.lock.granted \cup {w}
         /\ Uncounted(r.lock, e.lock, w)
  BY <1>2, <1>3, TryGrantIs, Zenon
<1> HIDE DEF w
<1>5. CASE e = r /\ (r.wait[w[1]] = "EMPTY" => Obstructed(r.lock, w))
  BY <1>1, <1>5, Zenon DEF Passed, w
<1>6. CASE /\ r.wait[w[1]] = "EMPTY"
           /\ e.wait = [r.wait EXCEPT ![w[1]] = "GRANTED"]
           /\ Range(e.lock.waiting) = Range(r.lock.waiting) \ {w}
           /\ e.lock.granted = r.lock.granted \cup {w}
           /\ Uncounted(r.lock, e.lock, w)
  <2>1. w \in Range(r.lock.waiting)
    BY <1>3, <1>6, Zenon DEF Since, GrantedSince
  <2>2. Counted(e.lock)
    BY <1>2, <1>6, <2>1, CountedLess, Zenon
  <2>3. /\ e.wait[w[1]] = "GRANTED" /\ \A c \in Context : c # w[1] => e.wait[c] = r.wait[c]
        /\ r.lock.bitmap \ {w[2]} \subseteq e.lock.bitmap
    BY <1>2, <1>3, <1>6, Zenon DEF Uncounted
  <2>4. ASSUME NEW j \in 1..(i + 1), e.wait[s.lock.waiting[j][1]] = "EMPTY"
        PROVE  Obstructed(e.lock, s.lock.waiting[j])
    <3> DEFINE v == s.lock.waiting[j]
    <3>1. v \in Tickets /\ v[1] \in Context
      BY <1>0, <1>1, TypeOfTicket, Zenon
    <3>2. v[1] # w[1]
      BY <2>3, <2>4, Zenon
    <3>3. j \in 1..i
      BY <1>1, <3>2, Zenon DEF w
    <3>4. Obstructed(r.lock, v)
      BY <2>3, <2>4, <3>1, <3>2, <3>3, Zenon DEF Passed
    <3> HIDE DEF v
    <3>5. w \in Tickets /\ e.lock.granted = r.lock.granted \cup {w}
      BY <1>3, <1>6, Zenon
    <3>6. r.lock.bitmap \ {w[2]} \subseteq e.lock.bitmap
      BY <2>3, Zenon
    <3>7. Obstructed(e.lock, v)
      BY <3>1, <3>2, <3>4, <3>5, <3>6, ObstructedKept, Zenon
    <3> QED
      BY <3>7, Zenon DEF v
  <2> QED
    BY <2>2, <2>4, Zenon DEF Passed
<1> QED
  BY <1>4, <1>5, <1>6, Zenon

\* After the rounds, by induction, every ticket of the list has been tried.
LEMMA RoundsPass ==
  ASSUME NEW s, Startable(s), NEW n \in Nat, n = Len(s.lock.waiting), Counted(s.lock)
  PROVE  Counted(Rounds(s, FALSE)[n].lock) /\ Passed(s, Rounds(s, FALSE)[n], n)
<1> DEFINE R == Rounds(s, FALSE)
           S == {i \in Nat : i <= n => Counted(R[i].lock) /\ Passed(s, R[i], i)}
<1>1. /\ R[0] = s
      /\ \A i \in 1..n : R[i] = TryGrant(R[i - 1], s.lock.waiting[i], FALSE)
  BY RoundsIs
<1>2. \A i \in 0..n : Since(s, R[i])
  BY RoundsSince, Zenon
<1> HIDE DEF R
<1>3. 0 \in S
  <2>1. 1..0 = {}
    OBVIOUS
  <2> QED
    BY <1>1, <2>1, Zenon DEF Passed
<1>4. ASSUME NEW i \in Nat, i \in S
      PROVE  i + 1 \in S
  <2>1. /\ i + 1 \in Nat /\ (i + 1) - 1 = i
        /\ i + 1 <= n => i <= n /\ i + 1 \in 1..n /\ i \in 0..n
    OBVIOUS
  <2>2. ASSUME i + 1 <= n
        PROVE  Counted(R[i + 1].lock) /\ Passed(s, R[i + 1], i + 1)
    <3>1. Since(s, R[i]) /\ Counted(R[i].lock) /\ Passed(s, R[i], i)
      BY <1>2, <1>4, <2>1, <2>2, Zenon
    <3>2. R[i + 1] = TryGrant(R[i], s.lock.waiting[i + 1], FALSE) /\ i + 1 \in 1..n
      BY <1>1, <2>1, <2>2, Zenon
    <3> QED
      BY <3>1, <3>2, PassedTry, Zenon
  <2> QED
    BY <2>1, <2>2, Zenon
<1>5. Nat \subseteq S
  <2> HIDE DEF S
  <2> QED
    BY <1>3, <1>4, Induction, Zenon
<1>6. n <= n
  OBVIOUS
<1> QED
  BY <1>5, <1>6, Zenon DEF R

\* With the limit out of reach, whoever can be granted is.
LEMMA RescheduleWaits ==
  ASSUME NEW s, Startable(s), Counted(s.lock), max_write_lock_count > MaxHog,
         max_write_lock_count \in Nat
  PROVE  LockWaits(reschedule_waiters(s).lock, reschedule_waiters(s).wait)
<1> DEFINE r == reschedule_waiters(s)
           n == Len(s.lock.waiting)
           end == Rounds(s, FALSE)[n]
<1>1. /\ n \in Nat /\ Since(s, end) /\ r.wait = end.wait
      /\ r.lock.granted = end.lock.granted /\ r.lock.waiting = end.lock.waiting
      /\ r.lock.bitmap = end.lock.bitmap /\ r.lock.count = end.lock.count
  <2>1. PICK skip \in BOOLEAN :
          /\ n \in Nat /\ Since(s, Rounds(s, skip)[n]) /\ r.wait = Rounds(s, skip)[n].wait
          /\ r.lock.granted = Rounds(s, skip)[n].lock.granted
          /\ r.lock.waiting = Rounds(s, skip)[n].lock.waiting
          /\ r.lock.bitmap = Rounds(s, skip)[n].lock.bitmap
          /\ r.lock.count = Rounds(s, skip)[n].lock.count
          /\ skip => s.lock.hog >= max_write_lock_count
    BY RescheduleIs, Zenon
  <2>2. s.lock.hog \in 0..MaxHog
    BY ResultFields, LockFields, Zenon DEF Startable
  <2>3. ~(s.lock.hog >= max_write_lock_count)
    BY <2>2, MDLAssumption
  <2>4. skip = FALSE
    BY <2>1, <2>3, Zenon
  <2> QED
    BY <2>1, <2>4, Zenon
<1>2. Counted(end.lock) /\ Passed(s, end, n)
  BY <1>1, RoundsPass, Zenon
<1> HIDE DEF r, end
<1>3. Counted(r.lock)
  BY <1>1, <1>2, CountedSame, Zenon
<1>4. ASSUME NEW w \in Range(r.lock.waiting), r.wait[w[1]] = "EMPTY"
      PROVE  Obstructed(r.lock, w)
  <2>1. s.lock.waiting \in Seq(Tickets) /\ end.lock \in Lock
    BY <1>1, ResultFields, LockFields, Zenon DEF Startable, Since
  <2>2. DOMAIN s.lock.waiting = 1..n
    BY <2>1
  <2>3. w \in Tickets
    BY <1>1, <1>4, <2>1, LockFields, Zenon
  <2>4. w \in Range(s.lock.waiting)
    BY <1>1, <1>4, <2>3, Zenon DEF Since
  <2>5. PICK j \in 1..n : w = s.lock.waiting[j]
    BY <2>2, <2>4, Zenon DEF Range
  <2>6. Obstructed(end.lock, w)
    BY <1>1, <1>2, <1>4, <2>5, Zenon DEF Passed
  <2> QED
    BY <1>1, <2>6, ObstructedSame, Zenon
<1>5. LockWaits(r.lock, r.wait)
  BY <1>3, <1>4, Zenon DEF LockWaits
<1> QED
  BY <1>5, Zenon DEF r

-----------------------------------------------------------------------------
(* Steps, and those who wait *)

\* A context waits at most once in a lock.
LEMMA WaitsOnce ==
  ASSUME MDLInv, NEW k \in Key
  PROVE  /\ \A v, w \in Range(lock[k].waiting) : v[1] = w[1] => v = w
         /\ \A w \in Range(lock[k].waiting) :
              /\ w \in Tickets /\ w[1] \in Context
              /\ Own(call[w[1]], k, w[2]) /\ m_wait[w[1]] # "GRANTED"
<1> DEFINE s == [lock |-> lock[k], wait |-> m_wait]
<1>1. s.lock = lock[k] /\ s.wait = m_wait
  OBVIOUS
<1>2. s \in Result
  BY Zenon DEF MDLInv, Types, Result
<1> HIDE DEF s
<1>3. AllFit(s, k, m_tickets, call)
  BY <1>1, Zenon DEF MDLInv, TicketOK, AllFit
<1>4. Distinct(s.lock.waiting) /\ Compatible(s.lock.granted)
  BY <1>1, Zenon DEF MDLInv
<1>5. /\ Startable(s)
      /\ \A w \in Range(s.lock.waiting) : Own(call[w[1]], k, w[2]) /\ s.wait[w[1]] # "GRANTED"
  BY <1>2, <1>3, <1>4, OneEach, Zenon
<1>6. \A w \in Range(lock[k].waiting) : w \in Tickets /\ w[1] \in Context
  BY LockHas, LockFields, TypeOfTicket, Zenon
<1> QED
  BY <1>1, <1>5, <1>6, Zenon DEF Startable

\* remove_ticket() of lock k, which has become l.
LEMMA RemovedWaits ==
  ASSUME MDLInv, NEW k \in Key, NEW l \in Lock, NEW wt \in [Context -> Slot],
         Removed(k, l, wt), Distinct(l.waiting), Compatible(l.granted),
         Range(l.waiting) \subseteq Range(lock[k].waiting), Counted(l),
         max_write_lock_count > MaxHog,
         \A d \in Context : wt[d] = "EMPTY" => m_wait[d] = "EMPTY",
         \A j \in Key \ {k} : LockWaits(lock[j], m_wait)
  PROVE  /\ \A j \in Key : LockWaits(lock'[j], m_wait')
         /\ \A d \in Context : m_wait'[d] = wt[d] \/ wt[d] = "EMPTY"
<1> DEFINE s == [lock |-> l, wait |-> wt]
<1>1. s \in Result /\ s.lock = l /\ s.wait = wt
  BY DEF Result
<1>2. Startable(s)
  <2>1. \A v, w \in Range(l.waiting) : v[1] = w[1] => v = w
    BY WaitsOnce, Zenon
  <2> HIDE DEF s
  <2> QED
    BY <1>1, <2>1, Zenon DEF Startable
<1>3. max_write_lock_count \in Nat /\ lock \in [Key -> Lock]
  BY Zenon DEF MDLInv, Types
<1>4. PICK r : /\ Since(s, r) /\ LockWaits(r.lock, r.wait)
               /\ lock' = [lock EXCEPT ![k] = r.lock] /\ m_wait' = r.wait
  <2>1. CASE IsEmpty(l)
    <3>1. Since(s, s)
      BY <1>2, SinceStart, Zenon
    <3>2. Range(<<>>) = {}
      BY DEF Range
    <3>3. LockWaits(l, wt)
      BY <2>1, <3>2, Zenon DEF LockWaits, IsEmpty
    <3>4. lock' = [lock EXCEPT ![k] = s.lock] /\ m_wait' = s.wait
      BY <2>1, Zenon DEF Removed
    <3> HIDE DEF s
    <3> QED
      BY <1>1, <3>1, <3>3, <3>4, Zenon
  <2>2. CASE ~IsEmpty(l)
    <3> DEFINE r == reschedule_waiters(s)
    <3>1. lock' = [lock EXCEPT ![k] = r.lock] /\ m_wait' = r.wait
      BY <2>2, Zenon DEF Removed
    <3> HIDE DEF s
    <3>2. Since(s, r) /\ LockWaits(r.lock, r.wait)
      BY <1>1, <1>2, <1>3, RescheduleSince, RescheduleWaits, Zenon
    <3> HIDE DEF r
    <3> QED
      BY <3>1, <3>2, Zenon
  <2> QED
    BY <2>1, <2>2, Zenon
<1> HIDE DEF s
<1>5. lock'[k] = r.lock /\ \A j \in Key \ {k} : lock'[j] = lock[j]
  BY <1>3, <1>4, Zenon
<1>6. \A d \in Context : m_wait'[d] = wt[d] \/ (wt[d] = "EMPTY" /\ m_wait'[d] = "GRANTED")
  <2> TAKE d \in Context
  <2>1. r.wait[d] = s.wait[d] \/ \E w \in Range(s.lock.waiting) : w[1] = d /\ GrantedSince(s, r, w)
    BY <1>4, Zenon DEF Since
  <2> QED
    BY <1>1, <1>4, <2>1, Zenon DEF GrantedSince
<1>7. ASSUME NEW j \in Key \ {k} PROVE LockWaits(lock'[j], m_wait')
  <2>1. \A w \in Range(lock[j].waiting) : w[1] \in Context
    BY WaitsOnce, Zenon
  <2>2. \A d \in Context : m_wait'[d] = "EMPTY" => m_wait[d] = "EMPTY"
    BY <1>6, Zenon
  <2> QED
    BY <1>5, <2>1, <2>2, Zenon DEF LockWaits
<1> QED
  BY <1>4, <1>5, <1>6, <1>7, Zenon

\* No ticket moves, and no slot is opened.
LEMMA QuietWaits ==
  ASSUME MDLInv, lock' = lock,
         \A d \in Context : m_wait'[d] = "EMPTY" => m_wait[d] = "EMPTY",
         \A k \in Key : LockWaits(lock[k], m_wait)
  PROVE  \A k \in Key : LockWaits(lock'[k], m_wait')
<1> SUFFICES ASSUME NEW k \in Key PROVE LockWaits(lock'[k], m_wait')
  BY Zenon
<1>1. \A w \in Range(lock[k].waiting) : w[1] \in Context
  BY WaitsOnce, Zenon
<1> QED
  BY <1>1, Zenon DEF LockWaits

\* The calls of the others, in a step that may grant to them or close their slots.
LEMMA OthersWait ==
  ASSUME NEW c \in Context, \A d \in Context : CallWaits(call[d], m_wait[d], m_tickets[d]),
         \A d \in Context \ {c} : /\ call'[d] = call[d] /\ m_tickets'[d] = m_tickets[d]
                                  /\ m_wait'[d] = m_wait[d] \/ m_wait[d] = "EMPTY",
         CallWaits(call'[c], m_wait'[c], m_tickets'[c])
  PROVE  \A d \in Context : CallWaits(call'[d], m_wait'[d], m_tickets'[d])
<1> SUFFICES ASSUME NEW d \in Context \ {c}
             PROVE  CallWaits(call'[d], m_wait'[d], m_tickets'[d])
  BY Zenon
<1>1. CallWaits(call[d], m_wait[d], m_tickets[d])
  BY Zenon
<1>2. call[d].pc = "remove" => m_wait'[d] = m_wait[d]
  BY <1>1, Zenon DEF CallWaits
<1> QED
  BY <1>1, <1>2, Zenon DEF CallWaits

\* A call that stays pending goes on.
LEMMA PendingWaits ==
  ASSUME MDLInv, WaitsOK, NEW c \in Context, call[c].pc # "idle",
         NEW pc \in {"search", "wait", "victim"}, call' = [call EXCEPT ![c].pc = pc],
         \A d \in Context : m_wait'[d] = m_wait[d] \/ (m_wait[d] = "EMPTY" /\ m_wait'[d] # "EMPTY"),
         lock' = lock /\ m_tickets' = m_tickets
  PROVE  WaitsOK'
<1>1. lock' = lock /\ m_tickets' = m_tickets
  BY Zenon
<1>2. /\ \A d \in Context : CallWaits(call[d], m_wait[d], m_tickets[d])
      /\ \A k \in Key : LockWaits(lock[k], m_wait)
  BY Zenon DEF WaitsOK
<1>3. /\ \A d \in Context \ {c} : call'[d] = call[d]
      /\ call'[c].pc = pc /\ call'[c].key = call[c].key
      /\ call'[c].type = call[c].type /\ call'[c].old = call[c].old
  <2>1. pc \in Pending \cup {"idle", "merge"} /\ call \in [Context -> Call]
    BY SearchesFit, Zenon DEF Pending
  <2> QED
    BY <2>1, CallGoto, Zenon
<1>4. CallWaits(call'[c], m_wait'[c], m_tickets'[c])
  <2>1. CallWaits(call[c], m_wait[c], m_tickets[c])
    BY <1>2, Zenon
  <2> QED
    BY <1>3, <2>1, Zenon DEF CallWaits, UpgradeOK
<1>5. \A k \in Key : LockWaits(lock'[k], m_wait')
  BY <1>1, <1>2, QuietWaits, Zenon
<1>6. \A d \in Context : CallWaits(call'[d], m_wait'[d], m_tickets'[d])
  BY <1>1, <1>2, <1>3, <1>4, OthersWait, Zenon
<1> QED
  BY <1>5, <1>6, Zenon DEF WaitsOK

\* A call that goes nowhere.
LEMMA CallStays ==
  ASSUME call \in [Context -> Call], NEW c \in Context
  PROVE  [call EXCEPT ![c].pc = call[c].pc] = call
<1> DEFINE p == call[c]
           q == [p EXCEPT !.pc = p.pc]
<1>1. p \in Call
  BY Zenon
<1> HIDE DEF p
<1>2. q = p
  BY <1>1 DEF Call
<1> HIDE DEF q
<1>3. [call EXCEPT ![c] = q] = call
  BY <1>2, Zenon DEF p
<1> QED
  BY <1>3, Zenon DEF p, q

\* Where a visit leaves the call.
LEMMA VisitGoes ==
  ASSUME call \in [Context -> Call], NEW c \in Context, call[c].pc = "search", NEW path,
         NEW d, Visit(c, path, d)
  PROVE  \E pc \in {"search", "wait", "victim"} : call' = [call EXCEPT ![c].pc = pc]
<1>1. CASE m_waiting_for[d] = None \/ m_wait[d] # "EMPTY"
  <2>1. call' = [call EXCEPT ![c].pc = IF path = <<>> THEN "wait" ELSE call[c].pc]
    BY <1>1, Zenon DEF Visit
  <2> QED
    BY <2>1, Zenon
<1>2. CASE ~(m_waiting_for[d] = None \/ m_wait[d] # "EMPTY")
  <2>1. call' = [call EXCEPT ![c].pc = "victim"] \/ call' = call
    BY <1>2, Zenon DEF Visit, Found
  <2>2. call = [call EXCEPT ![c].pc = "search"]
    BY CallStays, Zenon
  <2> QED
    BY <2>1, <2>2, Zenon
<1> QED
  BY <1>1, <1>2, Zenon

\* The steps of a call that waits.
LEMMA SearchWaits ==
  ASSUME MDLInv, WaitsOK, NEW c \in Context,
         \/ will_wait_for(c) \/ StartSearch(c) \/ ContinueSearch(c) \/ SetVictim(c)
         \/ TimedOut(c)
  PROVE  WaitsOK'
<1>1. call \in [Context -> Call] /\ m_wait \in [Context -> Slot]
  BY SearchesFit, Zenon
<1>2. lock' = lock /\ m_tickets' = m_tickets
  BY Zenon DEF will_wait_for, StartSearch, ContinueSearch, SetVictim, TimedOut
<1>3. call[c].pc # "idle"
  BY Zenon DEF will_wait_for, StartSearch, ContinueSearch, SetVictim, TimedOut, At
<1>4. \E pc \in {"search", "wait", "victim"} : call' = [call EXCEPT ![c].pc = pc]
  <2>1. CASE will_wait_for(c)
    BY <2>1, Zenon DEF will_wait_for
  <2>2. CASE StartSearch(c)
    BY <1>1, <2>2, VisitGoes, Zenon DEF StartSearch, At
  <2>3. CASE ContinueSearch(c)
    <3> DEFINE path == search[c].path
               last == path[Len(path)]
    <3>1. call[c].pc = "search"
      BY <2>3, Zenon DEF ContinueSearch, At
    <3>2. CASE last.todo = {}
      <4>1. call' = [call EXCEPT ![c].pc = IF Len(path) = 1 THEN "wait" ELSE call[c].pc]
        BY <2>3, <3>2, Zenon DEF ContinueSearch
      <4> QED
        BY <3>1, <4>1, Zenon
    <3>3. CASE last.todo # {}
      <4>1. PICK d \in last.todo : Visit(c, [path EXCEPT ![Len(path)].todo = @ \ {d}], d)
        BY <2>3, <3>3, Zenon DEF ContinueSearch
      <4> QED
        BY <1>1, <3>1, <4>1, VisitGoes, Zenon
    <3> QED
      BY <3>2, <3>3, Zenon
  <2>4. CASE SetVictim(c)
    <3>1. call' = [call EXCEPT ![c].pc = IF search[c].victim = c THEN "wait" ELSE "search"]
      BY <2>4, Zenon DEF SetVictim
    <3> QED
      BY <3>1, Zenon
  <2>5. CASE TimedOut(c)
    <3>1. call[c].pc = "wait" /\ call' = call
      BY <2>5, Zenon DEF TimedOut, At
    <3> QED
      BY <1>1, <3>1, CallStays, Zenon
  <2> QED
    BY <2>1, <2>2, <2>3, <2>4, <2>5, Zenon
<1>5. \A d \in Context : m_wait'[d] = m_wait[d] \/ (m_wait[d] = "EMPTY" /\ m_wait'[d] # "EMPTY")
  <2>1. CASE will_wait_for(c) \/ StartSearch(c) \/ ContinueSearch(c)
    BY <2>1, Zenon DEF will_wait_for, StartSearch, ContinueSearch
  <2>2. CASE SetVictim(c)
    <3> DEFINE v == search[c].victim
    <3>1. m_wait' = [m_wait EXCEPT ![v] = IF m_wait[v] = "EMPTY" THEN "CLOSED" ELSE m_wait[v]]
      BY <2>2, Zenon DEF SetVictim
    <3> HIDE DEF v
    <3> QED
      BY <1>1, <3>1, Zenon
  <2>3. CASE TimedOut(c)
    <3>1. m_wait[c] = "EMPTY" /\ m_wait' = [m_wait EXCEPT ![c] = "CLOSED"]
      BY <2>3, Zenon DEF TimedOut
    <3> QED
      BY <1>1, <3>1, Zenon
  <2> QED
    BY <2>1, <2>2, <2>3, Zenon
<1> QED
  BY <1>2, <1>3, <1>4, <1>5, PendingWaits, Zenon

\* A context without a call waits for nothing.
LEMMA NoCallWaits ==
  ASSUME NEW slot, NEW has
  PROVE  CallWaits(NoCall, slot, has)
  BY NoCallIs, Zenon DEF CallWaits, UpgradeOK

\* The wait is over.
LEMMA DoneWaits ==
  ASSUME MDLInv, WaitsOK, NEW c \in Context, done_waiting_for(c)
  PROVE  WaitsOK'
<1> DEFINE k == call[c].key
           t == call[c].type
           has == m_tickets[c] \cup {<<k, t>>}
<1>1. /\ call \in [Context -> Call] /\ m_wait \in [Context -> Slot]
      /\ m_tickets \in [Context -> SUBSET (Key \X Type)]
  BY Zenon DEF MDLInv, Types
<1>2. /\ \A d \in Context : CallWaits(call[d], m_wait[d], m_tickets[d])
      /\ \A j \in Key : LockWaits(lock[j], m_wait)
  BY Zenon DEF WaitsOK
<1>3. CallWaits(call[c], m_wait[c], m_tickets[c])
  BY <1>2, Zenon
<1>4. call[c].pc = "wait" /\ m_wait[c] # "EMPTY" /\ lock' = lock
  BY <1>3, Zenon DEF done_waiting_for, At, CallWaits
<1>5. /\ \A d \in Context : m_wait'[d] = "EMPTY" => m_wait[d] = "EMPTY"
      /\ \A d \in Context \ {c} : /\ call'[d] = call[d] /\ m_tickets'[d] = m_tickets[d]
                                  /\ m_wait'[d] = m_wait[d] \/ m_wait[d] = "EMPTY"
      /\ CallWaits(call'[c], m_wait'[c], m_tickets'[c])
  <2>1. CASE m_wait[c] = "GRANTED"
    <3> DEFINE p == IF call[c].old = None THEN NoCall ELSE [call[c] EXCEPT !.pc = "merge"]
    <3>1. /\ m_tickets' = [m_tickets EXCEPT ![c] = has]
          /\ m_wait' = [m_wait EXCEPT ![c] = "CLOSED"] /\ call' = [call EXCEPT ![c] = p]
      BY <1>4, <2>1, Zenon DEF done_waiting_for, At
    <3>2. CallWaits(p, "CLOSED", has)
      <4>1. CASE call[c].old = None
        BY <4>1, NoCallWaits, Zenon
      <4>2. CASE call[c].old # None
        <5> DEFINE m == [call[c] EXCEPT !.pc = "merge"]
        <5>1. call[c] \in Call
          BY <1>1, Zenon
        <5>2. m.pc = "merge" /\ m.key = k /\ m.type = t /\ m.old = call[c].old
          BY <5>1 DEF Call
        <5> HIDE DEF m
        <5>3. /\ has_stronger_or_equal_type(m.type, m.old) /\ m.old # m.type
              /\ <<m.key, m.type>> \in has
          BY <1>3, <1>4, <4>2, <5>2, Zenon DEF CallWaits, UpgradeOK
        <5>4. CallWaits(m, "CLOSED", has)
          BY <4>2, <5>2, <5>3, Zenon DEF CallWaits, UpgradeOK
        <5> QED
          BY <4>2, <5>4, Zenon DEF m
      <4> QED
        BY <4>1, <4>2, Zenon
    <3> HIDE DEF p, has
    <3>3. /\ \A d \in Context \ {c} : /\ call'[d] = call[d] /\ m_tickets'[d] = m_tickets[d]
                                      /\ m_wait'[d] = m_wait[d]
          /\ call'[c] = p /\ m_wait'[c] = "CLOSED" /\ m_tickets'[c] = has
      BY <1>1, <3>1, Zenon
    <3>4. \A d \in Context : m_wait'[d] = "EMPTY" => m_wait[d] = "EMPTY"
      BY <3>3, Zenon
    <3> QED
      BY <3>2, <3>3, <3>4, Zenon
  <2>2. CASE m_wait[c] # "GRANTED"
    <3>1. /\ call' = [call EXCEPT ![c].pc = "remove"]
          /\ m_tickets' = m_tickets /\ m_wait' = m_wait
      BY <1>4, <2>2, Zenon DEF done_waiting_for, At
    <3>2. "remove" \in Pending \cup {"idle", "merge"}
      BY Zenon DEF Pending
    <3>3. /\ \A d \in Context \ {c} : call'[d] = call[d]
          /\ call'[c].pc = "remove" /\ call'[c].key = call[c].key
          /\ call'[c].type = call[c].type /\ call'[c].old = call[c].old
      BY <1>1, <3>1, <3>2, CallGoto, Zenon
    <3>4. m_wait[c] = "CLOSED"
      BY <1>1, <1>4, <2>2, Zenon DEF Slot
    <3>5. CallWaits(call'[c], m_wait[c], m_tickets[c])
      BY <1>3, <1>4, <3>3, <3>4, Zenon DEF CallWaits, UpgradeOK
    <3> QED
      BY <3>1, <3>3, <3>5, Zenon
  <2> QED
    BY <2>1, <2>2, Zenon
<1>6. \A j \in Key : LockWaits(lock'[j], m_wait')
  BY <1>2, <1>4, <1>5, QuietWaits, Zenon
<1>7. \A d \in Context : CallWaits(call'[d], m_wait'[d], m_tickets'[d])
  BY <1>2, <1>5, OthersWait, Zenon
<1> QED
  BY <1>6, <1>7, Zenon DEF WaitsOK

\* A failed request leaves its lock, and whoever it obstructed is granted.
LEMMA FailWaits ==
  ASSUME MDLInv, WaitsOK, Settled, NEW c \in Context, Fail(c)
  PROVE  WaitsOK'
<1> DEFINE k == call[c].key
           t == call[c].type
           w == <<c, t>>
           l == remove_waiting(lock[k], w)
           wt == [m_wait EXCEPT ![c] = "CLOSED"]
<1>1. /\ call[c].pc = "remove" /\ Removed(k, l, wt)
      /\ call' = [call EXCEPT ![c] = NoCall] /\ m_tickets' = m_tickets
  BY Zenon DEF Fail, At, Ticket
<1>2. k \in Key /\ t \in Type
  BY <1>1, PendingHas, Zenon
<1>3. /\ call \in [Context -> Call] /\ m_wait \in [Context -> Slot]
  BY Zenon DEF MDLInv, Types
<1>4. /\ \A d \in Context : CallWaits(call[d], m_wait[d], m_tickets[d])
      /\ \A j \in Key : LockWaits(lock[j], m_wait)
  BY Zenon DEF WaitsOK
<1>5. /\ lock[k] \in Lock /\ lock[k].granted \subseteq Tickets
      /\ Distinct(lock[k].waiting) /\ Compatible(lock[k].granted)
  BY <1>2, LockHas, Zenon
<1>6. w \in Tickets
  BY <1>2, TicketParts, Zenon
<1>7. w \in Range(lock[k].waiting)
  <2>1. m_wait[c] = "CLOSED"
    BY <1>1, <1>4, Zenon DEF CallWaits
  <2>2. TicketOK(c, k, t) /\ Own(call[c], k, t)
    BY <1>1, <1>2, Zenon DEF MDLInv, Own, Pending
  <2> QED
    BY <2>1, <2>2, Zenon DEF TicketOK, Fits
<1>8. /\ l \in Lock /\ Distinct(l.waiting) /\ Range(l.waiting) = Range(lock[k].waiting) \ {w}
      /\ l.granted = lock[k].granted \ {w} /\ Uncounted(lock[k], l, w)
  BY <1>5, <1>6, RemoveWaitingIs, Zenon DEF Uncounted
<1>9. Compatible(l.granted)
  BY <1>5, <1>8, FewerCompatible, Zenon
<1>10. Counted(lock[k])
  BY <1>2, <1>4, Zenon DEF LockWaits
<1>11. wt \in [Context -> Slot] /\ wt[c] = "CLOSED" /\ \A d \in Context \ {c} : wt[d] = m_wait[d]
  BY <1>3, Zenon DEF Slot
<1> HIDE DEF k, t, w, l, wt
<1>12. Counted(l)
  BY <1>5, <1>7, <1>8, <1>10, CountedLess, Zenon
<1>13. Range(l.waiting) \subseteq Range(lock[k].waiting)
  BY <1>8, Zenon
<1>14. \A d \in Context : wt[d] = "EMPTY" => m_wait[d] = "EMPTY"
  BY <1>11, Zenon
<1>15. max_write_lock_count > MaxHog /\ \A j \in Key \ {k} : LockWaits(lock[j], m_wait)
  BY <1>4, Zenon DEF Settled
<1>16. /\ \A j \in Key : LockWaits(lock'[j], m_wait')
       /\ \A d \in Context : m_wait'[d] = wt[d] \/ wt[d] = "EMPTY"
  BY <1>1, <1>2, <1>8, <1>9, <1>11, <1>12, <1>13, <1>14, <1>15, RemovedWaits, Zenon
<1>17. /\ \A d \in Context \ {c} : /\ call'[d] = call[d] /\ m_tickets'[d] = m_tickets[d]
                                   /\ m_wait'[d] = m_wait[d] \/ m_wait[d] = "EMPTY"
       /\ call'[c] = NoCall
  BY <1>1, <1>3, <1>11, <1>16, Zenon
<1>18. CallWaits(call'[c], m_wait'[c], m_tickets'[c])
  BY <1>17, NoCallWaits, Zenon
<1>19. \A d \in Context : CallWaits(call'[d], m_wait'[d], m_tickets'[d])
  BY <1>4, <1>17, <1>18, OthersWait, Zenon
<1> QED
  BY <1>16, <1>19, Zenon DEF WaitsOK

\* A released or downgraded ticket obstructs less, and whoever it obstructed is granted.
LEMMA DropWaits ==
  ASSUME MDLInv, WaitsOK, Settled, NEW c \in Context, NEW k, NEW old, NEW new, NEW l,
         Drops(c, k, old, new, l)
  PROVE  WaitsOK'
<1> DEFINE g == (lock[k].granted \ {<<c, old>>}) \cup ({c} \X new)
<1>1. /\ call[c].pc = "idle" /\ k \in Key /\ old \in Type /\ new \in SUBSET Type
      /\ <<k, old>> \in m_tickets[c]
      /\ \A t \in new : has_stronger_or_equal_type(old, t)
      /\ l = [lock[k] EXCEPT !.granted = g] /\ Removed(k, l, m_wait) /\ call' = call
      /\ m_tickets' = [m_tickets EXCEPT ![c] = (@ \ {<<k, old>>}) \cup ({k} \X new)]
  BY Zenon DEF Drops
<1>2. /\ lock[k] \in Lock /\ lock[k].granted \in SUBSET Tickets
      /\ Distinct(lock[k].waiting) /\ Compatible(lock[k].granted)
  BY <1>1, LockHas, Zenon
<1>3. /\ m_wait \in [Context -> Slot] /\ m_tickets \in [Context -> SUBSET (Key \X Type)]
  BY Zenon DEF MDLInv, Types
<1>4. /\ \A d \in Context : CallWaits(call[d], m_wait[d], m_tickets[d])
      /\ \A j \in Key : LockWaits(lock[j], m_wait)
  BY Zenon DEF WaitsOK
<1>5. g \in SUBSET Tickets
  <2>1. {c} \X new \subseteq Tickets
    BY <1>1 DEF Tickets
  <2> QED
    BY <1>2, <2>1, Zenon
<1>6. Compatible(g)
  <2>1. <<c, old>> \in lock[k].granted
    BY <1>1, NotPending, Zenon
  <2> QED
    BY <1>1, <1>2, <2>1, DropCompatible, Zenon
<1>7. \A d \in Context \ {c} : m_tickets'[d] = m_tickets[d]
  BY <1>1, <1>3, Zenon
<1> HIDE DEF g
<1>8. /\ l \in Lock /\ l.granted = g /\ l.waiting = lock[k].waiting
      /\ l.bitmap = lock[k].bitmap /\ l.count = lock[k].count
  BY <1>1, <1>2, <1>5, GrantedSet, Zenon
<1>9. Counted(lock[k])
  BY <1>1, <1>4, Zenon DEF LockWaits
<1>10. Counted(l)
  BY <1>8, <1>9, CountedSame, Zenon
<1>11. /\ Distinct(l.waiting) /\ Compatible(l.granted)
       /\ Range(l.waiting) \subseteq Range(lock[k].waiting)
  BY <1>2, <1>6, <1>8, Zenon
<1>12. /\ max_write_lock_count > MaxHog /\ k \in Key /\ l \in Lock /\ Removed(k, l, m_wait)
       /\ \A j \in Key \ {k} : LockWaits(lock[j], m_wait)
       /\ \A d \in Context : m_wait[d] = "EMPTY" => m_wait[d] = "EMPTY"
  BY <1>1, <1>4, <1>8, Zenon DEF Settled
<1>13. /\ \A j \in Key : LockWaits(lock'[j], m_wait')
       /\ \A d \in Context : m_wait'[d] = m_wait[d] \/ m_wait[d] = "EMPTY"
  BY <1>3, <1>10, <1>11, <1>12, RemovedWaits, Zenon
<1>14. \A d \in Context \ {c} : /\ call'[d] = call[d] /\ m_tickets'[d] = m_tickets[d]
                                /\ m_wait'[d] = m_wait[d] \/ m_wait[d] = "EMPTY"
  BY <1>1, <1>7, <1>13, Zenon
<1>15. CallWaits(call'[c], m_wait'[c], m_tickets'[c])
  BY <1>1, Zenon DEF CallWaits, UpgradeOK
<1>16. \A d \in Context : CallWaits(call'[d], m_wait'[d], m_tickets'[d])
  BY <1>4, <1>14, <1>15, OthersWait, Zenon
<1> QED
  BY <1>13, <1>16, Zenon DEF WaitsOK

\* The lock of k becomes l; only c, which waits for no other lock, may have opened
\* its slot.
LEMMA LockBecomes ==
  ASSUME MDLInv, WaitsOK, NEW k \in Key, NEW l, lock' = [lock EXCEPT ![k] = l],
         LockWaits(l, m_wait'), NEW c \in Context,
         \A d \in Context \ {c} : m_wait'[d] = m_wait[d], call[c].pc \in {"idle", "merge"}
  PROVE  \A j \in Key : LockWaits(lock'[j], m_wait')
<1> SUFFICES ASSUME NEW j \in Key PROVE LockWaits(lock'[j], m_wait')
  BY Zenon
<1>1. lock \in [Key -> Lock]
  BY Zenon DEF MDLInv, Types
<1>2. CASE j = k
  BY <1>1, <1>2, Zenon
<1>3. CASE j # k
  <2>1. lock'[j] = lock[j] /\ LockWaits(lock[j], m_wait)
    BY <1>1, <1>3, Zenon DEF WaitsOK
  <2>2. ASSUME NEW w \in Range(lock[j].waiting)
        PROVE  w[1] \in Context \ {c}
    <3>1. w \in Tickets
      BY WaitsOnce, Zenon
    <3>2. w[1] \in Context /\ w[2] \in Type /\ w = <<w[1], w[2]>>
      BY <3>1, TypeOfTicket, Zenon
    <3>3. \A u \in Type : <<c, u>> \notin Range(lock[j].waiting)
      BY NotPending, Zenon
    <3> QED
      BY <3>2, <3>3, Zenon
  <2> QED
    BY <2>1, <2>2, Zenon DEF LockWaits
<1> QED
  BY <1>2, <1>3, Zenon

\* A stronger ticket of the same context obstructs whom the weaker one obstructed.
LEMMA ObstructedStronger ==
  ASSUME NEW l, NEW m, NEW v \in Tickets, Obstructed(l, v), NEW c, NEW old \in Type,
         NEW t \in Type, has_stronger_or_equal_type(t, old), old # t, <<c, t>> \in l.granted,
         m.granted = l.granted \ {<<c, old>>}, m.bitmap = l.bitmap
  PROVE  Obstructed(m, v)
<1>0. v[2] \in AllTypes /\ old \in AllTypes /\ t \in AllTypes
  BY TypeOfTicket, MDLAssumption, Zenon DEF AllTypes
<1>1. <<c, t>>[1] = c /\ <<c, t>>[2] = t /\ <<c, old>>[1] = c /\ <<c, old>>[2] = old
  OBVIOUS
<1>2. <<c, t>> \in m.granted
  BY PairsEqual, Zenon
<1>3. ASSUME NEW g \in Blocking(l, v)
      PROVE  Blocking(m, v) # {}
  <2>1. g \in l.granted /\ g[1] # v[1] /\ g[2] \in granted_incompatible[v[2]]
    BY <1>3, Zenon DEF Blocking
  <2>2. CASE g = <<c, old>>
    <3>1. v[2] \in granted_incompatible[old]
      BY <1>0, <1>1, <2>1, <2>2, Tables, Zenon
    <3>2. v[2] \in granted_incompatible[t]
      BY <3>1, Zenon DEF has_stronger_or_equal_type
    <3>3. t \in granted_incompatible[v[2]] /\ c # v[1]
      BY <1>0, <1>1, <2>1, <2>2, <3>2, Tables, Zenon
    <3>4. <<c, t>> \in Blocking(m, v)
      BY <1>1, <1>2, <3>3, Zenon DEF Blocking
    <3> QED
      BY <3>4, Zenon
  <2>3. CASE g # <<c, old>>
    <3>1. g \in Blocking(m, v)
      BY <2>1, <2>3, Zenon DEF Blocking
    <3> QED
      BY <3>1, Zenon
  <2> QED
    BY <2>2, <2>3, Zenon
<1> QED
  BY <1>3, Zenon DEF Obstructed, can_grant_lock

\* The old ticket of an upgrade is dropped, which frees nobody.
LEMMA MergeWaits ==
  ASSUME MDLInv, WaitsOK, NEW c \in Context, Merge(c)
  PROVE  WaitsOK'
<1> DEFINE k == call[c].key
           t == call[c].type
           o == call[c].old
           g == lock[k].granted \ {<<c, o>>}
           l == [lock[k] EXCEPT !.granted = g]
<1>1. /\ call[c].pc = "merge" /\ m_tickets' = [m_tickets EXCEPT ![c] = @ \ {<<k, o>>}]
      /\ lock' = [lock EXCEPT ![k] = l] /\ call' = [call EXCEPT ![c] = NoCall]
      /\ m_wait' = m_wait
  BY Zenon DEF Merge, At
<1>2. /\ call[c] \in Call /\ call \in [Context -> Call]
      /\ m_tickets \in [Context -> SUBSET (Key \X Type)]
  BY Zenon DEF MDLInv, Types
<1>3. k \in Key /\ t \in Type /\ o \in Type \cup {None}
  BY <1>1, <1>2, PendingHas, CallFields, Zenon
<1>4. /\ \A d \in Context : CallWaits(call[d], m_wait[d], m_tickets[d])
      /\ LockWaits(lock[k], m_wait)
  BY <1>3, Zenon DEF WaitsOK
<1>5. o # None /\ has_stronger_or_equal_type(t, o) /\ o # t /\ <<k, t>> \in m_tickets[c]
  <2>1. CallWaits(call[c], m_wait[c], m_tickets[c])
    BY <1>4, Zenon
  <2> QED
    BY <1>1, <2>1, Zenon DEF CallWaits, UpgradeOK
<1>6. /\ lock[k] \in Lock /\ lock[k].granted \subseteq Tickets
  BY <1>3, LockHas, Zenon
<1>7. <<c, t>> \in lock[k].granted
  BY <1>1, <1>3, <1>5, NotPending, Zenon
<1>8. /\ \A d \in Context \ {c} : call'[d] = call[d] /\ m_tickets'[d] = m_tickets[d]
      /\ call'[c] = NoCall
  BY <1>1, <1>2, Zenon
<1>9. /\ l \in Lock /\ l.granted = g /\ l.waiting = lock[k].waiting
      /\ l.bitmap = lock[k].bitmap /\ l.count = lock[k].count
  BY <1>6, GrantedSet, Zenon
<1>10. l.granted = lock[k].granted \ {<<c, o>>} /\ o \in Type
  BY <1>3, <1>5, <1>9, Zenon
<1> HIDE DEF k, t, o, g, l
<1>11. LockWaits(l, m_wait')
  <2>1. Counted(l)
    BY <1>4, <1>9, CountedSame, Zenon DEF LockWaits
  <2>2. ASSUME NEW v \in Range(lock[k].waiting), m_wait[v[1]] = "EMPTY"
        PROVE  Obstructed(l, v)
    <3>1. Obstructed(lock[k], v) /\ v \in Tickets
      BY <1>3, <1>4, <2>2, WaitsOnce, Zenon DEF LockWaits
    <3> QED
      BY <1>3, <1>5, <1>7, <1>9, <1>10, <3>1, ObstructedStronger, Zenon
  <2> QED
    BY <1>1, <1>9, <2>1, <2>2, Zenon DEF LockWaits
<1>12. \A j \in Key : LockWaits(lock'[j], m_wait')
  <2>1. (\A d \in Context \ {c} : m_wait'[d] = m_wait[d]) /\ call[c].pc \in {"idle", "merge"}
    BY <1>1, Zenon
  <2> QED
    BY <1>1, <1>3, <1>11, <2>1, LockBecomes, Zenon
<1>13. CallWaits(call'[c], m_wait'[c], m_tickets'[c])
  BY <1>8, NoCallWaits, Zenon
<1>14. \A d \in Context : CallWaits(call'[d], m_wait'[d], m_tickets'[d])
  <2>1. \A d \in Context \ {c} : /\ call'[d] = call[d] /\ m_tickets'[d] = m_tickets[d]
                                 /\ m_wait'[d] = m_wait[d] \/ m_wait[d] = "EMPTY"
    BY <1>1, <1>8, Zenon
  <2> QED
    BY <1>4, <1>13, <2>1, OthersWait, Zenon
<1> QED
  BY <1>12, <1>14, Zenon DEF WaitsOK

\* A new request waits only if it must, and makes nobody else's wait pointless.
LEMMA RequestWaits ==
  ASSUME MDLInv, WaitsOK, NEW c \in Context, NEW k \in Key, NEW t \in Type, NEW old,
         old # None => has_stronger_or_equal_type(t, old) /\ old # t,
         Request(c, k, t, old)
  PROVE  WaitsOK'
<1> DEFINE w == <<c, t>>
           new == [pc |-> "merge", key |-> k, type |-> t, old |-> old]
<1>0. /\ m_wait \in [Context -> Slot] /\ call \in [Context -> Call]
      /\ m_tickets \in [Context -> SUBSET (Key \X Type)]
  BY Zenon DEF MDLInv, Types
<1>1. call[c].pc \in {"idle", "merge"}
  BY Zenon DEF Request, At
<1>2. /\ lock[k] \in Lock /\ lock[k].granted \subseteq Tickets
  BY LockHas, Zenon
<1>3. w \in Tickets /\ w[1] = c /\ w[2] = t
  BY TicketParts, Zenon
<1>4. /\ \A d \in Context : CallWaits(call[d], m_wait[d], m_tickets[d])
      /\ LockWaits(lock[k], m_wait)
  BY Zenon DEF WaitsOK
<1>5. CASE can_grant_lock(lock[k], w, FALSE)
  <2> DEFINE g == lock[k].granted \cup {w}
             l == [lock[k] EXCEPT !.granted = g]
             has == m_tickets[c] \cup {<<k, t>>}
             p == IF old = None THEN NoCall ELSE new
  <2>1. /\ lock' = [lock EXCEPT ![k] = l] /\ m_tickets' = [m_tickets EXCEPT ![c] = has]
        /\ call' = [call EXCEPT ![c] = p] /\ m_wait' = m_wait
    BY <1>5, Zenon DEF Request
  <2>2. CallWaits(p, m_wait[c], has)
    <3>1. new.pc = "merge" /\ new.key = k /\ new.type = t /\ new.old = old /\ <<k, t>> \in has
      OBVIOUS
    <3> HIDE DEF new, has
    <3>2. CASE old = None
      BY <3>2, NoCallWaits, Zenon
    <3>3. CASE old # None
      BY <3>1, <3>3, Zenon DEF CallWaits, UpgradeOK
    <3> QED
      BY <3>2, <3>3, Zenon
  <2>3. /\ l \in Lock /\ l.granted = g /\ l.waiting = lock[k].waiting
        /\ l.bitmap = lock[k].bitmap /\ l.count = lock[k].count
    <3>1. g \in SUBSET Tickets
      BY <1>2, <1>3, Zenon
    <3> QED
      BY <1>2, <3>1, GrantedSet, Zenon
  <2>4. lock[k].granted \subseteq l.granted /\ lock[k].bitmap \subseteq l.bitmap
    BY <2>3, Zenon
  <2> HIDE DEF g, l, has, p, w, new
  <2>5. LockWaits(l, m_wait')
    <3>1. Counted(l)
      BY <1>4, <2>3, CountedSame, Zenon DEF LockWaits
    <3>2. \A v \in Range(lock[k].waiting) : m_wait[v[1]] = "EMPTY" => Obstructed(l, v)
      BY <1>4, <2>4, ObstructedSame, Zenon DEF LockWaits
    <3> QED
      BY <2>1, <2>3, <3>1, <3>2, Zenon DEF LockWaits
  <2>6. /\ \A d \in Context \ {c} : /\ call'[d] = call[d] /\ m_tickets'[d] = m_tickets[d]
                                    /\ m_wait'[d] = m_wait[d] \/ m_wait[d] = "EMPTY"
        /\ CallWaits(call'[c], m_wait'[c], m_tickets'[c])
    BY <1>0, <2>1, <2>2, Zenon
  <2>7. \A d \in Context : CallWaits(call'[d], m_wait'[d], m_tickets'[d])
    BY <1>4, <2>6, OthersWait, Zenon
  <2>8. \A j \in Key : LockWaits(lock'[j], m_wait')
    <3>1. \A d \in Context \ {c} : m_wait'[d] = m_wait[d]
      BY <2>1, Zenon
    <3> QED
      BY <1>1, <2>1, <2>5, <3>1, LockBecomes, Zenon
  <2> QED
    BY <2>7, <2>8, Zenon DEF WaitsOK
<1>6. CASE ~can_grant_lock(lock[k], w, FALSE)
  <2> DEFINE l == add_waiting(lock[k], w)
             p == [new EXCEPT !.pc = "announce"]
  <2>1. /\ lock' = [lock EXCEPT ![k] = l] /\ m_tickets' = m_tickets
        /\ call' = [call EXCEPT ![c] = p] /\ m_wait' = [m_wait EXCEPT ![c] = "EMPTY"]
    BY <1>6, Zenon DEF Request
  <2>2. p.pc = "announce" /\ p.type = t /\ p.old = old
    OBVIOUS
  <2> HIDE DEF p, new
  <2>3. CallWaits(p, "EMPTY", m_tickets[c])
    BY <2>2, Zenon DEF CallWaits, UpgradeOK
  <2>4. /\ l \in Lock /\ l.waiting = Append(lock[k].waiting, w)
        /\ l.granted = lock[k].granted /\ l.bitmap = lock[k].bitmap \cup {w[2]}
        /\ l.count = [lock[k].count EXCEPT ![w[2]] = @ + 1]
    BY <1>2, <1>3, AddWaitingIs, Zenon
  <2>5. \A v \in Range(lock[k].waiting) : v[1] \in Context /\ v[1] # c
    <3>1. \A u \in Type : <<c, u>> \notin Range(lock[k].waiting)
      BY <1>1, NotPending, Zenon
    <3>2. \A v \in Range(lock[k].waiting) :
            v[1] \in Context /\ v[2] \in Type /\ v = <<v[1], v[2]>>
      BY WaitsOnce, TypeOfTicket, Zenon
    <3> QED
      BY <3>1, <3>2, Zenon
  <2>6. w \notin Range(lock[k].waiting) /\ Obstructed(lock[k], w)
    BY <1>3, <1>6, <2>5, Zenon DEF Obstructed
  <2>7. Range(l.waiting) = Range(lock[k].waiting) \cup {w}
    <3> DEFINE q == lock[k].waiting
    <3>1. q \in Seq(Tickets)
      BY <1>2, LockFields, Zenon
    <3> HIDE DEF q, w
    <3>2. Range(Append(q, w)) = Range(q) \cup {w}
      BY <1>3, <3>1, AppendSet
    <3> QED
      BY <2>4, <3>2, Zenon DEF q
  <2>8. lock[k].granted \subseteq l.granted /\ lock[k].bitmap \subseteq l.bitmap
    BY <2>4, Zenon
  <2>9. /\ m_wait'[c] = "EMPTY" /\ \A d \in Context \ {c} : m_wait'[d] = m_wait[d]
        /\ \A d \in Context \ {c} : call'[d] = call[d] /\ m_tickets'[d] = m_tickets[d]
        /\ call'[c] = p /\ m_tickets'[c] = m_tickets[c]
    BY <1>0, <2>1, Zenon
  <2> HIDE DEF l, w
  <2>10. LockWaits(l, m_wait')
    <3>1. Counted(lock[k])
      BY <1>4, Zenon DEF LockWaits
    <3>2. Counted(l)
      BY <1>2, <1>3, <2>4, <2>6, <2>7, <3>1, CountedMore, Zenon
    <3>3. \A v \in Range(lock[k].waiting) : m_wait'[v[1]] = "EMPTY" => Obstructed(lock[k], v)
      BY <1>4, <2>5, <2>9, Zenon DEF LockWaits
    <3>4. \A v \in Range(l.waiting) : m_wait'[v[1]] = "EMPTY" => Obstructed(lock[k], v)
      BY <2>6, <2>7, <3>3, Zenon
    <3>5. \A v \in Range(l.waiting) : m_wait'[v[1]] = "EMPTY" => Obstructed(l, v)
      BY <2>8, <3>4, ObstructedSame, Zenon
    <3> QED
      BY <3>2, <3>5, Zenon DEF LockWaits
  <2>11. \A j \in Key : LockWaits(lock'[j], m_wait')
    BY <1>1, <2>1, <2>9, <2>10, LockBecomes, Zenon
  <2>12. CallWaits(call'[c], m_wait'[c], m_tickets'[c])
    BY <2>3, <2>9, Zenon
  <2>13. \A d \in Context : CallWaits(call'[d], m_wait'[d], m_tickets'[d])
    BY <1>4, <2>9, <2>12, OthersWait, Zenon
  <2> QED
    BY <2>11, <2>13, Zenon DEF WaitsOK
<1> QED
  BY <1>5, <1>6, Zenon

\* Whoever upgrades does so to a stronger type: SU, SNW, SNRW and X are ordered.
LEMMA UpgradeTypes ==
  ASSUME NEW a \in {"SU", "SNW", "SNRW"}, NEW b \in {"SNW", "SNRW", "X"},
         ~has_stronger_or_equal_type(a, b)
  PROVE  has_stronger_or_equal_type(b, a) /\ a # b
  BY DEF has_stronger_or_equal_type, granted_incompatible

\* A new request that waits is obstructed, and obstructs no one who was not.
LEMMA AcquireWaits ==
  ASSUME MDLInv, WaitsOK, NEW c \in Context, acquire_lock(c) \/ upgrade_shared_lock(c)
  PROVE  WaitsOK'
<1>1. ASSUME NEW kt \in Key \X Type
      PROVE  kt[1] \in Key /\ kt[2] \in Type /\ kt = <<kt[1], kt[2]>>
  OBVIOUS
<1>2. CASE acquire_lock(c)
  <2>1. PICK kt \in Wanted[c] : Request(c, kt[1], kt[2], None)
    BY <1>2, Zenon DEF acquire_lock
  <2>2. kt \in Key \X Type
    BY MDLAssumption, Zenon
  <2> QED
    BY <1>1, <2>1, <2>2, RequestWaits, Zenon
<1>3. CASE upgrade_shared_lock(c)
  <2>1. PICK kt \in m_tickets[c], t \in Type \cap {"SNW", "SNRW", "X"} :
          kt[2] \in {"SU", "SNW", "SNRW"} /\ Request(c, kt[1], t, kt[2])
    BY <1>3, Zenon DEF upgrade_shared_lock
  <2>2. kt \in Key \X Type
    BY Zenon DEF MDLInv, Types
  <2>3. kt[1] \in Key /\ kt[2] \in Type /\ kt = <<kt[1], kt[2]>>
    BY <1>1, <2>2, Zenon
  <2>4. ~HasLock(c, kt[1], t)
    BY <2>1, Zenon DEF Request
  <2>5. ~has_stronger_or_equal_type(kt[2], t)
    BY <2>3, <2>4, Zenon DEF HasLock
  <2>6. has_stronger_or_equal_type(t, kt[2]) /\ kt[2] # t
    BY <2>1, <2>5, UpgradeTypes, Zenon
  <2> QED
    BY <2>1, <2>3, <2>6, RequestWaits, Zenon
<1> QED
  BY <1>2, <1>3, Zenon

\* Nobody waits at first.
LEMMA InitWaits ==
  ASSUME Init
  PROVE  WaitInv
<1>1. /\ NewLock.waiting = <<>> /\ NewLock.bitmap = {}
      /\ \A t \in Type : NewLock.count[t] = 0
  BY DEF NewLock
<1>2. Range(<<>>) = {} /\ Cardinality({}) = 0
  BY FS_EmptySet DEF Range
<1> HIDE DEF NewLock
<1>3. \A t : Of(NewLock, t) = {}
  BY <1>1, <1>2, Zenon DEF Of
<1>4. Counted(NewLock)
  BY <1>1, <1>2, <1>3, Zenon DEF Counted
<1>5. \A k \in Key : LockWaits(lock[k], m_wait)
  BY <1>1, <1>2, <1>4, Zenon DEF Init, LockWaits
<1>6. \A c \in Context : CallWaits(call[c], m_wait[c], m_tickets[c])
  BY NoCallWaits, Zenon DEF Init
<1> QED
  BY <1>5, <1>6, Zenon DEF WaitInv, WaitsOK

\* Every step keeps the invariant about waits.
LEMMA NextWaits ==
  ASSUME MDLInv, WaitInv, [Next]_vars
  PROVE  WaitInv'
<1> SUFFICES ASSUME Settled' PROVE WaitsOK'
  BY Zenon DEF WaitInv
<1>1. CASE Next
  <2>1. PICK c \in Context :
            \/ acquire_lock(c) \/ upgrade_shared_lock(c)
            \/ will_wait_for(c) \/ StartSearch(c) \/ ContinueSearch(c) \/ SetVictim(c)
            \/ TimedOut(c) \/ Disconnected(c) \/ done_waiting_for(c)
            \/ Fail(c) \/ Merge(c)
            \/ release_lock(c) \/ downgrade_lock(c)
    BY <1>1, Zenon DEF Next
  <2>2. ~Disconnected(c)
    BY Zenon DEF Disconnected, Settled
  <2>3. UNCHANGED rest
    BY <2>1, <2>2, Zenon DEF acquire_lock, upgrade_shared_lock, Request, will_wait_for,
       StartSearch, ContinueSearch, SetVictim, TimedOut, done_waiting_for, Fail, Merge,
       release_lock, downgrade_lock
  <2>4. Settled
    BY <2>3, Zenon DEF Settled, rest
  <2>5. WaitsOK
    BY <2>4, Zenon DEF WaitInv
  <2> QED
    BY <2>1, <2>2, <2>4, <2>5, AcquireWaits, SearchWaits, DoneWaits, FailWaits, MergeWaits,
       ReleaseLockDrops, DowngradeLockDrops, DropWaits, Zenon
<1>2. CASE UNCHANGED vars
  <2>1. /\ lock' = lock /\ m_tickets' = m_tickets /\ m_wait' = m_wait /\ call' = call
        /\ UNCHANGED rest
    BY <1>2, Zenon DEF vars
  <2>2. Settled
    BY <2>1, Zenon DEF Settled, rest
  <2>3. WaitsOK
    BY <2>2, Zenon DEF WaitInv
  <2> QED
    BY <2>1, <2>3, Zenon DEF WaitsOK
<1> QED
  BY <1>1, <1>2, Zenon

\* While no client has disappeared and the limit for strong locks is out of reach,
\* the counters and the bitmap of every lock tell its waiting tickets, and
\* whoever waits could not be granted.
THEOREM WaitsInvariant == Spec => []WaitInv
<1>1. Init => WaitInv
  BY InitWaits
<1>2. MDLInv /\ WaitInv /\ [Next]_vars => WaitInv'
  BY NextWaits
<1> QED
  BY <1>1, <1>2, MDLInvariant, PTL DEF Spec

\* Whoever waits, waits for somebody: reschedule_waiters() overlooks nobody, and
\* every step that removes the last obstacle to a request calls it.
THEOREM NobodyOverlooked == Spec => []NoMissedGrant
<1>1. MDLInv /\ WaitInv => NoMissedGrant
  <2> SUFFICES ASSUME MDLInv, WaitInv, Settled, NEW c \in Context, Waiting(c)
               PROVE  Edges(c) # {}
    BY Zenon DEF NoMissedGrant, Settled
  <2> DEFINE k == call[c].key
             t == call[c].type
             w == <<c, t>>
  <2>1. call[c].pc = "wait" /\ m_wait[c] = "EMPTY"
    BY Zenon DEF Waiting, At
  <2>2. k \in Key /\ t \in Type
    BY <2>1, PendingHas, Zenon
  <2>3. w \in Range(lock[k].waiting)
    <3>1. TicketOK(c, k, t) /\ Own(call[c], k, t)
      BY <2>1, <2>2, Zenon DEF MDLInv, Own, Pending
    <3> QED
      BY <2>1, <3>1, Zenon DEF TicketOK, Fits
  <2>4. w \in Tickets /\ w[1] = c /\ w[2] = t /\ t \in AllTypes
    <3>1. w \in Tickets /\ w[1] = c /\ w[2] = t
      BY <2>2, TicketParts, Zenon
    <3> QED
      BY <3>1, TypeOfTicket, Zenon
  <2>5. LockWaits(lock[k], m_wait)
    BY <2>2, Zenon DEF WaitInv, WaitsOK
  <2>6. Obstructed(lock[k], w)
    BY <2>1, <2>3, <2>4, <2>5, Zenon DEF LockWaits
  <2>7. CASE Blocking(lock[k], w) # {}
    BY <2>7, Zenon DEF Edges, Ticket
  <2>8. CASE Blocking(lock[k], w) = {}
    <3>1. PICK u \in lock[k].bitmap : u \in waiting_incompatible[w[2]]
      BY <2>6, <2>8, Zenon DEF Obstructed, can_grant_lock
    <3>2. u \in Type
      BY <2>2, LockHas, LockFields, Zenon
    <3>3. PICK v \in Range(lock[k].waiting) : v[2] = u
      BY <2>5, <3>2, Zenon DEF LockWaits, Counted, Of
    <3>4. v # w
      BY <2>4, <3>1, <3>3, Tables, Zenon
    <3>5. v[1] # c
      BY <2>2, <2>3, <2>4, <3>4, WaitsOnce, Zenon
    <3>6. v[1] \in Edges(c)
      BY <3>1, <3>3, <3>5, Zenon DEF Edges, Ticket
    <3> QED
      BY <3>6, Zenon
  <2> QED
    BY <2>7, <2>8, Zenon
<1> QED
  BY <1>1, MDLInvariant, WaitsInvariant, PTL

=============================================================================

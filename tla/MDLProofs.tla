------------------------------ MODULE MDLProofs ------------------------------
(***************************************************************************)
(* Proofs about MDL, for any contexts, keys, wanted locks and limits.      *)
(***************************************************************************)
EXTENDS MDL, WellFoundedInduction, TLAPS

-----------------------------------------------------------------------------
(* The inductive invariant *)

\* The places of a call whose ticket is neither refused nor taken over yet.
Pending == {"announce", "search", "victim", "wait", "gone", "remove"}

Slot == {"EMPTY", "GRANTED", "CLOSED"}
Tickets == Context \X Type
Lock == [granted : SUBSET Tickets, waiting : Seq(Tickets), bitmap : SUBSET Type,
         count : [Type -> Int], hog : 0..MaxHog]
Call == [pc : Pending \cup {"idle", "merge"}, key : Key \cup {None},
         type : Type \cup {None}, old : Type \cup {None}]
Node == [ctx : Context, todo : SUBSET Context]
Search == [path : Seq(Node), victim : Context \cup {None}]

Types ==
    /\ lock \in [Key -> Lock]
    /\ m_tickets \in [Context -> SUBSET (Key \X Type)]
    /\ m_wait \in [Context -> Slot]
    /\ m_waiting_for \in [Context -> Key \cup {None}]
    /\ call \in [Context -> Call]
    /\ search \in [Context -> Search]
    /\ gone \subseteq Context
    /\ max_write_lock_count \in Nat

\* A call in progress names its ticket; only such a call is announced, and only
\* a pending one uses the wait slot.
CallOK(c) ==
    /\ call[c].pc # "idle" => call[c].key \in Key /\ call[c].type \in Type
    /\ call[c].pc = "victim" => search[c].victim \in Context
    /\ Len(search[c].path) < MAX_SEARCH_DEPTH
    /\ m_waiting_for[c] # None => call[c].pc \in {"search", "victim", "wait", "gone"}
    /\ call[c].pc \notin Pending => m_wait[c] = "CLOSED"

\* The ticket of the call p, while it is pending.
Own(p, k, t) == p.pc \in Pending /\ k = p.key /\ t = p.type

\* A pending ticket (own) is in one of the lists of its lock, and the slot tells in
\* which; any other ticket is granted if its context has it, and does not wait.
Fits(has, granted, waiting, own, slot) ==
    /\ has <=> granted /\ ~own
    /\ waiting <=> own /\ slot # "GRANTED"
    /\ own => (granted <=> slot = "GRANTED")

TicketOK(c, k, t) ==
    Fits(<<k, t>> \in m_tickets[c], <<c, t>> \in lock[k].granted,
         <<c, t>> \in Range(lock[k].waiting), Own(call[c], k, t), m_wait[c])

\* No ticket waits twice.
Distinct(q) == \A i, j \in 1..Len(q) : q[i] = q[j] => i = j

Compatible(granted) ==
    \A g, h \in granted : g[1] # h[1] => h[2] \notin granted_incompatible[g[2]]

MDLInv ==
    /\ Types
    /\ \A c \in Context : CallOK(c)
    /\ \A c \in Context, k \in Key, t \in Type : TicketOK(c, k, t)
    /\ \A k \in Key : Distinct(lock[k].waiting) /\ Compatible(lock[k].granted)

-----------------------------------------------------------------------------
(* Lists and types *)

\* The library's induction takes an operator; this one takes the set.
LEMMA Induction ==
  ASSUME NEW S, 0 \in S, \A n \in Nat : n \in S => n + 1 \in S
  PROVE  Nat \subseteq S
<1> DEFINE R == {p \in Nat \X Nat : p[1] < p[2]}
<1>1. IsWellFoundedOn(R, Nat)
  BY NatLessThanWellFounded, Zenon DEF OpToRel
<1>2. \A a, b \in Nat : a < b => <<a, b>> \in R
  OBVIOUS
<1> HIDE DEF R
<1> SUFFICES ASSUME Nat \ S # {} PROVE FALSE
  BY Zenon
<1>3. PICK x \in Nat \ S : \A y \in Nat \ S : ~(<<y, x>> \in R)
  BY <1>1, WFMin, Zenon
<1>4. x # 0
  BY Zenon
<1>5. x - 1 \in Nat /\ x - 1 < x /\ (x - 1) + 1 = x
  BY <1>4
<1> QED
  BY <1>2, <1>3, <1>5, Zenon

\* Leaving out the place i of a list.
LEMMA CutIs ==
  ASSUME NEW S, NEW q \in Seq(S), NEW i \in 1..Len(q)
  PROVE  LET r == SubSeq(q, 1, i - 1) \o SubSeq(q, i + 1, Len(q))
         IN  /\ r \in Seq(S) /\ Len(r) = Len(q) - 1
             /\ \A j \in 1..(Len(q) - 1) : r[j] = IF j < i THEN q[j] ELSE q[j + 1]
<1> DEFINE a == SubSeq(q, 1, i - 1)
           b == SubSeq(q, i + 1, Len(q))
<1>0. Len(q) \in Nat /\ \A j \in 1..Len(q) : q[j] \in S
  OBVIOUS
<1>1. /\ a \in Seq(S) /\ Len(a) = i - 1 /\ \A j \in 1..(i - 1) : a[j] = q[j]
  BY <1>0
<1>2. /\ b \in Seq(S) /\ Len(b) = Len(q) - i
      /\ \A j \in 1..(Len(q) - i) : b[j] = q[i + j]
  BY <1>0
<1> HIDE DEF a, b
<1> DEFINE r == a \o b
<1>3. a \in Seq(S) /\ b \in Seq(S)
  BY <1>1, <1>2, Zenon
<1>4. /\ r \in Seq(S) /\ Len(r) = Len(a) + Len(b)
      /\ \A j \in 1..(Len(a) + Len(b)) :
           r[j] = IF j <= Len(a) THEN a[j] ELSE b[j - Len(a)]
  BY <1>3
<1> HIDE DEF r
<1>5. Len(a) + Len(b) = Len(q) - 1
  BY <1>0, <1>1, <1>2
<1>6. ASSUME NEW j \in 1..(Len(q) - 1), j < i
      PROVE  r[j] = q[j]
  <2>1. j \in 1..(i - 1)
    BY <1>0, <1>6
  <2> QED
    BY <1>1, <1>4, <1>5, <1>6, <2>1
<1>7. ASSUME NEW j \in 1..(Len(q) - 1), ~(j < i)
      PROVE  r[j] = q[j + 1]
  <2>1. /\ ~(j <= i - 1) /\ j - (i - 1) \in 1..(Len(q) - i)
        /\ i + (j - (i - 1)) = j + 1
    BY <1>0, <1>7
  <2>2. r[j] = b[j - (i - 1)]
    BY <1>1, <1>4, <1>5, <1>7, <2>1, Zenon
  <2> QED
    BY <1>2, <2>1, <2>2, Zenon
<1>8. \A j \in 1..(Len(q) - 1) : r[j] = IF j < i THEN q[j] ELSE q[j + 1]
  BY <1>6, <1>7, Zenon
<1> QED
  BY <1>4, <1>5, <1>8, Zenon DEF r, a, b

\* A list without one of its tickets.
LEMMA WithoutIs ==
  ASSUME NEW S, NEW q \in Seq(S), Distinct(q), NEW e \in Range(q)
  PROVE  /\ Without(q, e) \in Seq(S) /\ Distinct(Without(q, e))
         /\ Range(Without(q, e)) = Range(q) \ {e}
<1> DEFINE i == CHOOSE i \in DOMAIN q : q[i] = e
           r == SubSeq(q, 1, i - 1) \o SubSeq(q, i + 1, Len(q))
<1>0. Len(q) \in Nat /\ DOMAIN q = 1..Len(q)
  OBVIOUS
<1>1. i \in 1..Len(q) /\ q[i] = e
  BY <1>0, Zenon DEF Range
<1>2. Without(q, e) = r
  BY Zenon DEF Without
<1> HIDE DEF i
<1>3. /\ r \in Seq(S) /\ Len(r) = Len(q) - 1
      /\ \A j \in 1..(Len(q) - 1) : r[j] = IF j < i THEN q[j] ELSE q[j + 1]
  BY <1>1, CutIs, Zenon
<1> HIDE DEF r
<1>4. DOMAIN r = 1..(Len(q) - 1)
  BY <1>0, <1>3
<1>5. Distinct(r)
  <2> SUFFICES ASSUME NEW j \in 1..(Len(q) - 1), NEW k \in 1..(Len(q) - 1), r[j] = r[k]
               PROVE  j = k
    BY <1>3, Zenon DEF Distinct
  <2> DEFINE J == IF j < i THEN j ELSE j + 1
             K == IF k < i THEN k ELSE k + 1
  <2>1. J \in 1..Len(q) /\ K \in 1..Len(q) /\ (J = K => j = k)
    BY <1>0, <1>1
  <2>2. q[J] = q[K]
    BY <1>3, Zenon
  <2> QED
    BY <2>1, <2>2, Zenon DEF Distinct
<1>6. ASSUME NEW j \in 1..(Len(q) - 1)
      PROVE  r[j] \in Range(q) \ {e}
  <2> DEFINE J == IF j < i THEN j ELSE j + 1
  <2>1. J \in 1..Len(q) /\ J # i
    BY <1>0, <1>1, <1>6
  <2>2. r[j] = q[J]
    BY <1>3, <1>6, Zenon
  <2> HIDE DEF J
  <2> QED
    BY <1>0, <1>1, <2>1, <2>2, Zenon DEF Distinct, Range
<1>7. ASSUME NEW x \in Range(q) \ {e}
      PROVE  \E j \in 1..(Len(q) - 1) : r[j] = x
  <2>1. PICK j \in 1..Len(q) : x = q[j] /\ j # i
    BY <1>0, <1>1, <1>7, Zenon DEF Range
  <2> DEFINE J == IF j < i THEN j ELSE j - 1
  <2>2. J \in 1..(Len(q) - 1) /\ (IF J < i THEN J ELSE J + 1) = j
    BY <1>0, <1>1, <2>1
  <2>3. r[J] = IF J < i THEN q[J] ELSE q[J + 1]
    BY <1>3, <2>2, Zenon
  <2> HIDE DEF J
  <2> QED
    BY <2>1, <2>2, <2>3
<1>8. Range(r) = Range(q) \ {e}
  BY <1>4, <1>6, <1>7, Zenon DEF Range
<1> QED
  BY <1>2, <1>3, <1>5, <1>8, Zenon

\* A ticket at the end of a list.
LEMMA AppendSet ==
  ASSUME NEW S, NEW q \in Seq(S), NEW e \in S
  PROVE  /\ Append(q, e) \in Seq(S)
         /\ Range(Append(q, e)) = Range(q) \cup {e}
         /\ Distinct(q) /\ e \notin Range(q) => Distinct(Append(q, e))
<1> DEFINE r == Append(q, e)
<1>1. /\ r \in Seq(S) /\ Len(r) = Len(q) + 1 /\ r[Len(q) + 1] = e
      /\ \A j \in 1..Len(q) : r[j] = q[j]
  OBVIOUS
<1> HIDE DEF r
<1>2. /\ Len(q) \in Nat /\ DOMAIN r = 1..(Len(q) + 1) /\ DOMAIN q = 1..Len(q)
      /\ 1..(Len(q) + 1) = 1..Len(q) \cup {Len(q) + 1}
  BY <1>1
<1>3. Range(r) = Range(q) \cup {e}
  <2>1. \A x : x \in Range(r) <=> \E j \in 1..(Len(q) + 1) : r[j] = x
    BY <1>2, Zenon DEF Range
  <2>2. \A x : x \in Range(q) <=> \E j \in 1..Len(q) : r[j] = x
    BY <1>1, <1>2, Zenon DEF Range
  <2>3. \A x : (\E j \in 1..(Len(q) + 1) : r[j] = x)
                 <=> (\E j \in 1..Len(q) : r[j] = x) \/ x = e
    BY <1>1, <1>2, Zenon
  <2> QED
    BY <2>1, <2>2, <2>3, Zenon
<1>4. ASSUME Distinct(q), e \notin Range(q)
      PROVE  Distinct(r)
  <2>1. \A j \in 1..Len(q) : q[j] # e
    BY <1>2, <1>4, Zenon DEF Range
  <2> QED
    BY <1>1, <1>2, <1>4, <2>1 DEF Distinct
<1> QED
  BY <1>1, <1>3, <1>4, Zenon DEF r

\* The tables of the code: who blocks is blocked, whoever waits for a waiting
\* type waits for it when it is granted, and no type waits for itself.
AllTypes == {"S", "SH", "SR", "SW", "SU", "SRO", "SNW", "SNRW", "X"}

\* The tables of compatibility: the first is symmetric, the second is part of it.
LEMMA Tables ==
  /\ \A a, b \in AllTypes : a \in granted_incompatible[b] <=> b \in granted_incompatible[a]
  /\ \A a \in AllTypes : /\ waiting_incompatible[a] \subseteq granted_incompatible[a]
                         /\ a \notin waiting_incompatible[a]
<1>1. ASSUME NEW a \in AllTypes, NEW b \in AllTypes
      PROVE  a \in granted_incompatible[b] <=> b \in granted_incompatible[a]
  BY DEF AllTypes, granted_incompatible
<1>2. ASSUME NEW a \in AllTypes
      PROVE  /\ waiting_incompatible[a] \subseteq granted_incompatible[a]
             /\ a \notin waiting_incompatible[a]
  BY DEF AllTypes, granted_incompatible, waiting_incompatible
<1> QED
  BY <1>1, <1>2, Zenon

-----------------------------------------------------------------------------
(* One lock *)

\* The type of a ticket is one of the tables.
LEMMA TypeOfTicket ==
  ASSUME NEW w \in Tickets
  PROVE  w[1] \in Context /\ w[2] \in Type /\ w[2] \in AllTypes /\ w = <<w[1], w[2]>>
<1>1. w[1] \in Context /\ w[2] \in Type
  BY DEF Tickets
<1>2. w = <<w[1], w[2]>>
  BY DEF Tickets
<1> QED
  BY <1>1, <1>2, MDLAssumption, Zenon DEF AllTypes

\* The fields of an MDL_lock.
LEMMA LockFields ==
  ASSUME NEW l \in Lock
  PROVE  /\ l.granted \subseteq Tickets /\ l.waiting \in Seq(Tickets)
         /\ l.bitmap \subseteq Type /\ l.count \in [Type -> Int] /\ l.hog \in 0..MaxHog
         /\ Range(l.waiting) \subseteq Tickets
<1>1. /\ l.granted \subseteq Tickets /\ l.waiting \in Seq(Tickets)
      /\ l.bitmap \subseteq Type /\ l.count \in [Type -> Int] /\ l.hog \in 0..MaxHog
  BY DEF Lock
<1>2. \A i \in DOMAIN l.waiting : l.waiting[i] \in Tickets
  BY <1>1
<1> QED
  BY <1>1, <1>2, Zenon DEF Range

\* The waiting ticket w leaves the lock.
LEMMA RemoveWaitingIs ==
  ASSUME NEW l \in Lock, Distinct(l.waiting), NEW w \in Tickets
  PROVE  LET m == remove_waiting(l, w)
         IN  /\ m \in Lock /\ Distinct(m.waiting)
             /\ Range(m.waiting) = Range(l.waiting) \ {w}
             /\ m.granted = l.granted \ {w} /\ m.hog = l.hog
             /\ m.bitmap = IF l.count[w[2]] = 1 THEN l.bitmap \ {w[2]} ELSE l.bitmap
             /\ m.count = [l.count EXCEPT ![w[2]] = @ - 1]
<1> DEFINE g == l.granted \ {w}
           q == Without(l.waiting, w)
           b == IF l.count[w[2]] = 1 THEN l.bitmap \ {w[2]} ELSE l.bitmap
           n == [l.count EXCEPT ![w[2]] = @ - 1]
           m == [granted |-> g, waiting |-> q, bitmap |-> b, count |-> n, hog |-> l.hog]
<1>0. /\ l.granted \subseteq Tickets /\ l.waiting \in Seq(Tickets)
      /\ l.bitmap \subseteq Type /\ l.count \in [Type -> Int] /\ l.hog \in 0..MaxHog
  BY LockFields, Zenon
<1>1. q \in Seq(Tickets) /\ Distinct(q) /\ Range(q) = Range(l.waiting) \ {w}
  <2>1. CASE w \in Range(l.waiting)
    BY <1>0, <2>1, WithoutIs, Zenon
  <2>2. CASE w \notin Range(l.waiting)
    <3>1. q = l.waiting
      BY <2>2, Zenon DEF Without
    <3> QED
      BY <1>0, <2>2, <3>1, Zenon
  <2> QED
    BY <2>1, <2>2, Zenon
<1>2. g \in SUBSET Tickets /\ b \in SUBSET Type
  BY <1>0, Zenon
<1>3. n \in [Type -> Int]
  BY <1>0, TypeOfTicket
<1> HIDE DEF g, q, b, n
<1>4. /\ remove_waiting(l, w).granted = g /\ remove_waiting(l, w).waiting = q
      /\ remove_waiting(l, w).bitmap = b /\ remove_waiting(l, w).count = n
      /\ remove_waiting(l, w).hog = l.hog
  BY DEF remove_waiting, g, q, b, n, Lock
<1>5. remove_waiting(l, w) \in Lock
  BY <1>1, <1>2, <1>3, <1>4, Zenon DEF remove_waiting, Lock
<1> QED
  BY <1>1, <1>4, <1>5, Zenon DEF g, b, n

-----------------------------------------------------------------------------
(* reschedule_waiters() *)

\* The ticket w cannot be granted.
Obstructed(l, w) == ~can_grant_lock(l, w, FALSE)

Result == [lock : Lock, wait : [Context -> Slot]]

\* The fields of what a round of reschedule_waiters() works on.
LEMMA ResultFields ==
  ASSUME NEW r \in Result
  PROVE  r.lock \in Lock /\ r.wait \in [Context -> Slot]
  BY DEF Result

\* What remains of the counter and the bitmap when w stops waiting.
Uncounted(l, m, w) ==
    /\ m.bitmap = IF l.count[w[2]] = 1 THEN l.bitmap \ {w[2]} ELSE l.bitmap
    /\ m.count = [l.count EXCEPT ![w[2]] = @ - 1]

\* A round of the loop: w is refused or granted.
LEMMA TryGrantIs ==
  ASSUME NEW r \in Result, Distinct(r.lock.waiting), NEW w \in Tickets,
         NEW skip \in BOOLEAN
  PROVE  LET e == TryGrant(r, w, skip)
         IN  \/ /\ e = r
                /\ ~skip /\ r.wait[w[1]] = "EMPTY" => Obstructed(r.lock, w)
             \/ /\ r.wait[w[1]] = "EMPTY" /\ Blocking(r.lock, w) = {}
                /\ e \in Result /\ Distinct(e.lock.waiting)
                /\ e.wait = [r.wait EXCEPT ![w[1]] = "GRANTED"]
                /\ Range(e.lock.waiting) = Range(r.lock.waiting) \ {w}
                /\ e.lock.granted = r.lock.granted \cup {w}
                /\ Uncounted(r.lock, e.lock, w)
<1> DEFINE strong == w[2] \in hog_lock_types
           go == /\ ~(skip /\ strong) /\ can_grant_lock(r.lock, w, skip)
                 /\ r.wait[w[1]] = "EMPTY"
           m == remove_waiting(r.lock, w)
           h == IF strong THEN Count(m.hog) ELSE m.hog
           l == [m EXCEPT !.granted = @ \cup {w}, !.hog = h]
           e == [lock |-> l, wait |-> [r.wait EXCEPT ![w[1]] = "GRANTED"]]
<1>1. TryGrant(r, w, skip) = IF go THEN e ELSE r
  BY Zenon DEF TryGrant
<1>2. CASE ~go
  BY <1>1, <1>2, Zenon DEF Obstructed, can_grant_lock
<1>3. CASE go
  <2>1. r.lock \in Lock /\ r.wait \in [Context -> Slot]
    BY ResultFields, Zenon
  <2>2. /\ m \in Lock /\ Distinct(m.waiting)
        /\ Range(m.waiting) = Range(r.lock.waiting) \ {w}
        /\ m.granted = r.lock.granted \ {w} /\ Uncounted(r.lock, m, w)
    BY <2>1, RemoveWaitingIs, Zenon DEF Uncounted
  <2> HIDE DEF m
  <2>3. h \in 0..MaxHog
    BY <2>2, LockFields, MDLAssumption DEF Count
  <2> HIDE DEF h
  <2>4. /\ l.granted = m.granted \cup {w} /\ l.hog = h /\ l.waiting = m.waiting
        /\ l.bitmap = m.bitmap /\ l.count = m.count
    BY <2>2 DEF Lock
  <2>5. m.granted \cup {w} \in SUBSET Tickets
    BY <2>2, LockFields, Zenon
  <2>6. l \in Lock
    BY <2>2, <2>3, <2>5, Zenon DEF Lock
  <2>7. [r.wait EXCEPT ![w[1]] = "GRANTED"] \in [Context -> Slot]
    BY <2>1, TypeOfTicket, Zenon DEF Slot
  <2> HIDE DEF l
  <2>8. /\ e \in Result /\ e.lock = l
        /\ e.wait = [r.wait EXCEPT ![w[1]] = "GRANTED"]
    BY <2>6, <2>7 DEF Result
  <2>9. l.granted = r.lock.granted \cup {w}
    BY <2>2, <2>4, Zenon
  <2>10. Uncounted(r.lock, l, w)
    BY <2>2, <2>4, Zenon DEF Uncounted
  <2>11. Blocking(r.lock, w) = {}
    BY <1>3, Zenon DEF can_grant_lock
  <2> HIDE DEF e
  <2> QED
    BY <1>1, <1>3, <2>2, <2>4, <2>8, <2>9, <2>10, <2>11, Zenon
<1> QED
  BY <1>2, <1>3, Zenon

\* A ticket that nobody blocks joins the granted ones.
LEMMA GrantCompatible ==
  ASSUME NEW l \in Lock, Compatible(l.granted), NEW w \in Tickets, Blocking(l, w) = {}
  PROVE  Compatible(l.granted \cup {w})
<1>1. \A g \in l.granted : g[1] # w[1] => g[2] \notin granted_incompatible[w[2]]
  BY Zenon DEF Blocking
<1>2. \A g \in l.granted : g[1] # w[1] => w[2] \notin granted_incompatible[g[2]]
  BY <1>1, LockFields, TypeOfTicket, Tables, Zenon
<1> QED
  BY <1>1, <1>2, Zenon DEF Compatible

\* What reschedule_waiters() may start from.
Startable(s) ==
    /\ s \in Result /\ Distinct(s.lock.waiting) /\ Compatible(s.lock.granted)
    /\ \A v, w \in Range(s.lock.waiting) : v[1] = w[1] => v = w

\* Between s and r the ticket w was granted.
GrantedSince(s, r, w) ==
    /\ w \in Range(s.lock.waiting)
    /\ s.wait[w[1]] = "EMPTY" /\ r.wait[w[1]] = "GRANTED"

\* All that has happened since s is that waiting tickets were granted.
Since(s, r) ==
    /\ r \in Result /\ Distinct(r.lock.waiting) /\ Compatible(r.lock.granted)
    /\ \A c \in Context :
         \/ r.wait[c] = s.wait[c]
         \/ \E w \in Range(s.lock.waiting) : w[1] = c /\ GrantedSince(s, r, w)
    /\ \A w \in Tickets :
         /\ w \in r.lock.granted <=> w \in s.lock.granted \/ GrantedSince(s, r, w)
         /\ w \in Range(r.lock.waiting) <=>
              w \in Range(s.lock.waiting) /\ ~GrantedSince(s, r, w)

\* Before the first round nothing has changed.
LEMMA SinceStart ==
  ASSUME NEW s, Startable(s)
  PROVE  Since(s, s)
<1>1. \A w : ~GrantedSince(s, s, w)
  BY Zenon DEF GrantedSince
<1> QED
  BY <1>1, Zenon DEF Startable, Since

\* One round grants a ticket that waits, or nothing.
LEMMA SinceTry ==
  ASSUME NEW s, NEW r, Startable(s), Since(s, r), NEW skip \in BOOLEAN,
         NEW w \in Range(s.lock.waiting)
  PROVE  Since(s, TryGrant(r, w, skip))
<1> DEFINE e == TryGrant(r, w, skip)
<1>0. s.lock \in Lock /\ s.wait \in [Context -> Slot] /\ w \in Tickets
  BY ResultFields, LockFields, Zenon DEF Startable
<1>1. /\ r \in Result /\ r.lock \in Lock /\ r.wait \in [Context -> Slot]
      /\ Distinct(r.lock.waiting) /\ Compatible(r.lock.granted) /\ w[1] \in Context
  BY <1>0, ResultFields, TypeOfTicket, Zenon DEF Since
<1>2. CASE e = r
  BY <1>2, Zenon
<1>3. CASE /\ r.wait[w[1]] = "EMPTY" /\ Blocking(r.lock, w) = {}
           /\ e \in Result /\ Distinct(e.lock.waiting)
           /\ e.wait = [r.wait EXCEPT ![w[1]] = "GRANTED"]
           /\ Range(e.lock.waiting) = Range(r.lock.waiting) \ {w}
           /\ e.lock.granted = r.lock.granted \cup {w}
  <2> HIDE DEF e
  <2>1. e.wait[w[1]] = "GRANTED" /\ \A c \in Context \ {w[1]} : e.wait[c] = r.wait[c]
    BY <1>1, <1>3, Zenon
  <2>2. s.wait[w[1]] = "EMPTY"
    BY <1>1, <1>3, Zenon DEF Since, GrantedSince
  <2>3. GrantedSince(s, e, w)
    BY <2>1, <2>2, Zenon DEF GrantedSince
  <2>4. \A v \in Tickets : v # w => (GrantedSince(s, e, v) <=> GrantedSince(s, r, v))
    <3> SUFFICES ASSUME NEW v \in Tickets, v # w
                 PROVE  GrantedSince(s, e, v) <=> GrantedSince(s, r, v)
      BY Zenon
    <3>1. CASE v[1] = w[1]
      BY <3>1, Zenon DEF GrantedSince, Startable
    <3>2. CASE v[1] # w[1]
      <4>1. e.wait[v[1]] = r.wait[v[1]]
        BY <2>1, <3>2, TypeOfTicket, Zenon
      <4> QED
        BY <4>1, Zenon DEF GrantedSince
    <3> QED
      BY <3>1, <3>2, Zenon
  <2>5. Compatible(e.lock.granted)
    <3>1. e.lock.granted = r.lock.granted \cup {w}
      BY <1>3, Zenon
    <3>2. Compatible(r.lock.granted \cup {w})
      BY <1>0, <1>1, <1>3, GrantCompatible
    <3> QED
      BY <3>1, <3>2, Zenon
  <2>6. ASSUME NEW c \in Context
        PROVE  \/ e.wait[c] = s.wait[c]
               \/ \E v \in Range(s.lock.waiting) : v[1] = c /\ GrantedSince(s, e, v)
    <3>1. CASE c = w[1]
      BY <2>3, <3>1, Zenon
    <3>2. CASE c # w[1] /\ r.wait[c] = s.wait[c]
      BY <2>1, <3>2, Zenon
    <3>3. CASE c # w[1] /\ r.wait[c] # s.wait[c]
      <4>1. PICK v \in Range(s.lock.waiting) : v[1] = c /\ GrantedSince(s, r, v)
        BY <3>3, Zenon DEF Since
      <4>2. v \in Tickets
        BY <1>0, LockFields, Zenon
      <4> QED
        BY <2>4, <3>3, <4>1, <4>2, Zenon
    <3> QED
      BY <3>1, <3>2, <3>3, Zenon
  <2>7. ASSUME NEW v \in Tickets
        PROVE  /\ v \in e.lock.granted <=> v \in s.lock.granted \/ GrantedSince(s, e, v)
               /\ v \in Range(e.lock.waiting) <=>
                    v \in Range(s.lock.waiting) /\ ~GrantedSince(s, e, v)
    <3>1. /\ v \in r.lock.granted <=> v \in s.lock.granted \/ GrantedSince(s, r, v)
          /\ v \in Range(r.lock.waiting) <=>
               v \in Range(s.lock.waiting) /\ ~GrantedSince(s, r, v)
      BY Zenon DEF Since
    <3> QED
      BY <1>3, <2>3, <2>4, <3>1, Zenon
  <2>8. Since(s, e)
    <3>1. e \in Result /\ Distinct(e.lock.waiting)
      BY <1>3, Zenon
    <3>2. \A c \in Context :
            \/ e.wait[c] = s.wait[c]
            \/ \E v \in Range(s.lock.waiting) : v[1] = c /\ GrantedSince(s, e, v)
      BY <2>6, Zenon
    <3>3. \A v \in Tickets :
            /\ v \in e.lock.granted <=> v \in s.lock.granted \/ GrantedSince(s, e, v)
            /\ v \in Range(e.lock.waiting) <=>
                 v \in Range(s.lock.waiting) /\ ~GrantedSince(s, e, v)
      BY <2>7, Zenon
    <3> QED
      BY <2>5, <3>1, <3>2, <3>3, Zenon DEF Since
  <2> QED
    BY <2>8, Zenon DEF e
<1> QED
  BY <1>0, <1>1, <1>2, <1>3, TryGrantIs, Zenon

\* The rounds of the loop, one after the other.
LEMMA RoundsIs ==
  ASSUME NEW s, NEW skip, NEW n \in Nat, n = Len(s.lock.waiting)
  PROVE  /\ Rounds(s, skip)[0] = s
         /\ \A i \in 1..n : Rounds(s, skip)[i] =
              TryGrant(Rounds(s, skip)[i - 1], s.lock.waiting[i], skip)
<1> DEFINE Round(f, i) == IF i = 0 THEN s ELSE TryGrant(f[i - 1], s.lock.waiting[i], skip)
           Is(f, m) == f = [i \in 0..m |-> Round(f, i)]
           S == {m \in Nat : \E f : Is(f, m)}
<1>1. 0 \in S
  <2>1. Is([i \in 0..0 |-> s], 0)
    BY 0..0 = {0}
  <2> QED
    BY <2>1, Zenon
<1>2. ASSUME NEW m \in Nat, m \in S
      PROVE  m + 1 \in S
  <2>1. PICK f : Is(f, m)
    BY <1>2, Zenon
  <2> DEFINE g == [i \in 0..(m + 1) |-> IF i = m + 1
                                         THEN TryGrant(f[m], s.lock.waiting[m + 1], skip)
                                         ELSE f[i]]
  <2>2. /\ m + 1 \in Nat /\ m + 1 # 0 /\ (m + 1) - 1 = m /\ m \in 0..(m + 1) /\ m # m + 1
        /\ \A i \in 0..(m + 1) : i = m + 1 \/ i \in 0..m
        /\ \A i \in 0..m : i = 0 \/ (i - 1 \in 0..(m + 1) /\ i - 1 # m + 1)
    OBVIOUS
  <2>3. ASSUME NEW i \in 0..(m + 1)
        PROVE  g[i] = Round(g, i)
    <3>1. CASE i = m + 1
      BY <2>2, <3>1, Zenon
    <3>2. CASE i # m + 1
      <4>1. i \in 0..m /\ g[i] = f[i] /\ f[i] = Round(f, i)
        BY <2>1, <2>2, <3>2, Zenon
      <4>2. i = 0 \/ g[i - 1] = f[i - 1]
        BY <2>2, <4>1, Zenon
      <4> QED
        BY <4>1, <4>2, Zenon
    <3> QED
      BY <3>1, <3>2, Zenon
  <2>4. Is(g, m + 1)
    BY <2>3, Zenon
  <2> QED
    BY <2>2, <2>4, Zenon
<1>3. n \in S
  <2> HIDE DEF S
  <2> QED
    BY <1>1, <1>2, Induction, Zenon
<1>4. Rounds(s, skip) = CHOOSE f : Is(f, n)
  BY Zenon DEF Rounds
<1>5. Is(Rounds(s, skip), n)
  BY <1>3, <1>4, Zenon
<1> HIDE DEF Round
<1>6. \A i \in 0..n : Rounds(s, skip)[i] = Round(Rounds(s, skip), i)
  BY <1>5, Zenon
<1>7. 0 \in 0..n /\ \A i \in 1..n : i \in 0..n /\ i # 0
  OBVIOUS
<1> QED
  BY <1>6, <1>7, Zenon DEF Round

\* The same of any number of rounds, by induction.
LEMMA RoundsSince ==
  ASSUME NEW s, Startable(s), NEW skip \in BOOLEAN, NEW n \in Nat,
         n = Len(s.lock.waiting)
  PROVE  \A i \in 0..n : Since(s, Rounds(s, skip)[i])
<1> DEFINE R == Rounds(s, skip)
           S == {i \in Nat : i <= n => Since(s, R[i])}
<1>0. \A i \in 1..n : s.lock.waiting[i] \in Range(s.lock.waiting)
  <2>1. s.lock.waiting \in Seq(Tickets)
    BY ResultFields, LockFields, Zenon DEF Startable
  <2>2. DOMAIN s.lock.waiting = 1..n
    BY <2>1
  <2> QED
    BY <2>2, Zenon DEF Range
<1>1. /\ R[0] = s
      /\ \A i \in 1..n : R[i] = TryGrant(R[i - 1], s.lock.waiting[i], skip)
  BY RoundsIs
<1> HIDE DEF R
<1>2. 0 \in S
  BY <1>1, SinceStart, Zenon
<1>3. ASSUME NEW i \in Nat, i \in S
      PROVE  i + 1 \in S
  <2>1. /\ i + 1 \in Nat /\ (i + 1) - 1 = i
        /\ i + 1 <= n => i <= n /\ i + 1 \in 1..n
    OBVIOUS
  <2>2. ASSUME i + 1 <= n
        PROVE  Since(s, R[i + 1])
    <3>1. Since(s, R[i]) /\ s.lock.waiting[i + 1] \in Range(s.lock.waiting)
      BY <1>0, <1>3, <2>1, <2>2, Zenon
    <3>2. R[i + 1] = TryGrant(R[i], s.lock.waiting[i + 1], skip)
      BY <1>1, <2>1, <2>2, Zenon
    <3>3. Since(s, TryGrant(R[i], s.lock.waiting[i + 1], skip))
      BY <3>1, SinceTry
    <3> QED
      BY <3>2, <3>3, Zenon
  <2> QED
    BY <2>1, <2>2, Zenon
<1>4. Nat \subseteq S
  <2> HIDE DEF S
  <2> QED
    BY <1>2, <1>3, Induction, Zenon
<1>5. \A i \in 0..n : i \in Nat /\ i <= n
  OBVIOUS
<1> QED
  BY <1>4, <1>5, Zenon DEF R

\* The end of reschedule_waiters(), where m_hog_lock_count may be reset.
LEMMA HogReset ==
  ASSUME NEW r \in Result
  PROVE  LET e == [r EXCEPT !.lock.hog = 0]
         IN  /\ e \in Result /\ e.wait = r.wait
             /\ e.lock.granted = r.lock.granted /\ e.lock.waiting = r.lock.waiting
             /\ e.lock.bitmap = r.lock.bitmap /\ e.lock.count = r.lock.count
<1> DEFINE l == [r.lock EXCEPT !.hog = 0]
           e == [r EXCEPT !.lock.hog = 0]
<1>1. r.lock \in Lock /\ r.wait \in [Context -> Slot]
  BY ResultFields, Zenon
<1>2. 0 \in 0..MaxHog
  BY MDLAssumption
<1>3. l \in Lock
  BY <1>1, <1>2, Zenon DEF Lock
<1>4. /\ l.granted = r.lock.granted /\ l.waiting = r.lock.waiting
      /\ l.bitmap = r.lock.bitmap /\ l.count = r.lock.count
  BY <1>1 DEF Lock
<1>5. e.wait = r.wait /\ e.lock = l
  BY DEF Result
<1>6. e \in Result
  BY <1>3, <1>5, Zenon DEF Result
<1> QED
  BY <1>4, <1>5, <1>6, Zenon

\* The rounds, and the end of the loop.
LEMMA RescheduleIs ==
  ASSUME NEW s, Startable(s)
  PROVE  LET n == Len(s.lock.waiting)
             r == reschedule_waiters(s)
         IN  \E skip \in BOOLEAN :
               LET end == Rounds(s, skip)[n]
               IN  /\ n \in Nat /\ Since(s, end) /\ r \in Result /\ r.wait = end.wait
                   /\ r.lock.granted = end.lock.granted
                   /\ r.lock.waiting = end.lock.waiting
                   /\ r.lock.bitmap = end.lock.bitmap /\ r.lock.count = end.lock.count
                   /\ skip => s.lock.hog >= max_write_lock_count
<1> DEFINE n == Len(s.lock.waiting)
           skip == /\ s.lock.hog >= max_write_lock_count
                   /\ s.lock.bitmap \ hog_lock_types # {}
           end == Rounds(s, skip)[n]
           r == reschedule_waiters(s)
<1>1. r = IF end.lock.bitmap \subseteq hog_lock_types
            THEN [end EXCEPT !.lock.hog = 0] ELSE end
  BY Zenon DEF reschedule_waiters
<1>2. n \in Nat
  <2>1. s.lock.waiting \in Seq(Tickets)
    BY ResultFields, LockFields, Zenon DEF Startable
  <2> QED
    BY <2>1
<1>3. skip \in BOOLEAN /\ (skip => s.lock.hog >= max_write_lock_count)
  BY Zenon
<1> HIDE DEF skip, r
<1>4. Since(s, end)
  <2>1. n \in 0..n
    BY <1>2
  <2> QED
    BY <1>2, <1>3, <2>1, RoundsSince, Zenon
<1>5. end \in Result
  BY <1>4, Zenon DEF Since
<1> HIDE DEF end
<1>6. /\ r \in Result /\ r.wait = end.wait
      /\ r.lock.granted = end.lock.granted /\ r.lock.waiting = end.lock.waiting
      /\ r.lock.bitmap = end.lock.bitmap /\ r.lock.count = end.lock.count
  BY <1>1, <1>5, HogReset, Zenon
<1> QED
  BY <1>2, <1>3, <1>4, <1>6, Zenon DEF end, r

\* The same of reschedule_waiters() as a whole.
LEMMA RescheduleSince ==
  ASSUME NEW s, Startable(s)
  PROVE  Since(s, reschedule_waiters(s))
<1> DEFINE r == reschedule_waiters(s)
<1>1. PICK skip \in BOOLEAN :
         LET end == Rounds(s, skip)[Len(s.lock.waiting)]
         IN  /\ Since(s, end) /\ r \in Result /\ r.wait = end.wait
             /\ r.lock.granted = end.lock.granted
             /\ r.lock.waiting = end.lock.waiting
  BY RescheduleIs, Zenon
<1> DEFINE end == Rounds(s, skip)[Len(s.lock.waiting)]
<1> HIDE DEF r, end
<1>2. /\ Since(s, end) /\ r \in Result /\ r.wait = end.wait
      /\ r.lock.granted = end.lock.granted /\ r.lock.waiting = end.lock.waiting
  BY <1>1, Zenon DEF end
<1>3. \A w : GrantedSince(s, r, w) <=> GrantedSince(s, end, w)
  BY <1>2, Zenon DEF GrantedSince
<1>4. Since(s, r)
  BY <1>2, <1>3, Zenon DEF Since
<1> QED
  BY <1>4, Zenon DEF r

-----------------------------------------------------------------------------
(* The tickets after reschedule_waiters() *)

\* The tickets for lock k, in the state that s has in its place, with the tickets
\* and the calls that the contexts have.
AllFit(s, k, has, calls) ==
    \A c \in Context, t \in Type :
        Fits(<<k, t>> \in has[c], <<c, t>> \in s.lock.granted,
             <<c, t>> \in Range(s.lock.waiting), Own(calls[c], k, t), s.wait[c])

\* A context waits at most once in a lock.
LEMMA OneEach ==
  ASSUME NEW s \in Result, NEW k, NEW has, NEW calls, AllFit(s, k, has, calls),
         Distinct(s.lock.waiting), Compatible(s.lock.granted)
  PROVE  /\ Startable(s)
         /\ \A w \in Range(s.lock.waiting) :
              Own(calls[w[1]], k, w[2]) /\ s.wait[w[1]] # "GRANTED"
<1>1. ASSUME NEW w \in Range(s.lock.waiting)
      PROVE  /\ w[1] \in Context /\ w = <<w[1], w[2]>>
             /\ Own(calls[w[1]], k, w[2]) /\ s.wait[w[1]] # "GRANTED"
  <2>1. w \in Tickets
    BY ResultFields, LockFields, Zenon
  <2>2. w[1] \in Context /\ w[2] \in Type /\ w = <<w[1], w[2]>>
    BY <2>1, TypeOfTicket, Zenon
  <2> QED
    BY <2>2, Zenon DEF AllFit, Fits
<1>2. ASSUME NEW v \in Range(s.lock.waiting), NEW w \in Range(s.lock.waiting), v[1] = w[1]
      PROVE  v = w
  <2>1. v[2] = w[2]
    BY <1>1, <1>2, Zenon DEF Own
  <2> QED
    BY <1>1, <1>2, <2>1, Zenon
<1> QED
  BY <1>1, <1>2, Zenon DEF Startable

\* Granting keeps the tickets in order, in this lock ...
LEMMA FitsSince ==
  ASSUME NEW s \in Result, NEW k, NEW has, NEW calls, AllFit(s, k, has, calls),
         Distinct(s.lock.waiting),
         Compatible(s.lock.granted), NEW r, Since(s, r)
  PROVE  AllFit(r, k, has, calls)
<1> SUFFICES ASSUME NEW c \in Context, NEW t \in Type
             PROVE  Fits(<<k, t>> \in has[c], <<c, t>> \in r.lock.granted,
                         <<c, t>> \in Range(r.lock.waiting), Own(calls[c], k, t), r.wait[c])
  BY Zenon DEF AllFit
<1> DEFINE w == <<c, t>>
<1>1. w \in Tickets /\ w[1] = c /\ w[2] = t
  BY DEF Tickets
<1>2. Fits(<<k, t>> \in has[c], w \in s.lock.granted,
           w \in Range(s.lock.waiting), Own(calls[c], k, t), s.wait[c])
  BY Zenon DEF AllFit
<1>3. /\ w \in r.lock.granted <=> w \in s.lock.granted \/ GrantedSince(s, r, w)
      /\ w \in Range(r.lock.waiting) <=>
           w \in Range(s.lock.waiting) /\ ~GrantedSince(s, r, w)
  BY <1>1, Zenon DEF Since
<1> HIDE DEF w
<1>4. CASE GrantedSince(s, r, w)
  <2>1. Own(calls[c], k, t) /\ r.wait[c] = "GRANTED" /\ w \in Range(s.lock.waiting)
    BY <1>1, <1>2, <1>4, Zenon DEF Fits, GrantedSince
  <2> QED
    BY <1>2, <1>3, <1>4, <2>1, Zenon DEF Fits, w
<1>5. CASE ~GrantedSince(s, r, w) /\ ~Own(calls[c], k, t)
  BY <1>2, <1>3, <1>5, Zenon DEF Fits, w
<1>6. CASE ~GrantedSince(s, r, w) /\ Own(calls[c], k, t)
  <2>1. r.wait[c] = s.wait[c]
    <3> SUFFICES ASSUME r.wait[c] # s.wait[c] PROVE FALSE
      BY Zenon
    <3>1. PICK v \in Range(s.lock.waiting) : v[1] = c /\ GrantedSince(s, r, v)
      BY Zenon DEF Since
    <3>2. Own(calls[v[1]], k, v[2])
      BY OneEach, Zenon
    <3>3. v = w
      <4>1. v \in Tickets
        BY ResultFields, LockFields, Zenon
      <4>2. v = <<v[1], v[2]>>
        BY <4>1, TypeOfTicket, Zenon
      <4> QED
        BY <1>6, <3>1, <3>2, <4>2, Zenon DEF Own, w
    <3> QED
      BY <1>6, <3>1, <3>3, Zenon
  <2> QED
    BY <1>2, <1>3, <1>6, <2>1, Zenon DEF Fits, w
<1> QED
  BY <1>4, <1>5, <1>6, Zenon

\* ... and only a pending call of this lock notices.
LEMMA SlotsSince ==
  ASSUME NEW s \in Result, NEW k, NEW has, NEW calls, AllFit(s, k, has, calls),
         Distinct(s.lock.waiting),
         Compatible(s.lock.granted), NEW r, Since(s, r), NEW c \in Context,
         r.wait[c] # s.wait[c]
  PROVE  /\ calls[c].pc \in Pending /\ calls[c].key = k
         /\ s.wait[c] = "EMPTY" /\ r.wait[c] = "GRANTED"
<1>1. PICK v \in Range(s.lock.waiting) : v[1] = c /\ GrantedSince(s, r, v)
  BY Zenon DEF Since
<1>2. Own(calls[v[1]], k, v[2])
  BY OneEach, Zenon
<1> QED
  BY <1>1, <1>2, Zenon DEF Own, GrantedSince

-----------------------------------------------------------------------------
(* Steps *)

\* remove_ticket() of a lock leaves the tickets in order, if they were when the
\* ticket had just left its list.
LEMMA RemovedKeeps ==
  ASSUME NEW k \in Key, NEW l \in Lock, NEW wt \in [Context -> Slot],
         Removed(k, l, wt), lock \in [Key -> Lock],
         Distinct(l.waiting), Compatible(l.granted),
         \A j \in Key \ {k} : Distinct(lock[j].waiting) /\ Compatible(lock[j].granted),
         AllFit([lock |-> l, wait |-> wt], k, m_tickets', call'),
         \A j \in Key \ {k} :
             AllFit([lock |-> lock[j], wait |-> wt], j, m_tickets', call')
  PROVE  /\ lock' \in [Key -> Lock] /\ m_wait' \in [Context -> Slot]
         /\ \A c \in Context, j \in Key, t \in Type : TicketOK(c, j, t)'
         /\ \A j \in Key : Distinct(lock'[j].waiting) /\ Compatible(lock'[j].granted)
         /\ \A c \in Context : \/ m_wait'[c] = wt[c]
                               \/ /\ call'[c].pc \in Pending
                                  /\ wt[c] = "EMPTY" /\ m_wait'[c] = "GRANTED"
<1> DEFINE s == [lock |-> l, wait |-> wt]
<1>1. s \in Result /\ s.lock = l /\ s.wait = wt
  BY DEF Result
<1>2. PICK r : Since(s, r) /\ lock' = [lock EXCEPT ![k] = r.lock] /\ m_wait' = r.wait
  <2>1. Startable(s)
    BY <1>1, OneEach, Zenon
  <2>2. Since(s, s) /\ Since(s, reschedule_waiters(s))
    BY <2>1, SinceStart, RescheduleSince, Zenon
  <2> QED
    BY <2>2, Zenon DEF Removed
<1>3. /\ r \in Result /\ r.lock \in Lock /\ r.wait \in [Context -> Slot]
      /\ Distinct(r.lock.waiting) /\ Compatible(r.lock.granted)
  BY <1>2, ResultFields, Zenon DEF Since
<1>4. /\ lock'[k] = r.lock /\ \A j \in Key \ {k} : lock'[j] = lock[j]
      /\ lock' \in [Key -> Lock]
  BY <1>2, <1>3, Zenon
<1>5. AllFit(s, k, m_tickets', call')
  BY Zenon
<1> HIDE DEF s
<1>6. AllFit(r, k, m_tickets', call')
  BY <1>1, <1>2, <1>5, FitsSince, Zenon
<1>7. ASSUME NEW c \in Context, m_wait'[c] # wt[c]
      PROVE  /\ call'[c].pc \in Pending /\ call'[c].key = k
             /\ wt[c] = "EMPTY" /\ m_wait'[c] = "GRANTED"
  <2>1. /\ Distinct(s.lock.waiting) /\ Compatible(s.lock.granted)
        /\ Since(s, r) /\ r.wait[c] # s.wait[c]
    BY <1>1, <1>2, <1>7, Zenon
  <2>2. /\ call'[c].pc \in Pending /\ call'[c].key = k
        /\ s.wait[c] = "EMPTY" /\ r.wait[c] = "GRANTED"
    BY <1>1, <1>5, <2>1, SlotsSince, Zenon
  <2> QED
    BY <1>1, <1>2, <2>2, Zenon
<1>8. ASSUME NEW c \in Context, NEW j \in Key, NEW t \in Type
      PROVE  TicketOK(c, j, t)'
  <2>1. CASE j = k
    BY <1>2, <1>4, <1>6, <2>1, Zenon DEF AllFit, TicketOK
  <2>2. CASE j # k
    <3>1. Fits(<<j, t>> \in m_tickets'[c], <<c, t>> \in lock[j].granted,
               <<c, t>> \in Range(lock[j].waiting), Own(call'[c], j, t), wt[c])
      BY <2>2 DEF AllFit
    <3>2. m_wait'[c] = wt[c] \/ ~Own(call'[c], j, t)
      BY <1>7, <2>2, Zenon DEF Own
    <3> QED
      BY <1>4, <2>2, <3>1, <3>2, Zenon DEF TicketOK, Fits
  <2> QED
    BY <2>1, <2>2, Zenon
<1>9. \A j \in Key : Distinct(lock'[j].waiting) /\ Compatible(lock'[j].granted)
  BY <1>3, <1>4, Zenon
<1> QED
  BY <1>2, <1>3, <1>4, <1>7, <1>8, <1>9, Zenon

\* The fields of a call.
LEMMA CallFields ==
  ASSUME NEW p \in Call
  PROVE  /\ p.pc \in Pending \cup {"idle", "merge"} /\ p.key \in Key \cup {None}
         /\ p.type \in Type \cup {None} /\ p.old \in Type \cup {None}
  BY DEF Call

\* A context without a call.
LEMMA NoCallIs == NoCall \in Call /\ NoCall.pc = "idle"
  BY DEF NoCall, Call

\* A call goes on.
LEMMA CallGoto ==
  ASSUME call \in [Context -> Call], NEW c \in Context,
         NEW pc \in Pending \cup {"idle", "merge"}, call' = [call EXCEPT ![c].pc = pc]
  PROVE  /\ call' \in [Context -> Call] /\ \A d \in Context \ {c} : call'[d] = call[d]
         /\ call'[c].pc = pc /\ call'[c].key = call[c].key
         /\ call'[c].type = call[c].type /\ call'[c].old = call[c].old
<1> DEFINE p == [call[c] EXCEPT !.pc = pc]
<1>1. call[c] \in Call /\ call' = [call EXCEPT ![c] = p]
  BY Zenon
<1>2. /\ p.pc = pc /\ p.key = call[c].key /\ p.type = call[c].type
      /\ p.old = call[c].old
  BY <1>1 DEF Call
<1>3. p \in Call
  BY <1>1, Zenon DEF Call
<1> HIDE DEF p
<1>4. /\ call' \in [Context -> Call] /\ call'[c] = p
      /\ \A d \in Context \ {c} : call'[d] = call[d]
  BY <1>1, <1>3, Zenon
<1> QED
  BY <1>2, <1>4, Zenon

\* A step that moves no ticket and sends no grant.
LEMMA QuietKeeps ==
  ASSUME MDLInv, UNCHANGED <<lock, m_tickets>>, call' \in [Context -> Call],
         m_wait' \in [Context -> Slot],
         \A c \in Context : /\ call'[c].pc \in Pending <=> call[c].pc \in Pending
                            /\ call'[c].key = call[c].key /\ call'[c].type = call[c].type
                            /\ m_wait'[c] = "GRANTED" <=> m_wait[c] = "GRANTED"
  PROVE  /\ \A c \in Context, k \in Key, t \in Type : TicketOK(c, k, t)'
         /\ \A k \in Key : Distinct(lock'[k].waiting) /\ Compatible(lock'[k].granted)
<1>1. lock' = lock /\ m_tickets' = m_tickets
  OBVIOUS
<1>2. \A k \in Key : Distinct(lock'[k].waiting) /\ Compatible(lock'[k].granted)
  BY <1>1, Zenon DEF MDLInv
<1>3. ASSUME NEW c \in Context, NEW k \in Key, NEW t \in Type
      PROVE  TicketOK(c, k, t)'
  <2>1. TicketOK(c, k, t)
    BY Zenon DEF MDLInv
  <2>2. Own(call'[c], k, t) <=> Own(call[c], k, t)
    BY Zenon DEF Own
  <2> QED
    BY <1>1, <2>1, <2>2, Zenon DEF TicketOK, Fits
<1> QED
  BY <1>2, <1>3, Zenon

\* A step of c that leaves the calls and searches of the others alone.
LEMMA OthersKeep ==
  ASSUME MDLInv, NEW c \in Context,
         \A d \in Context \ {c} : /\ call'[d] = call[d] /\ search'[d] = search[d]
                                  /\ m_waiting_for'[d] = m_waiting_for[d]
                                  /\ m_wait'[d] = m_wait[d] \/ call[d].pc \in Pending,
         CallOK(c)'
  PROVE  \A d \in Context : CallOK(d)'
<1> SUFFICES ASSUME NEW d \in Context \ {c} PROVE CallOK(d)'
  BY Zenon
<1>1. CallOK(d)
  BY Zenon DEF MDLInv
<1> QED
  BY <1>1, Zenon DEF CallOK

\* What a pending call knows of its ticket.
LEMMA PendingHas ==
  ASSUME MDLInv, NEW c \in Context, call[c].pc # "idle"
  PROVE  call[c].key \in Key /\ call[c].type \in Type /\ lock[call[c].key] \in Lock
  BY Zenon DEF MDLInv, CallOK, Types

-----------------------------------------------------------------------------
(* The search for deadlocks *)

\* The fields of a search.
LEMMA SearchFields ==
  ASSUME NEW x \in Search
  PROVE  x.path \in Seq(Node) /\ x.victim \in Context \cup {None}
  BY DEF Search

\* A search with the path q and the victim v.
LEMMA NewSearch ==
  ASSUME NEW q \in Seq(Node), NEW v \in Context \cup {None}
  PROVE  /\ [path |-> q, victim |-> v] \in Search
         /\ [path |-> q, victim |-> v].path = q
         /\ [path |-> q, victim |-> v].victim = v
  BY DEF Search

\* What a path consists of.
LEMMA PathIs ==
  ASSUME NEW q \in Seq(Node)
  PROVE  /\ Len(q) \in Nat /\ <<>> \in Seq(Node) /\ Len(<<>>) = 0
         /\ \A x \in Node : Append(q, x) \in Seq(Node)
         /\ \A i \in DOMAIN q : q[i].ctx \in Context
<1>1. \A i \in DOMAIN q : q[i] \in Node
  OBVIOUS
<1>2. \A x \in Node : x.ctx \in Context
  BY DEF Node
<1>3. /\ Len(q) \in Nat /\ <<>> \in Seq(Node) /\ Len(<<>>) = 0
      /\ \A x \in Node : Append(q, x) \in Seq(Node)
  OBVIOUS
<1> QED
  BY <1>1, <1>2, <1>3, Zenon

\* Working on the last node of a path, and leaving it.
LEMMA LastNode ==
  ASSUME NEW q \in Seq(Node), q # <<>>, NEW x
  PROVE  /\ q[Len(q)].todo \subseteq Context
         /\ [q EXCEPT ![Len(q)].todo = @ \ {x}] \in Seq(Node)
         /\ Len([q EXCEPT ![Len(q)].todo = @ \ {x}]) = Len(q)
         /\ SubSeq(q, 1, Len(q) - 1) \in Seq(Node)
         /\ Len(SubSeq(q, 1, Len(q) - 1)) = Len(q) - 1
<1> DEFINE n == Len(q)
           y == [q[n] EXCEPT !.todo = @ \ {x}]
           p == [q EXCEPT ![n] = y]
<1>1. n \in Nat /\ n \in 1..n /\ DOMAIN q = 1..n /\ q \in [1..n -> Node]
  OBVIOUS
<1>2. q[n] \in Node
  BY <1>1, Zenon
<1>3. q[n].todo \subseteq Context
  BY <1>2 DEF Node
<1>4. y \in Node
  BY <1>2 DEF Node
<1>5. [q EXCEPT ![n].todo = @ \ {x}] = p
  BY Zenon
<1> HIDE DEF y
<1>6. p \in [1..n -> Node]
  BY <1>1, <1>4, Zenon
<1>7. p \in Seq(Node) /\ Len(p) = n
  BY <1>1, <1>6
<1>8. SubSeq(q, 1, n - 1) \in Seq(Node) /\ Len(SubSeq(q, 1, n - 1)) = n - 1
  BY <1>1
<1> QED
  BY <1>3, <1>5, <1>7, <1>8, Zenon DEF p, n

\* Contexts wait for contexts.
LEMMA EdgesAre ==
  ASSUME MDLInv, NEW d \in Context, m_waiting_for[d] # None
  PROVE  Edges(d) \subseteq Context
<1>1. call[d].pc # "idle"
  BY Zenon DEF MDLInv, CallOK
<1>2. lock[call[d].key] \in Lock
  BY <1>1, PendingHas, Zenon
<1>3. /\ lock[call[d].key].granted \subseteq Tickets
      /\ Range(lock[call[d].key].waiting) \subseteq Tickets
  BY <1>2, LockFields, Zenon
<1>4. \A g \in Tickets : g[1] \in Context
  BY TypeOfTicket, Zenon
<1> QED
  BY <1>3, <1>4, Zenon DEF Edges, Blocking

\* A call that stays pending goes on: its search, its announcement and the slots
\* may change, but no ticket moves and nobody is granted anything.
LEMMA PendingKeeps ==
  ASSUME MDLInv, NEW c \in Context, NEW pc \in Pending, call' = [call EXCEPT ![c].pc = pc],
         call[c].pc \in Pending, m_wait' \in [Context -> Slot],
         \A d \in Context : \/ m_wait'[d] = m_wait[d]
                            \/ m_wait[d] = "EMPTY" /\ m_wait'[d] = "CLOSED",
         search' \in [Context -> Search], \A d \in Context \ {c} : search'[d] = search[d],
         Len(search'[c].path) < MAX_SEARCH_DEPTH, pc = "victim" => search'[c].victim \in Context,
         m_waiting_for' \in [Context -> Key \cup {None}],
         \A d \in Context \ {c} : m_waiting_for'[d] = m_waiting_for[d],
         m_waiting_for'[c] # None => pc \in {"search", "victim", "wait", "gone"},
         gone' \subseteq Context, UNCHANGED <<lock, m_tickets, max_write_lock_count>>
  PROVE  MDLInv'
<1>0. Types /\ UNCHANGED <<lock, m_tickets>>
  BY Zenon DEF MDLInv
<1>1. /\ call' \in [Context -> Call] /\ \A d \in Context \ {c} : call'[d] = call[d]
      /\ call'[c].pc = pc /\ call'[c].key = call[c].key /\ call'[c].type = call[c].type
  BY <1>0, CallGoto, Zenon DEF Types
<1>2. Types'
  BY <1>0, <1>1, Zenon DEF Types
<1>3. /\ \A d \in Context, k \in Key, t \in Type : TicketOK(d, k, t)'
      /\ \A k \in Key : Distinct(lock'[k].waiting) /\ Compatible(lock'[k].granted)
  <2>1. \A d \in Context : /\ call'[d].pc \in Pending <=> call[d].pc \in Pending
                           /\ call'[d].key = call[d].key /\ call'[d].type = call[d].type
    BY <1>1, Zenon
  <2>2. \A d \in Context : m_wait'[d] = "GRANTED" <=> m_wait[d] = "GRANTED"
    BY Zenon
  <2> QED
    BY <1>0, <1>1, <2>1, <2>2, QuietKeeps, Zenon
<1>4. ASSUME NEW d \in Context
      PROVE  CallOK(d)'
  <2>1. CallOK(d)
    BY Zenon DEF MDLInv
  <2>2. CASE d = c
    <3>1. pc # "idle" /\ call[c].pc # "idle"
      BY Zenon DEF Pending
    <3>2. call'[c].key \in Key /\ call'[c].type \in Type
      BY <1>1, <2>1, <2>2, <3>1, Zenon DEF CallOK
    <3> QED
      BY <1>1, <2>2, <3>2, Zenon DEF CallOK
  <2>3. CASE d # c
    <3>1. call[d].pc \notin Pending => m_wait'[d] = "CLOSED"
      BY <2>1, Zenon DEF CallOK
    <3> QED
      BY <1>1, <2>1, <2>3, <3>1, Zenon DEF CallOK
  <2> QED
    BY <2>2, <2>3, Zenon
<1> QED
  BY <1>2, <1>3, <1>4, Zenon DEF MDLInv

\* A step of a search: the path changes, or a victim is found.
LEMMA SearchKeeps ==
  ASSUME MDLInv, NEW c \in Context, NEW x \in Search, search' = [search EXCEPT ![c] = x],
         NEW pc \in {"search", "wait", "victim"}, call' = [call EXCEPT ![c].pc = pc],
         call[c].pc \in {"search", "victim"}, m_wait' \in [Context -> Slot],
         \A d \in Context : \/ m_wait'[d] = m_wait[d]
                            \/ m_wait[d] = "EMPTY" /\ m_wait'[d] = "CLOSED",
         Len(x.path) < MAX_SEARCH_DEPTH, pc = "victim" => x.victim \in Context,
         UNCHANGED <<lock, m_tickets, m_waiting_for, rest>>
  PROVE  MDLInv'
<1>1. Types
  BY Zenon DEF MDLInv
<1>2. /\ search' \in [Context -> Search] /\ search'[c] = x
      /\ \A d \in Context \ {c} : search'[d] = search[d]
  BY <1>1, Zenon DEF Types
<1>3. /\ m_waiting_for' \in [Context -> Key \cup {None}]
      /\ \A d \in Context \ {c} : m_waiting_for'[d] = m_waiting_for[d]
      /\ gone' \subseteq Context /\ UNCHANGED <<lock, m_tickets, max_write_lock_count>>
  BY <1>1, Zenon DEF Types, rest
<1>4. pc \in Pending /\ call[c].pc \in Pending /\ pc \in {"search", "victim", "wait", "gone"}
  BY Zenon DEF Pending
<1>5. Len(search'[c].path) < MAX_SEARCH_DEPTH /\ (pc = "victim" => search'[c].victim \in Context)
  BY <1>2, Zenon
<1> QED
  BY <1>2, <1>3, <1>4, <1>5, PendingKeeps, Zenon

\* A visit to a node changes the search and the place of the call only.
LEMMA VisitKeeps ==
  ASSUME MDLInv, NEW c \in Context, At(c, "search"), NEW path \in Seq(Node),
         Len(path) < MAX_SEARCH_DEPTH, NEW d \in Context, Visit(c, path, d),
         UNCHANGED <<lock, m_tickets, m_wait, m_waiting_for, rest>>
  PROVE  MDLInv'
<1> DEFINE longer == Append(path, [ctx |-> d, todo |-> Edges(d)])
<1>0. /\ search[c] \in Search /\ call[c] \in Call /\ call[c].pc = "search"
      /\ call \in [Context -> Call] /\ search \in [Context -> Search]
      /\ m_wait' \in [Context -> Slot] /\ \A e \in Context : m_wait'[e] = m_wait[e]
      /\ UNCHANGED <<lock, m_tickets, m_waiting_for, rest>>
  BY Zenon DEF MDLInv, Types, At
<1>1. search[c].victim \in Context \cup {None}
  BY <1>0, SearchFields, Zenon
<1>2. ASSUME NEW q \in Seq(Node), Len(q) < MAX_SEARCH_DEPTH,
             search' = [search EXCEPT ![c].path = q], NEW pc \in {"search", "wait"},
             call' = [call EXCEPT ![c].pc = pc]
      PROVE  MDLInv'
  <2> DEFINE x == [search[c] EXCEPT !.path = q]
  <2>1. x \in Search
    BY <1>0, <1>2, Zenon DEF Search
  <2>2. x.path = q
    BY <1>0 DEF Search
  <2>3. search' = [search EXCEPT ![c] = x]
    BY <1>2, Zenon
  <2> HIDE DEF x
  <2>4. pc \in {"search", "wait", "victim"} /\ pc # "victim" /\ Len(x.path) < MAX_SEARCH_DEPTH
    BY <1>2, <2>2, Zenon
  <2> QED
    BY <1>0, <1>2, <2>1, <2>3, <2>4, SearchKeeps, Zenon
<1>3. CASE m_waiting_for[d] = None \/ m_wait[d] # "EMPTY"
  <2> DEFINE pc == IF path = <<>> THEN "wait" ELSE call[c].pc
  <2>1. search' = [search EXCEPT ![c].path = path] /\ call' = [call EXCEPT ![c].pc = pc]
    BY <1>3, Zenon DEF Visit
  <2>2. pc \in {"search", "wait"}
    BY <1>0, Zenon
  <2> HIDE DEF pc
  <2> QED
    BY <1>2, <2>1, <2>2, Zenon
<1>4. CASE ~(m_waiting_for[d] = None \/ m_wait[d] # "EMPTY")
  <2>1. [ctx |-> d, todo |-> Edges(d)] \in Node
    <3>1. Edges(d) \subseteq Context
      BY <1>4, EdgesAre, Zenon
    <3> QED
      BY <3>1 DEF Node
  <2>2. longer \in Seq(Node) /\ \A i \in DOMAIN longer : longer[i].ctx \in Context
    BY <2>1, PathIs, Zenon
  <2>3. CASE Len(longer) >= MAX_SEARCH_DEPTH \/ c \in Edges(d)
    <3>1. Found(c, longer)
      BY <1>4, <2>3, Zenon DEF Visit
    <3> HIDE DEF longer
    <3>2. PICK i \in DOMAIN longer :
             search' = [search EXCEPT ![c] = [path |-> <<>>, victim |-> longer[i].ctx]]
      BY <3>1, Zenon DEF Found
    <3>3. call' = [call EXCEPT ![c].pc = "victim"]
      BY <3>1, Zenon DEF Found
    <3> DEFINE v == longer[i].ctx
               x == [path |-> <<>>, victim |-> v]
    <3>4. v \in Context
      BY <2>2, Zenon
    <3>5. search' = [search EXCEPT ![c] = x]
      BY <3>2, Zenon
    <3> HIDE DEF v
    <3>6. x \in Search /\ x.path = <<>> /\ x.victim = v
      BY <3>4, NewSearch, PathIs, Zenon
    <3>7. Len(x.path) < MAX_SEARCH_DEPTH
      BY <3>6, MDLAssumption
    <3> HIDE DEF x
    <3> QED
      BY <1>0, <3>3, <3>4, <3>5, <3>6, <3>7, SearchKeeps, Zenon
  <2>4. CASE ~(Len(longer) >= MAX_SEARCH_DEPTH \/ c \in Edges(d))
    <3>1. search' = [search EXCEPT ![c].path = longer] /\ UNCHANGED call
      BY <1>4, <2>4, Zenon DEF Visit
    <3>2. Len(longer) < MAX_SEARCH_DEPTH
      BY <2>2, <2>4, PathIs, MDLAssumption
    <3>3. call' = [call EXCEPT ![c].pc = "search"]
      BY <1>0, <3>1 DEF Call
    <3> HIDE DEF longer
    <3> QED
      BY <1>2, <2>2, <3>1, <3>2, <3>3, Zenon
  <2> QED
    BY <2>3, <2>4, Zenon
<1> QED
  BY <1>3, <1>4, Zenon

\* The first node of a search.
LEMMA StartSearchKeeps ==
  ASSUME MDLInv, NEW c \in Context, StartSearch(c)
  PROVE  MDLInv'
<1>1. <<>> \in Seq(Node) /\ Len(<<>>) < MAX_SEARCH_DEPTH
  BY MDLAssumption
<1> QED
  BY <1>1, VisitKeeps, Zenon DEF StartSearch

\* The next node of a search, or the way back.
LEMMA ContinueSearchKeeps ==
  ASSUME MDLInv, NEW c \in Context, ContinueSearch(c)
  PROVE  MDLInv'
<1> DEFINE path == search[c].path
           n == Len(path)
<1>0. /\ At(c, "search") /\ path # <<>>
      /\ UNCHANGED <<lock, m_tickets, m_wait, m_waiting_for, rest>>
  BY Zenon DEF ContinueSearch
<1>1. path \in Seq(Node) /\ n < MAX_SEARCH_DEPTH /\ search[c] \in Search
  BY SearchFields, Zenon DEF MDLInv, Types, CallOK
<1>2. /\ n \in Nat /\ path[n].todo \subseteq Context
      /\ SubSeq(path, 1, n - 1) \in Seq(Node) /\ Len(SubSeq(path, 1, n - 1)) = n - 1
      /\ \A d : [path EXCEPT ![n].todo = @ \ {d}] \in Seq(Node)
      /\ \A d : Len([path EXCEPT ![n].todo = @ \ {d}]) = n
  BY <1>0, <1>1, LastNode, PathIs, Zenon
<1>3. CASE path[n].todo = {}
  <2> DEFINE q == SubSeq(path, 1, n - 1)
             x == [search[c] EXCEPT !.path = q]
             pc == IF n = 1 THEN "wait" ELSE call[c].pc
  <2>1. search' = [search EXCEPT ![c].path = q] /\ call' = [call EXCEPT ![c].pc = pc]
    BY <1>3, Zenon DEF ContinueSearch
  <2>2. search' = [search EXCEPT ![c] = x]
    BY <2>1, Zenon
  <2>3. q \in Seq(Node) /\ Len(q) < MAX_SEARCH_DEPTH
    BY <1>1, <1>2, MDLAssumption
  <2> HIDE DEF q
  <2>4. x \in Search
    BY <1>1, <2>3, Zenon DEF Search
  <2>5. x.path = q
    BY <1>1 DEF Search
  <2>6. pc \in {"search", "wait", "victim"} /\ pc # "victim" /\ call[c].pc = "search"
    BY <1>0, Zenon DEF At
  <2> HIDE DEF x, pc
  <2>7. /\ m_wait' \in [Context -> Slot] /\ \A e \in Context : m_wait'[e] = m_wait[e]
        /\ UNCHANGED <<lock, m_tickets, m_waiting_for, rest>>
    BY <1>0, Zenon DEF MDLInv, Types
  <2>8. Len(x.path) < MAX_SEARCH_DEPTH
    BY <2>3, <2>5, Zenon
  <2> QED
    BY <2>1, <2>2, <2>4, <2>6, <2>7, <2>8, SearchKeeps, Zenon
<1>4. CASE path[n].todo # {}
  <2>1. PICK d \in path[n].todo : Visit(c, [path EXCEPT ![n].todo = @ \ {d}], d)
    BY <1>4, Zenon DEF ContinueSearch
  <2> DEFINE q == [path EXCEPT ![n].todo = @ \ {d}]
  <2>2. q \in Seq(Node) /\ Len(q) < MAX_SEARCH_DEPTH /\ d \in Context
    BY <1>1, <1>2, Zenon
  <2>3. Visit(c, q, d)
    BY <2>1, Zenon
  <2> HIDE DEF q
  <2> QED
    BY <1>0, <2>2, <2>3, VisitKeeps, Zenon
<1> QED
  BY <1>3, <1>4, Zenon

\* A victim that still waits has its slot closed: its ticket stays where it is.
LEMMA SetVictimKeeps ==
  ASSUME MDLInv, NEW c \in Context, SetVictim(c)
  PROVE  MDLInv'
<1> DEFINE v == search[c].victim
           slot == IF m_wait[v] = "EMPTY" THEN "CLOSED" ELSE m_wait[v]
           pc == IF v = c THEN "wait" ELSE "search"
<1>1. /\ call[c].pc = "victim" /\ m_wait' = [m_wait EXCEPT ![v] = slot]
      /\ search' = [search EXCEPT ![c] = NoSearch] /\ call' = [call EXCEPT ![c].pc = pc]
      /\ UNCHANGED <<lock, m_tickets, m_waiting_for, rest>>
  BY Zenon DEF SetVictim, At
<1>2. v \in Context /\ m_wait \in [Context -> Slot]
  BY <1>1, Zenon DEF MDLInv, CallOK, Types
<1>3. slot \in Slot
  BY <1>2, Zenon DEF Slot
<1>4. /\ m_wait' \in [Context -> Slot]
      /\ \A d \in Context : \/ m_wait'[d] = m_wait[d]
                            \/ m_wait[d] = "EMPTY" /\ m_wait'[d] = "CLOSED"
  BY <1>1, <1>2, <1>3, Zenon
<1>5. NoSearch \in Search /\ Len(NoSearch.path) < MAX_SEARCH_DEPTH
  BY MDLAssumption DEF NoSearch, Search
<1>6. pc \in {"search", "wait", "victim"} /\ pc # "victim"
  BY Zenon
<1> HIDE DEF pc, slot
<1> QED
  BY <1>1, <1>4, <1>5, <1>6, SearchKeeps, Zenon

-----------------------------------------------------------------------------
(* Waiting *)

\* What the steps that touch no lock leave as it is.
LEMMA SearchesFit ==
  ASSUME MDLInv, NEW c \in Context
  PROVE  /\ search \in [Context -> Search] /\ Len(search[c].path) < MAX_SEARCH_DEPTH
         /\ m_waiting_for \in [Context -> Key \cup {None}] /\ gone \subseteq Context
         /\ m_wait \in [Context -> Slot] /\ call \in [Context -> Call]
  BY Zenon DEF MDLInv, Types, CallOK

\* Announcing a wait.
LEMMA WillWaitForKeeps ==
  ASSUME MDLInv, NEW c \in Context, will_wait_for(c)
  PROVE  MDLInv'
<1>1. /\ call[c].pc = "announce" /\ m_waiting_for' = [m_waiting_for EXCEPT ![c] = call[c].key]
      /\ call' = [call EXCEPT ![c].pc = "search"]
      /\ lock' = lock /\ m_tickets' = m_tickets /\ m_wait' = m_wait /\ search' = search
      /\ gone' = gone /\ max_write_lock_count' = max_write_lock_count
  BY Zenon DEF will_wait_for, At, rest
<1>2. call[c].key \in Key
  BY <1>1, PendingHas, Zenon
<1>3. /\ m_waiting_for' \in [Context -> Key \cup {None}]
      /\ \A d \in Context \ {c} : m_waiting_for'[d] = m_waiting_for[d]
  BY <1>1, <1>2, SearchesFit, Zenon
<1>4. "search" \in Pending /\ call[c].pc \in Pending
  BY <1>1, Zenon DEF Pending
<1> QED
  BY <1>1, <1>3, <1>4, SearchesFit, PendingKeeps, Zenon

\* A timeout closes an empty slot.
LEMMA TimedOutKeeps ==
  ASSUME MDLInv, NEW c \in Context, TimedOut(c)
  PROVE  MDLInv'
<1>1. /\ call[c].pc = "wait" /\ m_wait[c] = "EMPTY" /\ m_wait' = [m_wait EXCEPT ![c] = "CLOSED"]
      /\ call' = call /\ m_waiting_for' = m_waiting_for
      /\ lock' = lock /\ m_tickets' = m_tickets /\ search' = search
      /\ gone' = gone /\ max_write_lock_count' = max_write_lock_count
  BY Zenon DEF TimedOut, At, rest
<1>2. call' = [call EXCEPT ![c].pc = "wait"]
  BY <1>1, SearchesFit DEF Call
<1>3. /\ m_wait' \in [Context -> Slot]
      /\ \A d \in Context : \/ m_wait'[d] = m_wait[d]
                            \/ m_wait[d] = "EMPTY" /\ m_wait'[d] = "CLOSED"
  BY <1>1, SearchesFit, Zenon DEF Slot
<1>4. "wait" \in Pending /\ call[c].pc \in Pending
  BY <1>1, Zenon DEF Pending
<1>5. /\ search' \in [Context -> Search] /\ \A d \in Context \ {c} : search'[d] = search[d]
      /\ Len(search'[c].path) < MAX_SEARCH_DEPTH
      /\ m_waiting_for' \in [Context -> Key \cup {None}]
      /\ \A d \in Context \ {c} : m_waiting_for'[d] = m_waiting_for[d]
      /\ gone' \subseteq Context /\ UNCHANGED <<lock, m_tickets, max_write_lock_count>>
  BY <1>1, SearchesFit, Zenon
<1> QED
  BY <1>2, <1>3, <1>4, <1>5, PendingKeeps, Zenon

\* A vanished client leaves its slot open.
LEMMA DisconnectedKeeps ==
  ASSUME MDLInv, NEW c \in Context, Disconnected(c)
  PROVE  MDLInv'
<1>1. /\ call[c].pc = "wait" /\ call' = [call EXCEPT ![c].pc = "gone"]
      /\ m_wait' = m_wait /\ m_waiting_for' = m_waiting_for
      /\ lock' = lock /\ m_tickets' = m_tickets /\ search' = search
      /\ gone' = gone \cup {c} /\ max_write_lock_count' = max_write_lock_count
  BY Zenon DEF Disconnected, At
<1>2. "gone" \in Pending /\ call[c].pc \in Pending
  BY <1>1, Zenon DEF Pending
<1>3. gone' \subseteq Context
  BY <1>1, SearchesFit, Zenon
<1> QED
  BY <1>1, <1>2, <1>3, SearchesFit, PendingKeeps, Zenon

-----------------------------------------------------------------------------
(* Getting and dropping tickets *)

\* A step of c that changes its own tickets only, of lock k and of no other.
LEMMA ContextKeeps ==
  ASSUME MDLInv, NEW c \in Context, NEW k \in Key,
         NEW l \in Lock, lock' = [lock EXCEPT ![k] = l],
         Distinct(l.waiting), Compatible(l.granted),
         \A d \in Context \ {c}, t \in Type :
             /\ <<d, t>> \in l.granted <=> <<d, t>> \in lock[k].granted
             /\ <<d, t>> \in Range(l.waiting) <=> <<d, t>> \in Range(lock[k].waiting),
         NEW has \in SUBSET (Key \X Type), m_tickets' = [m_tickets EXCEPT ![c] = has],
         NEW slot \in Slot, m_wait' = [m_wait EXCEPT ![c] = slot],
         NEW p \in Call, call' = [call EXCEPT ![c] = p],
         m_waiting_for' = [m_waiting_for EXCEPT ![c] = None], UNCHANGED <<search, rest>>,
         p.pc # "idle" => p.key \in Key /\ p.type \in Type,
         p.pc # "victim", p.pc \notin Pending => slot = "CLOSED",
         \A t \in Type : Fits(<<k, t>> \in has, <<c, t>> \in l.granted,
                              <<c, t>> \in Range(l.waiting), Own(p, k, t), slot),
         \A j \in Key \ {k}, t \in Type :
             Fits(<<j, t>> \in has, <<c, t>> \in lock[j].granted,
                  <<c, t>> \in Range(lock[j].waiting), Own(p, j, t), slot)
  PROVE  MDLInv'
<1>0. Types
  BY Zenon DEF MDLInv
<1>1. /\ lock' \in [Key -> Lock] /\ lock'[k] = l /\ \A j \in Key \ {k} : lock'[j] = lock[j]
  BY <1>0, Zenon DEF Types
<1>2. /\ m_tickets' \in [Context -> SUBSET (Key \X Type)] /\ m_tickets'[c] = has
      /\ \A d \in Context \ {c} : m_tickets'[d] = m_tickets[d]
  BY <1>0, Zenon DEF Types
<1>3. /\ m_wait' \in [Context -> Slot] /\ m_wait'[c] = slot
      /\ \A d \in Context \ {c} : m_wait'[d] = m_wait[d]
  BY <1>0, Zenon DEF Types
<1>4. /\ call' \in [Context -> Call] /\ call'[c] = p
      /\ \A d \in Context \ {c} : call'[d] = call[d]
  BY <1>0, Zenon DEF Types
<1>5. /\ m_waiting_for' \in [Context -> Key \cup {None}] /\ m_waiting_for'[c] = None
      /\ \A d \in Context \ {c} : m_waiting_for'[d] = m_waiting_for[d]
  BY <1>0, Zenon DEF Types
<1>6. search' = search /\ gone' = gone /\ max_write_lock_count' = max_write_lock_count
  BY Zenon DEF rest
<1>7. Types'
  BY <1>0, <1>1, <1>2, <1>3, <1>4, <1>5, <1>6, Zenon DEF Types
<1>8. \A d \in Context : CallOK(d)'
  <2>1. CallOK(c)'
    BY <1>3, <1>4, <1>5, <1>6, SearchesFit, Zenon DEF CallOK
  <2> QED
    BY <1>3, <1>4, <1>5, <1>6, <2>1, OthersKeep, Zenon
<1>9. ASSUME NEW d \in Context, NEW j \in Key, NEW t \in Type
      PROVE  TicketOK(d, j, t)'
  <2>0. CASE d = c
    <3>1. m_tickets'[d] = has /\ m_wait'[d] = slot /\ call'[d] = p
      BY <1>2, <1>3, <1>4, <2>0, Zenon
    <3>2. Fits(<<j, t>> \in has, <<c, t>> \in lock'[j].granted,
               <<c, t>> \in Range(lock'[j].waiting), Own(p, j, t), slot)
      <4>1. CASE j = k
        <5>1. Fits(<<k, t>> \in has, <<c, t>> \in l.granted,
                   <<c, t>> \in Range(l.waiting), Own(p, k, t), slot)
          BY Zenon
        <5> QED
          BY <1>1, <4>1, <5>1, Zenon
      <4>2. CASE j # k
        <5>1. Fits(<<j, t>> \in has, <<c, t>> \in lock[j].granted,
                   <<c, t>> \in Range(lock[j].waiting), Own(p, j, t), slot)
          BY <4>2, Zenon
        <5>2. lock'[j] = lock[j]
          BY <1>1, <4>2, Zenon
        <5> QED
          BY <5>1, <5>2, Zenon
      <4> QED
        BY <4>1, <4>2, Zenon
    <3> QED
      BY <2>0, <3>1, <3>2, Zenon DEF TicketOK
  <2>3. CASE d # c
    <3>1. TicketOK(d, j, t)
      BY Zenon DEF MDLInv
    <3>2. /\ <<d, t>> \in lock'[j].granted <=> <<d, t>> \in lock[j].granted
          /\ <<d, t>> \in Range(lock'[j].waiting) <=> <<d, t>> \in Range(lock[j].waiting)
      BY <1>1, <2>3, Zenon
    <3>3. m_tickets'[d] = m_tickets[d] /\ m_wait'[d] = m_wait[d] /\ call'[d] = call[d]
      BY <1>2, <1>3, <1>4, <2>3, Zenon
    <3> QED
      BY <3>1, <3>2, <3>3, Zenon DEF TicketOK, Fits
  <2> QED
    BY <2>0, <2>3, Zenon
<1>10. \A j \in Key : Distinct(lock'[j].waiting) /\ Compatible(lock'[j].granted)
  BY <1>1, Zenon DEF MDLInv
<1> QED
  BY <1>7, <1>8, <1>9, <1>10, Zenon DEF MDLInv

\* The tickets of the others are those of l in m too.
OthersStay(c, l, m) ==
    \A d \in Context \ {c}, t \in Type :
        /\ <<d, t>> \in m.granted <=> <<d, t>> \in l.granted
        /\ <<d, t>> \in Range(m.waiting) <=> <<d, t>> \in Range(l.waiting)

\* In the lock l of key k the context c has the tickets has, and does not wait.
HoldsOnly(c, has, k, l) ==
    \A t \in Type : /\ <<k, t>> \in has <=> <<c, t>> \in l.granted
                    /\ <<c, t>> \notin Range(l.waiting)

\* The context c, now in the call p, keeps the tickets has: others have left the
\* lock of k, which has become l, and remove_ticket() goes on.
Dropped(c, k, l, has, p) ==
    /\ l \in Lock /\ Removed(k, l, [m_wait EXCEPT ![c] = "CLOSED"])
    /\ Distinct(l.waiting) /\ Compatible(l.granted) /\ OthersStay(c, lock[k], l)
    /\ has \in SUBSET (Key \X Type) /\ m_tickets' = [m_tickets EXCEPT ![c] = has]
    /\ p \in Call /\ p.pc = "idle" /\ call' = [call EXCEPT ![c] = p]
    /\ m_waiting_for[c] = None /\ UNCHANGED <<m_waiting_for, search, rest>>
    /\ \A j \in Key : HoldsOnly(c, has, j, IF j = k THEN l ELSE lock[j])

\* A step of c that takes a ticket of lock k out of its list and lets the others
\* have what they can have now.
LEMMA ReleaseKeeps ==
  ASSUME MDLInv, NEW c \in Context, NEW k \in Key, NEW l, NEW has, NEW p,
         Dropped(c, k, l, has, p)
  PROVE  MDLInv'
<1> DEFINE wt == [m_wait EXCEPT ![c] = "CLOSED"]
<1> /\ l \in Lock /\ Removed(k, l, [m_wait EXCEPT ![c] = "CLOSED"])
    /\ Distinct(l.waiting) /\ Compatible(l.granted) /\ OthersStay(c, lock[k], l)
    /\ has \in SUBSET (Key \X Type) /\ m_tickets' = [m_tickets EXCEPT ![c] = has]
    /\ p \in Call /\ p.pc = "idle" /\ call' = [call EXCEPT ![c] = p]
    /\ m_waiting_for[c] = None /\ UNCHANGED <<m_waiting_for, search, rest>>
    /\ \A j \in Key : HoldsOnly(c, has, j, IF j = k THEN l ELSE lock[j])
  BY Zenon DEF Dropped
<1>a. \A d \in Context \ {c}, t \in Type :
          /\ <<d, t>> \in l.granted <=> <<d, t>> \in lock[k].granted
          /\ <<d, t>> \in Range(l.waiting) <=> <<d, t>> \in Range(lock[k].waiting)
  BY Zenon DEF OthersStay
<1>b. \A t \in Type : /\ <<k, t>> \in has <=> <<c, t>> \in l.granted
                      /\ <<c, t>> \notin Range(l.waiting)
  <2>1. HoldsOnly(c, has, k, l)
    BY Zenon
  <2> QED
    BY <2>1, Zenon DEF HoldsOnly
<1>c. \A j \in Key \ {k}, t \in Type :
          /\ <<j, t>> \in has <=> <<c, t>> \in lock[j].granted
          /\ <<c, t>> \notin Range(lock[j].waiting)
  <2>1. \A j \in Key \ {k} : HoldsOnly(c, has, j, lock[j])
    BY Zenon
  <2> QED
    BY <2>1, Zenon DEF HoldsOnly
<1>0. Types
  BY Zenon DEF MDLInv
<1>1. /\ m_tickets' \in [Context -> SUBSET (Key \X Type)] /\ m_tickets'[c] = has
      /\ \A d \in Context \ {c} : m_tickets'[d] = m_tickets[d]
  BY <1>0, Zenon DEF Types
<1>2. /\ call' \in [Context -> Call] /\ call'[c] = p
      /\ \A d \in Context \ {c} : call'[d] = call[d]
  BY <1>0, Zenon DEF Types
<1>3. /\ m_waiting_for' = m_waiting_for /\ search' = search
      /\ gone' = gone /\ max_write_lock_count' = max_write_lock_count
  BY Zenon DEF rest
<1>4. /\ wt \in [Context -> Slot] /\ wt[c] = "CLOSED"
      /\ \A d \in Context \ {c} : wt[d] = m_wait[d]
  BY <1>0, Zenon DEF Types, Slot
<1>5. Removed(k, l, wt) /\ lock \in [Key -> Lock]
  BY <1>0, Zenon DEF Types
<1> HIDE DEF wt
<1>6. p.pc \notin Pending
  BY Zenon DEF Pending
<1>7. AllFit([lock |-> l, wait |-> wt], k, m_tickets', call')
  <2> DEFINE s == [lock |-> l, wait |-> wt]
  <2>1. s.lock = l /\ s.wait = wt
    OBVIOUS
  <2> HIDE DEF s
  <2>2. ASSUME NEW d \in Context, NEW t \in Type
        PROVE  Fits(<<k, t>> \in m_tickets'[d], <<d, t>> \in s.lock.granted,
                    <<d, t>> \in Range(s.lock.waiting), Own(call'[d], k, t), s.wait[d])
    <3>1. CASE d = c
      BY <1>b, <1>1, <1>2, <1>6, <2>1, <3>1, Zenon DEF Fits, Own
    <3>2. CASE d # c
      <4>1. TicketOK(d, k, t)
        BY Zenon DEF MDLInv
      <4>2. m_tickets'[d] = m_tickets[d] /\ call'[d] = call[d] /\ wt[d] = m_wait[d]
        BY <1>1, <1>2, <1>4, <3>2, Zenon
      <4>3. /\ <<d, t>> \in l.granted <=> <<d, t>> \in lock[k].granted
            /\ <<d, t>> \in Range(l.waiting) <=> <<d, t>> \in Range(lock[k].waiting)
        BY <1>a, <3>2, Zenon
      <4> QED
        BY <2>1, <4>1, <4>2, <4>3, Zenon DEF TicketOK, Fits
    <3> QED
      BY <3>1, <3>2, Zenon
  <2>3. AllFit(s, k, m_tickets', call')
    BY <2>2, Zenon DEF AllFit
  <2> QED
    BY <2>3, Zenon DEF s
<1>8. ASSUME NEW j \in Key \ {k}
      PROVE  AllFit([lock |-> lock[j], wait |-> wt], j, m_tickets', call')
  <2> DEFINE s == [lock |-> lock[j], wait |-> wt]
  <2>1. s.lock = lock[j] /\ s.wait = wt
    OBVIOUS
  <2> HIDE DEF s
  <2>2. ASSUME NEW d \in Context, NEW t \in Type
        PROVE  Fits(<<j, t>> \in m_tickets'[d], <<d, t>> \in s.lock.granted,
                    <<d, t>> \in Range(s.lock.waiting), Own(call'[d], j, t), s.wait[d])
    <3>1. CASE d = c
      BY <1>c, <1>1, <1>2, <1>6, <2>1, <3>1, Zenon DEF Fits, Own
    <3>2. CASE d # c
      <4>1. TicketOK(d, j, t)
        BY Zenon DEF MDLInv
      <4>2. m_tickets'[d] = m_tickets[d] /\ call'[d] = call[d] /\ wt[d] = m_wait[d]
        BY <1>1, <1>2, <1>4, <3>2, Zenon
      <4> QED
        BY <2>1, <4>1, <4>2, Zenon DEF TicketOK
    <3> QED
      BY <3>1, <3>2, Zenon
  <2>3. AllFit(s, j, m_tickets', call')
    BY <2>2, Zenon DEF AllFit
  <2> QED
    BY <2>3, Zenon DEF s
<1>9. \A j \in Key \ {k} : Distinct(lock[j].waiting) /\ Compatible(lock[j].granted)
  BY Zenon DEF MDLInv
<1>10. /\ lock' \in [Key -> Lock] /\ m_wait' \in [Context -> Slot]
       /\ \A d \in Context, j \in Key, t \in Type : TicketOK(d, j, t)'
       /\ \A j \in Key : Distinct(lock'[j].waiting) /\ Compatible(lock'[j].granted)
       /\ \A d \in Context : \/ m_wait'[d] = wt[d]
                             \/ /\ call'[d].pc \in Pending
                                /\ wt[d] = "EMPTY" /\ m_wait'[d] = "GRANTED"
  BY <1>4, <1>5, <1>7, <1>8, <1>9, RemovedKeeps, Zenon
<1>11. Types'
  BY <1>0, <1>1, <1>2, <1>3, <1>10, Zenon DEF Types
<1>12. \A d \in Context : CallOK(d)'
  <2>1. m_wait'[c] = "CLOSED"
    BY <1>2, <1>4, <1>6, <1>10, Zenon
  <2>2. p.pc # "victim"
    BY Zenon
  <2>3. CallOK(c)'
    BY <1>2, <1>3, <2>1, <2>2, SearchesFit, Zenon DEF CallOK
  <2>4. \A d \in Context \ {c} : m_wait'[d] = m_wait[d] \/ call[d].pc \in Pending
    BY <1>2, <1>4, <1>10, Zenon
  <2> QED
    BY <1>2, <1>3, <2>3, <2>4, OthersKeep, Zenon
<1> QED
  BY <1>10, <1>11, <1>12, Zenon DEF MDLInv

-----------------------------------------------------------------------------
(* The actions that move tickets *)

\* A lock with other granted tickets.
LEMMA GrantedSet ==
  ASSUME NEW l \in Lock, NEW g \in SUBSET Tickets
  PROVE  LET m == [l EXCEPT !.granted = g]
         IN  /\ m \in Lock /\ m.granted = g /\ m.waiting = l.waiting
             /\ m.bitmap = l.bitmap /\ m.count = l.count /\ m.hog = l.hog
<1> DEFINE m == [l EXCEPT !.granted = g]
<1>1. m \in Lock
  BY Zenon DEF Lock
<1>2. /\ m.granted = g /\ m.waiting = l.waiting
      /\ m.bitmap = l.bitmap /\ m.count = l.count /\ m.hog = l.hog
  BY DEF Lock
<1> QED
  BY <1>1, <1>2, Zenon

\* A lock with one more waiting ticket.
LEMMA AddWaitingIs ==
  ASSUME NEW l \in Lock, NEW w \in Tickets
  PROVE  LET m == add_waiting(l, w)
         IN  /\ m \in Lock /\ m.waiting = Append(l.waiting, w) /\ m.granted = l.granted
             /\ m.bitmap = l.bitmap \cup {w[2]}
             /\ m.count = [l.count EXCEPT ![w[2]] = @ + 1] /\ m.hog = l.hog
<1> DEFINE q == Append(l.waiting, w)
           b == l.bitmap \cup {w[2]}
           n == [l.count EXCEPT ![w[2]] = @ + 1]
           m == [l EXCEPT !.waiting = q, !.bitmap = b, !.count = n]
<1>1. w[2] \in Type
  BY TypeOfTicket, Zenon
<1>2. q \in Seq(Tickets)
  BY LockFields, AppendSet, Zenon
<1>3. b \in SUBSET Type
  BY <1>1, LockFields, Zenon
<1>4. n \in [Type -> Int]
  <2>1. l.count \in [Type -> Int] /\ l.count[w[2]] \in Int
    BY <1>1, LockFields, Zenon
  <2>2. l.count[w[2]] + 1 \in Int
    BY <2>1
  <2> QED
    BY <1>1, <2>1, <2>2, Zenon
<1>5. add_waiting(l, w) = m
  BY Zenon DEF add_waiting
<1> HIDE DEF q, b, n
<1>6. m \in Lock
  BY <1>2, <1>3, <1>4, Zenon DEF Lock
<1>7. /\ m.waiting = q /\ m.granted = l.granted /\ m.bitmap = b
      /\ m.count = n /\ m.hog = l.hog
  BY DEF Lock
<1> QED
  BY <1>5, <1>6, <1>7, Zenon DEF q, b, n

\* The tickets of a context with no pending call.
LEMMA NotPending ==
  ASSUME MDLInv, NEW c \in Context, call[c].pc \in {"idle", "merge"}
  PROVE  /\ m_wait[c] = "CLOSED" /\ m_waiting_for[c] = None
         /\ \A k \in Key, t \in Type : /\ <<k, t>> \in m_tickets[c] <=> <<c, t>> \in lock[k].granted
                                       /\ <<c, t>> \notin Range(lock[k].waiting)
<1>1. call[c].pc \notin Pending /\ call[c].pc \notin {"search", "victim", "wait", "gone"}
  BY Zenon DEF Pending
<1>2. CallOK(c) /\ \A k \in Key, t \in Type : TicketOK(c, k, t)
  BY Zenon DEF MDLInv
<1> QED
  BY <1>1, <1>2, Zenon DEF CallOK, TicketOK, Fits, Own

\* What the steps below need of the state.
LEMMA LockHas ==
  ASSUME MDLInv, NEW k \in Key
  PROVE  /\ lock[k] \in Lock /\ lock[k].granted \subseteq Tickets
         /\ Distinct(lock[k].waiting) /\ Compatible(lock[k].granted)
<1>1. lock[k] \in Lock
  BY Zenon DEF MDLInv, Types
<1> QED
  BY <1>1, LockFields, Zenon DEF MDLInv

\* Removing tickets makes no conflict.
LEMMA FewerCompatible ==
  ASSUME NEW g, Compatible(g), NEW h, h \subseteq g
  PROVE  Compatible(h)
  BY Zenon DEF Compatible

\* A ticket is a pair.
LEMMA TicketParts ==
  ASSUME NEW c \in Context, NEW t \in Type
  PROVE  /\ <<c, t>> \in Tickets /\ <<c, t>>[1] = c /\ <<c, t>>[2] = t
         /\ \A d, u : <<d, u>> = <<c, t>> <=> d = c /\ u = t
         /\ \A k \in Key : <<k, t>> \in Key \X Type
  BY DEF Tickets

\* Equality of pairs.
LEMMA PairsEqual == \A a, b, c, d : <<a, b>> = <<c, d>> <=> a = c /\ b = d
  OBVIOUS

\* The new ticket is pushed to m_tickets, or the call goes on to remove it.
LEMMA DoneWaitingForKeeps ==
  ASSUME MDLInv, NEW c \in Context, done_waiting_for(c)
  PROVE  MDLInv'
<1> DEFINE k == call[c].key
           t == call[c].type
           has == m_tickets[c] \cup {<<k, t>>}
           p == IF call[c].old = None THEN NoCall ELSE [call[c] EXCEPT !.pc = "merge"]
<1>0. Types
  BY Zenon DEF MDLInv
<1>1. /\ call[c].pc \in Pending /\ call[c].pc # "idle" /\ call[c] \in Call
      /\ m_waiting_for' = [m_waiting_for EXCEPT ![c] = None]
      /\ lock' = lock /\ search' = search /\ UNCHANGED rest
  BY <1>0, Zenon DEF done_waiting_for, At, Pending, Types
<1>2. k \in Key /\ t \in Type
  BY <1>1, PendingHas, Zenon
<1>3. CASE At(c, "wait") /\ m_wait[c] = "GRANTED"
  <2>1. /\ m_tickets' = [m_tickets EXCEPT ![c] = has]
        /\ m_wait' = [m_wait EXCEPT ![c] = "CLOSED"] /\ call' = [call EXCEPT ![c] = p]
    BY <1>3, Zenon DEF done_waiting_for
  <2>2. /\ p \in Call /\ p.pc \in {"idle", "merge"}
        /\ p.pc # "idle" => p.key \in Key /\ p.type \in Type
    <3> DEFINE m == [call[c] EXCEPT !.pc = "merge"]
    <3>1. m \in Call /\ m.pc = "merge" /\ m.key = k /\ m.type = t
      BY <1>1 DEF Call
    <3> HIDE DEF m
    <3>2. p = NoCall \/ p = m
      BY Zenon DEF m
    <3> HIDE DEF p
    <3>3. CASE p = NoCall
      BY <3>3, NoCallIs, Zenon
    <3>4. CASE p = m
      BY <1>2, <3>1, <3>4, Zenon
    <3> QED
      BY <3>2, <3>3, <3>4, Zenon
  <2>3. has \in SUBSET (Key \X Type)
    <3>1. m_tickets[c] \in SUBSET (Key \X Type)
      BY <1>0, Zenon DEF Types
    <3> QED
      BY <1>2, <3>1
  <2>4. ASSUME NEW j \in Key, NEW u \in Type
        PROVE  Fits(<<j, u>> \in has, <<c, u>> \in lock[j].granted,
                    <<c, u>> \in Range(lock[j].waiting), Own(p, j, u), "CLOSED")
    <3>1. TicketOK(c, j, u)
      BY Zenon DEF MDLInv
    <3>2. ~Own(p, j, u)
      BY <2>2, Zenon DEF Own, Pending
    <3>3. <<j, u>> \in has <=> <<j, u>> \in m_tickets[c] \/ Own(call[c], j, u)
      BY <1>1, PairsEqual, Zenon DEF Own
    <3> QED
      BY <1>3, <3>1, <3>2, <3>3, Zenon DEF TicketOK, Fits
  <2>5. /\ lock' = [lock EXCEPT ![k] = lock[k]] /\ lock[k] \in Lock
        /\ Distinct(lock[k].waiting) /\ Compatible(lock[k].granted)
    BY <1>0, <1>1, <1>2, LockHas, Zenon DEF Types
  <2>6. "CLOSED" \in Slot /\ p.pc # "victim"
    BY <2>2, Zenon DEF Slot
  <2> HIDE DEF k, t, has, p
  <2> QED
    BY <1>1, <1>2, <2>1, <2>2, <2>3, <2>4, <2>5, <2>6, ContextKeeps, Zenon
<1>4. CASE ~(At(c, "wait") /\ m_wait[c] = "GRANTED")
  <2>1. call' = [call EXCEPT ![c].pc = "remove"] /\ m_tickets' = m_tickets /\ m_wait' = m_wait
    BY <1>4, Zenon DEF done_waiting_for
  <2>2. /\ m_waiting_for' \in [Context -> Key \cup {None}] /\ m_waiting_for'[c] = None
        /\ \A d \in Context \ {c} : m_waiting_for'[d] = m_waiting_for[d]
    BY <1>1, SearchesFit, Zenon
  <2>3. /\ "remove" \in Pending /\ gone' \subseteq Context
        /\ max_write_lock_count' = max_write_lock_count
    BY <1>1, SearchesFit, Zenon DEF Pending, rest
  <2> HIDE DEF k, t, has, p
  <2> QED
    BY <1>1, <2>1, <2>2, <2>3, SearchesFit, PendingKeeps, Zenon
<1> QED
  BY <1>3, <1>4, Zenon

\* The old ticket of an upgrade is dropped.
LEMMA MergeKeeps ==
  ASSUME MDLInv, NEW c \in Context, Merge(c)
  PROVE  MDLInv'
<1> DEFINE k == call[c].key
           o == call[c].old
           g == lock[k].granted \ {<<c, o>>}
           l == [lock[k] EXCEPT !.granted = g]
           has == m_tickets[c] \ {<<k, o>>}
<1>0. Types
  BY Zenon DEF MDLInv
<1>1. /\ call[c].pc = "merge" /\ m_tickets' = [m_tickets EXCEPT ![c] = has]
      /\ lock' = [lock EXCEPT ![k] = l] /\ call' = [call EXCEPT ![c] = NoCall]
      /\ m_wait' = m_wait /\ m_waiting_for' = m_waiting_for /\ UNCHANGED <<search, rest>>
  BY Zenon DEF Merge, At
<1>2. k \in Key
  BY <1>1, PendingHas, Zenon
<1>3. /\ m_wait[c] = "CLOSED" /\ m_waiting_for[c] = None
      /\ \A j \in Key, t \in Type : /\ <<j, t>> \in m_tickets[c] <=> <<c, t>> \in lock[j].granted
                                    /\ <<c, t>> \notin Range(lock[j].waiting)
  BY <1>1, NotPending, Zenon
<1>4. /\ m_wait' = [m_wait EXCEPT ![c] = "CLOSED"]
      /\ m_waiting_for' = [m_waiting_for EXCEPT ![c] = None]
  BY <1>0, <1>1, <1>3, Zenon DEF Types
<1>5. /\ lock[k] \in Lock /\ lock[k].granted \subseteq Tickets
      /\ Distinct(lock[k].waiting) /\ Compatible(lock[k].granted)
  BY <1>2, LockHas, Zenon
<1>6. l \in Lock /\ l.granted = g /\ l.waiting = lock[k].waiting
  BY <1>5, GrantedSet, Zenon
<1>7. Distinct(l.waiting) /\ Compatible(l.granted)
  BY <1>5, <1>6, FewerCompatible, Zenon
<1>8. \A d \in Context \ {c}, t \in Type : <<d, t>> \in g <=> <<d, t>> \in lock[k].granted
  BY PairsEqual, Zenon
<1>9. ASSUME NEW j \in Key, NEW t \in Type
      PROVE  /\ j # k => (<<j, t>> \in has <=> <<c, t>> \in lock[j].granted)
             /\ <<k, t>> \in has <=> <<c, t>> \in g
             /\ ~Own(NoCall, j, t)
  BY <1>2, <1>3, PairsEqual, NoCallIs, Zenon DEF Own, Pending
<1>10. has \in SUBSET (Key \X Type)
  BY <1>0, Zenon DEF Types
<1> HIDE DEF k, o, g, l, has
<1>11. \A t \in Type : Fits(<<k, t>> \in has, <<c, t>> \in l.granted,
                            <<c, t>> \in Range(l.waiting), Own(NoCall, k, t), "CLOSED")
  BY <1>2, <1>3, <1>6, <1>9, Zenon DEF Fits
<1>12. \A j \in Key \ {k}, t \in Type :
          Fits(<<j, t>> \in has, <<c, t>> \in lock[j].granted,
               <<c, t>> \in Range(lock[j].waiting), Own(NoCall, j, t), "CLOSED")
  BY <1>3, <1>9, Zenon DEF Fits
<1>13. "CLOSED" \in Slot /\ NoCall \in Call /\ NoCall.pc = "idle" /\ NoCall.pc # "victim"
  BY NoCallIs, Zenon DEF Slot
<1>14. \A d \in Context \ {c}, t \in Type :
             /\ <<d, t>> \in l.granted <=> <<d, t>> \in lock[k].granted
             /\ <<d, t>> \in Range(l.waiting) <=> <<d, t>> \in Range(lock[k].waiting)
  BY <1>6, <1>8, Zenon
<1> QED
  BY <1>1, <1>2, <1>4, <1>6, <1>7, <1>10, <1>11, <1>12, <1>13, <1>14, ContextKeeps, Zenon

\* A request is granted at once, or it waits.
LEMMA RequestKeeps ==
  ASSUME MDLInv, NEW c \in Context, NEW k \in Key, NEW t \in Type, NEW old \in Type \cup {None},
         Request(c, k, t, old)
  PROVE  MDLInv'
<1> DEFINE w == <<c, t>>
           new == [pc |-> "merge", key |-> k, type |-> t, old |-> old]
<1>0. Types
  BY Zenon DEF MDLInv
<1>1. /\ call[c].pc = "idle" /\ ~HasLock(c, k, t)
      /\ m_waiting_for' = m_waiting_for /\ UNCHANGED <<search, rest>>
  BY Zenon DEF Request, At
<1>2. /\ m_wait[c] = "CLOSED" /\ m_waiting_for[c] = None
      /\ \A j \in Key, u \in Type : /\ <<j, u>> \in m_tickets[c] <=> <<c, u>> \in lock[j].granted
                                    /\ <<c, u>> \notin Range(lock[j].waiting)
  BY <1>1, NotPending, Zenon
<1>3. m_waiting_for' = [m_waiting_for EXCEPT ![c] = None]
  BY <1>0, <1>1, <1>2, Zenon DEF Types
<1>4. /\ lock[k] \in Lock /\ lock[k].granted \subseteq Tickets
      /\ Distinct(lock[k].waiting) /\ Compatible(lock[k].granted)
  BY LockHas, Zenon
<1>5. w \in Tickets /\ <<k, t>> \in Key \X Type
  BY TicketParts, Zenon
<1>6. CASE can_grant_lock(lock[k], w, FALSE)
  <2> DEFINE g == lock[k].granted \cup {w}
             l == [lock[k] EXCEPT !.granted = g]
             has == m_tickets[c] \cup {<<k, t>>}
             p == IF old = None THEN NoCall ELSE new
  <2>1. /\ lock' = [lock EXCEPT ![k] = l] /\ m_tickets' = [m_tickets EXCEPT ![c] = has]
        /\ call' = [call EXCEPT ![c] = p] /\ m_wait' = m_wait
    BY <1>6, Zenon DEF Request
  <2>2. m_wait' = [m_wait EXCEPT ![c] = "CLOSED"]
    BY <1>0, <1>2, <2>1, Zenon DEF Types
  <2>3. /\ p \in Call /\ p.pc \in {"idle", "merge"}
        /\ p.pc # "idle" => p.key \in Key /\ p.type \in Type
    <3>1. new \in Call /\ new.pc = "merge" /\ new.key = k /\ new.type = t
      BY DEF Call
    <3> HIDE DEF new
    <3> QED
      BY <3>1, NoCallIs, Zenon
  <2> HIDE DEF p
  <2>4. has \in SUBSET (Key \X Type)
    BY <1>0, <1>5, Zenon DEF Types
  <2>5. g \in SUBSET Tickets
    BY <1>4, <1>5, Zenon
  <2>6. Compatible(g)
    BY <1>4, <1>5, <1>6, GrantCompatible, Zenon DEF can_grant_lock
  <2>7. \A d \in Context \ {c}, u \in Type : <<d, u>> \in g <=> <<d, u>> \in lock[k].granted
    BY PairsEqual, Zenon
  <2>8. ASSUME NEW j \in Key, NEW u \in Type
        PROVE  /\ j # k => (<<j, u>> \in has <=> <<c, u>> \in lock[j].granted)
               /\ <<k, u>> \in has <=> <<c, u>> \in g
               /\ ~Own(p, j, u)
    BY <1>2, <2>3, PairsEqual, Zenon DEF Own, Pending
  <2> HIDE DEF g, has
  <2>9. l \in Lock /\ l.granted = g /\ l.waiting = lock[k].waiting
    BY <1>4, <2>5, GrantedSet, Zenon
  <2> HIDE DEF l, w, new
  <2>10. Distinct(l.waiting) /\ Compatible(l.granted)
    BY <1>4, <2>6, <2>9, Zenon
  <2>11. \A u \in Type : Fits(<<k, u>> \in has, <<c, u>> \in l.granted,
                              <<c, u>> \in Range(l.waiting), Own(p, k, u), "CLOSED")
    BY <1>2, <2>8, <2>9, Zenon DEF Fits
  <2>12. \A j \in Key \ {k}, u \in Type :
          Fits(<<j, u>> \in has, <<c, u>> \in lock[j].granted,
               <<c, u>> \in Range(lock[j].waiting), Own(p, j, u), "CLOSED")
    BY <1>2, <2>8, Zenon DEF Fits
  <2>13. "CLOSED" \in Slot /\ p.pc # "victim"
    BY <2>3, Zenon DEF Slot
  <2>14. \A d \in Context \ {c}, u \in Type :
             /\ <<d, u>> \in l.granted <=> <<d, u>> \in lock[k].granted
             /\ <<d, u>> \in Range(l.waiting) <=> <<d, u>> \in Range(lock[k].waiting)
    BY <2>7, <2>9, Zenon
  <2> QED
    BY <1>1, <1>3, <2>1, <2>2, <2>3, <2>4, <2>9, <2>10, <2>11, <2>12, <2>13, <2>14,
       ContextKeeps, Zenon
<1>7. CASE ~can_grant_lock(lock[k], w, FALSE)
  <2> DEFINE l == add_waiting(lock[k], w)
             has == m_tickets[c]
             p == [new EXCEPT !.pc = "announce"]
  <2>1. /\ lock' = [lock EXCEPT ![k] = l] /\ m_tickets' = m_tickets
        /\ call' = [call EXCEPT ![c] = p] /\ m_wait' = [m_wait EXCEPT ![c] = "EMPTY"]
    BY <1>7, Zenon DEF Request
  <2>2. m_tickets' = [m_tickets EXCEPT ![c] = has] /\ has \in SUBSET (Key \X Type)
    BY <1>0, <2>1, Zenon DEF Types
  <2>3. /\ p \in Call /\ p.pc = "announce" /\ p.key = k /\ p.type = t
    BY DEF Call, Pending
  <2> HIDE DEF p
  <2>4. p.pc \in Pending /\ p.pc # "victim"
    BY <2>3, Zenon DEF Pending
  <2>5. /\ l \in Lock /\ l.waiting = Append(lock[k].waiting, w)
        /\ l.granted = lock[k].granted
    BY <1>4, <1>5, AddWaitingIs, Zenon
  <2>6. w \notin Range(lock[k].waiting)
    BY <1>2, Zenon
  <2>7. Range(l.waiting) = Range(lock[k].waiting) \cup {w} /\ Distinct(l.waiting)
    <3> DEFINE q == lock[k].waiting
    <3>1. q \in Seq(Tickets)
      BY <1>4, LockFields, Zenon
    <3> HIDE DEF q, w
    <3>2. /\ Range(Append(q, w)) = Range(q) \cup {w}
          /\ Distinct(q) /\ w \notin Range(q) => Distinct(Append(q, w))
      BY <1>5, <3>1, AppendSet
    <3> QED
      BY <1>4, <2>5, <2>6, <3>2, Zenon DEF q
  <2>8. <<k, t>> \notin has
    BY <1>1, Zenon DEF HasLock, has_stronger_or_equal_type
  <2>9. ASSUME NEW j \in Key, NEW u \in Type
        PROVE  /\ Own(p, j, u) <=> j = k /\ u = t
               /\ <<j, u>> \in has <=> <<c, u>> \in lock[j].granted
               /\ <<c, u>> \in Range(l.waiting) <=> u = t
    BY <1>2, <2>3, <2>4, <2>7, PairsEqual, Zenon DEF Own
  <2> HIDE DEF has
  <2>10. \A d \in Context \ {c}, u \in Type :
             /\ <<d, u>> \in l.granted <=> <<d, u>> \in lock[k].granted
             /\ <<d, u>> \in Range(l.waiting) <=> <<d, u>> \in Range(lock[k].waiting)
    BY <2>5, <2>7, PairsEqual, Zenon
  <2> HIDE DEF l, w, new
  <2>11. \A u \in Type : Fits(<<k, u>> \in has, <<c, u>> \in l.granted,
                              <<c, u>> \in Range(l.waiting), Own(p, k, u), "EMPTY")
    BY <2>5, <2>8, <2>9, Zenon DEF Fits
  <2>12. \A j \in Key \ {k}, u \in Type :
          Fits(<<j, u>> \in has, <<c, u>> \in lock[j].granted,
               <<c, u>> \in Range(lock[j].waiting), Own(p, j, u), "EMPTY")
    BY <1>2, <2>9, Zenon DEF Fits
  <2>13. "EMPTY" \in Slot
    BY Zenon DEF Slot
  <2>14. Distinct(l.waiting) /\ Compatible(l.granted)
    BY <1>4, <2>5, <2>7, Zenon
  <2>15. p.key \in Key /\ p.type \in Type /\ p \in Call /\ p.pc \in Pending
    BY <2>3, <2>4, Zenon
  <2>16. lock' = [lock EXCEPT ![k] = l] /\ l \in Lock /\ call' = [call EXCEPT ![c] = p]
    BY <2>1, <2>5, Zenon
  <2> QED
    BY <1>1, <1>3, <2>1, <2>2, <2>4, <2>10, <2>11, <2>12, <2>13, <2>14, <2>15, <2>16,
       ContextKeeps, Zenon
<1> QED
  BY <1>6, <1>7, Zenon

\* A request is granted at once, or waits.
LEMMA AcquireKeeps ==
  ASSUME MDLInv, NEW c \in Context, acquire_lock(c) \/ upgrade_shared_lock(c)
  PROVE  MDLInv'
<1>1. ASSUME NEW kt \in Key \X Type
      PROVE  kt[1] \in Key /\ kt[2] \in Type
  OBVIOUS
<1>2. CASE acquire_lock(c)
  <2>1. PICK kt \in Wanted[c] : Request(c, kt[1], kt[2], None)
    BY <1>2, Zenon DEF acquire_lock
  <2>2. kt \in Key \X Type
    BY MDLAssumption, Zenon
  <2> QED
    BY <1>1, <2>1, <2>2, RequestKeeps, Zenon
<1>3. CASE upgrade_shared_lock(c)
  <2>1. PICK kt \in m_tickets[c], t \in Type : Request(c, kt[1], t, kt[2])
    BY <1>3, Zenon DEF upgrade_shared_lock
  <2>2. kt \in Key \X Type
    BY Zenon DEF MDLInv, Types
  <2> QED
    BY <1>1, <2>1, <2>2, RequestKeeps, Zenon
<1> QED
  BY <1>2, <1>3, Zenon

\* A failed request leaves nothing behind.
LEMMA FailKeeps ==
  ASSUME MDLInv, NEW c \in Context, Fail(c)
  PROVE  MDLInv'
<1> DEFINE k == call[c].key
           t == call[c].type
           w == <<c, t>>
           l == remove_waiting(lock[k], w)
           has == m_tickets[c]
<1>0. Types
  BY Zenon DEF MDLInv
<1>1. /\ call[c].pc = "remove" /\ Removed(k, l, [m_wait EXCEPT ![c] = "CLOSED"])
      /\ call' = [call EXCEPT ![c] = NoCall] /\ m_tickets' = m_tickets
      /\ UNCHANGED <<m_waiting_for, search, rest>>
  BY Zenon DEF Fail, At, Ticket
<1>2. k \in Key /\ t \in Type
  BY <1>1, PendingHas, Zenon
<1>3. call[c].pc \in Pending /\ m_waiting_for[c] = None
  BY <1>1, Zenon DEF Pending, MDLInv, CallOK
<1>4. /\ lock[k] \in Lock /\ lock[k].granted \subseteq Tickets
      /\ Distinct(lock[k].waiting) /\ Compatible(lock[k].granted)
  BY <1>2, LockHas, Zenon
<1>5. w \in Tickets
  BY <1>2, TicketParts, Zenon
<1>6. /\ l \in Lock /\ Distinct(l.waiting) /\ Range(l.waiting) = Range(lock[k].waiting) \ {w}
      /\ l.granted = lock[k].granted \ {w}
  BY <1>4, <1>5, RemoveWaitingIs, Zenon
<1>7. Compatible(l.granted)
  BY <1>4, <1>6, FewerCompatible, Zenon
<1>8. m_tickets' = [m_tickets EXCEPT ![c] = has] /\ has \in SUBSET (Key \X Type)
  BY <1>0, <1>1, Zenon DEF Types
<1>9. \A d \in Context \ {c}, u \in Type :
             /\ <<d, u>> \in l.granted <=> <<d, u>> \in lock[k].granted
             /\ <<d, u>> \in Range(l.waiting) <=> <<d, u>> \in Range(lock[k].waiting)
  BY <1>6, PairsEqual, Zenon
<1>10. ASSUME NEW j \in Key, NEW u \in Type, ~(j = k /\ u = t)
       PROVE  /\ <<j, u>> \in has <=> <<c, u>> \in lock[j].granted
              /\ <<c, u>> \notin Range(lock[j].waiting)
  <2>1. TicketOK(c, j, u)
    BY Zenon DEF MDLInv
  <2> QED
    BY <1>10, <2>1, Zenon DEF TicketOK, Fits, Own
<1>11. <<k, t>> \notin has
  <2>1. TicketOK(c, k, t)
    BY <1>2, Zenon DEF MDLInv
  <2> QED
    BY <1>3, <2>1, Zenon DEF TicketOK, Fits, Own
<1>12. ASSUME NEW u \in Type
       PROVE  /\ <<k, u>> \in has <=> <<c, u>> \in l.granted
              /\ <<c, u>> \notin Range(l.waiting)
  <2>1. CASE u = t
    BY <1>6, <1>11, <2>1, Zenon
  <2>2. CASE u # t
    <3>1. <<c, u>> # w
      BY <2>2, PairsEqual, Zenon
    <3> QED
      BY <1>2, <1>6, <1>10, <2>2, <3>1, Zenon
  <2> QED
    BY <2>1, <2>2, Zenon
<1>13. NoCall \in Call /\ NoCall.pc = "idle"
  BY NoCallIs, Zenon
<1> DEFINE p == NoCall
<1> HIDE DEF k, t, w, l, has
<1>14. /\ OthersStay(c, lock[k], l)
       /\ HoldsOnly(c, has, k, l) /\ \A j \in Key \ {k} : HoldsOnly(c, has, j, lock[j])
  BY <1>9, <1>10, <1>12, Zenon DEF OthersStay, HoldsOnly
<1>15. \A j \in Key : HoldsOnly(c, has, j, IF j = k THEN l ELSE lock[j])
  BY <1>14, Zenon
<1>16. p \in Call /\ p.pc = "idle" /\ call' = [call EXCEPT ![c] = p]
  BY <1>1, <1>13, Zenon
<1> HIDE DEF p
<1>17. Dropped(c, k, l, has, p)
  BY <1>1, <1>3, <1>6, <1>7, <1>8, <1>14, <1>15, <1>16, Zenon DEF Dropped
<1> QED
  BY <1>2, <1>17, ReleaseKeeps, Zenon

\* Giving up a granted ticket, perhaps for some that conflict with less.
LEMMA DropCompatible ==
  ASSUME NEW G \in SUBSET Tickets, Compatible(G), NEW c \in Context, NEW old \in Type,
         NEW new \in SUBSET Type, <<c, old>> \in G,
         \A t \in new : has_stronger_or_equal_type(old, t)
  PROVE  Compatible((G \ {<<c, old>>}) \cup ({c} \X new))
<1> DEFINE g == (G \ {<<c, old>>}) \cup ({c} \X new)
<1> SUFFICES ASSUME NEW x \in g, NEW y \in g, x[1] # y[1]
             PROVE  y[2] \notin granted_incompatible[x[2]]
  BY Zenon DEF Compatible
<1>0. x \in Tickets /\ y \in Tickets
  <2>1. {c} \X new \subseteq Tickets
    BY DEF Tickets
  <2> QED
    BY <2>1, Zenon
<1>1. <<c, old>>[1] = c /\ <<c, old>>[2] = old
  OBVIOUS
<1>2. \A z \in {c} \X new : z[1] = c /\ z[2] \in new
  OBVIOUS
<1>3. ASSUME NEW z \in G, z[1] # c, NEW t \in new
      PROVE  z[2] \notin granted_incompatible[t]
  <2>1. z[2] \notin granted_incompatible[old]
    BY <1>1, <1>3, Zenon DEF Compatible
  <2> QED
    BY <2>1, Zenon DEF has_stronger_or_equal_type
<1>4. CASE x \in G /\ y \in G
  BY <1>4, Zenon DEF Compatible
<1>5. CASE x \in {c} \X new /\ y \in G
  BY <1>2, <1>3, <1>5, Zenon
<1>6. CASE x \in G /\ y \in {c} \X new
  <2>1. x[2] \notin granted_incompatible[y[2]]
    BY <1>2, <1>3, <1>6, Zenon
  <2> QED
    BY <1>0, <2>1, TypeOfTicket, Tables, Zenon
<1>7. CASE x \in {c} \X new /\ y \in {c} \X new
  BY <1>2, <1>7, Zenon
<1> QED
  BY <1>4, <1>5, <1>6, <1>7, Zenon

\* The context c gives up the ticket <<k, old>> for those of the types new; the
\* lock of k has become l when remove_ticket() is called.
Drops(c, k, old, new, l) ==
    /\ call[c].pc = "idle" /\ k \in Key /\ old \in Type /\ new \in SUBSET Type
    /\ <<k, old>> \in m_tickets[c]
    /\ \A t \in new : <<k, t>> \notin m_tickets[c] /\ has_stronger_or_equal_type(old, t)
    /\ l = [lock[k] EXCEPT !.granted = (@ \ {<<c, old>>}) \cup ({c} \X new)]
    /\ Removed(k, l, m_wait)
    /\ m_tickets' = [m_tickets EXCEPT ![c] = (@ \ {<<k, old>>}) \cup ({k} \X new)]
    /\ UNCHANGED <<m_waiting_for, call, search, rest>>

\* Whatever removes or weakens a granted ticket and reschedules the waiters.
LEMMA DropKeeps ==
  ASSUME MDLInv, NEW c \in Context, NEW k, NEW old, NEW new, NEW l, Drops(c, k, old, new, l)
  PROVE  MDLInv'
<1> /\ call[c].pc = "idle" /\ k \in Key /\ old \in Type /\ new \in SUBSET Type
    /\ <<k, old>> \in m_tickets[c]
    /\ \A t \in new : <<k, t>> \notin m_tickets[c] /\ has_stronger_or_equal_type(old, t)
    /\ l = [lock[k] EXCEPT !.granted = (@ \ {<<c, old>>}) \cup ({c} \X new)]
    /\ Removed(k, l, m_wait)
    /\ m_tickets' = [m_tickets EXCEPT ![c] = (@ \ {<<k, old>>}) \cup ({k} \X new)]
    /\ UNCHANGED <<m_waiting_for, call, search, rest>>
  BY Zenon DEF Drops
<1> DEFINE g == (lock[k].granted \ {<<c, old>>}) \cup ({c} \X new)
           has == (m_tickets[c] \ {<<k, old>>}) \cup ({k} \X new)
<1>0. Types
  BY Zenon DEF MDLInv
<1>1. /\ m_wait[c] = "CLOSED" /\ m_waiting_for[c] = None
      /\ \A j \in Key, u \in Type : /\ <<j, u>> \in m_tickets[c] <=> <<c, u>> \in lock[j].granted
                                    /\ <<c, u>> \notin Range(lock[j].waiting)
  BY NotPending, Zenon
<1>2. /\ lock[k] \in Lock /\ lock[k].granted \subseteq Tickets
      /\ Distinct(lock[k].waiting) /\ Compatible(lock[k].granted)
  BY LockHas, Zenon
<1>3. \A d, j, u : <<d, u>> \in {j} \X new <=> d = j /\ u \in new
  OBVIOUS
<1>4. {c} \X new \subseteq Tickets /\ {k} \X new \subseteq Key \X Type
  BY DEF Tickets
<1>5. g \in SUBSET Tickets /\ has \in SUBSET (Key \X Type)
  BY <1>0, <1>2, <1>4, Zenon DEF Types
<1>6. l \in Lock /\ l.granted = g /\ l.waiting = lock[k].waiting
  BY <1>2, <1>5, GrantedSet, Zenon
<1>7. Compatible(g)
  <2>1. <<c, old>> \in lock[k].granted /\ \A t \in new : has_stronger_or_equal_type(old, t)
    BY <1>1, Zenon
  <2> QED
    BY <1>2, <2>1, DropCompatible, Zenon
<1>8. \A d \in Context \ {c}, u \in Type : <<d, u>> \in g <=> <<d, u>> \in lock[k].granted
  BY <1>3, PairsEqual, Zenon
<1>9. \A j \in Key \ {k}, u \in Type : <<j, u>> \in has <=> <<c, u>> \in lock[j].granted
  BY <1>1, <1>3, PairsEqual, Zenon
<1>10. \A u \in Type : <<k, u>> \in has <=> <<c, u>> \in g
  BY <1>1, <1>3, PairsEqual, Zenon
<1>11. /\ m_wait = [m_wait EXCEPT ![c] = "CLOSED"] /\ call[c] \in Call
       /\ call' = [call EXCEPT ![c] = call[c]] /\ m_tickets' = [m_tickets EXCEPT ![c] = has]
  BY <1>0, <1>1, Zenon DEF Types
<1>12. Removed(k, l, [m_wait EXCEPT ![c] = "CLOSED"])
  BY <1>11, Zenon
<1> HIDE DEF g, has
<1>13. /\ \A d \in Context \ {c}, u \in Type :
             /\ <<d, u>> \in l.granted <=> <<d, u>> \in lock[k].granted
             /\ <<d, u>> \in Range(l.waiting) <=> <<d, u>> \in Range(lock[k].waiting)
       /\ Distinct(l.waiting) /\ Compatible(l.granted)
  BY <1>2, <1>6, <1>7, <1>8, Zenon
<1>14. \A u \in Type : /\ <<k, u>> \in has <=> <<c, u>> \in l.granted
                       /\ <<c, u>> \notin Range(l.waiting)
  BY <1>1, <1>6, <1>10, Zenon
<1>15. UNCHANGED <<m_waiting_for, search, rest>> /\ m_waiting_for[c] = None
  BY <1>1, Zenon
<1>16. /\ OthersStay(c, lock[k], l) /\ HoldsOnly(c, has, k, l)
       /\ \A j \in Key \ {k} : HoldsOnly(c, has, j, lock[j])
  BY <1>1, <1>9, <1>13, <1>14, Zenon DEF OthersStay, HoldsOnly
<1> DEFINE p == call[c]
<1>17. p \in Call /\ p.pc = "idle" /\ call' = [call EXCEPT ![c] = p]
  BY <1>11, Zenon
<1>18. l \in Lock /\ has \in SUBSET (Key \X Type) /\ m_tickets' = [m_tickets EXCEPT ![c] = has]
  BY <1>5, <1>6, <1>11, Zenon
<1>19. \A j \in Key : HoldsOnly(c, has, j, IF j = k THEN l ELSE lock[j])
  BY <1>16, Zenon
<1> HIDE DEF p
<1>20. Dropped(c, k, l, has, p)
  BY <1>12, <1>13, <1>15, <1>16, <1>17, <1>18, <1>19, Zenon DEF Dropped
<1> QED
  BY <1>20, ReleaseKeeps, Zenon

\* release_lock() is such a step.
LEMMA ReleaseLockDrops ==
  ASSUME MDLInv, NEW c \in Context, release_lock(c)
  PROVE  \E k, old, new, l : Drops(c, k, old, new, l)
<1>1. PICK kt \in m_tickets[c] :
        /\ call[c].pc = "idle"
        /\ Removed(kt[1], [lock[kt[1]] EXCEPT !.granted = @ \ {<<c, kt[2]>>}], m_wait)
        /\ m_tickets' = [m_tickets EXCEPT ![c] = @ \ {kt}]
        /\ UNCHANGED <<m_waiting_for, call, search, rest>>
  BY Zenon DEF release_lock, At
<1> DEFINE k == kt[1]
           t == kt[2]
<1>2. kt \in Key \X Type
  BY Zenon DEF MDLInv, Types
<1>3. k \in Key /\ t \in Type /\ kt = <<k, t>>
  BY <1>2
<1>4. \A S, x, y : (S \ {x}) \cup ({y} \X {}) = S \ {x}
  OBVIOUS
<1>5. /\ [lock[k] EXCEPT !.granted = @ \ {<<c, t>>}] =
           [lock[k] EXCEPT !.granted = (@ \ {<<c, t>>}) \cup ({c} \X {})]
      /\ m_tickets' = [m_tickets EXCEPT ![c] = (@ \ {<<k, t>>}) \cup ({k} \X {})]
  BY <1>1, <1>3, <1>4, Zenon
<1> DEFINE l == [lock[k] EXCEPT !.granted = @ \ {<<c, t>>}]
           new == {}
<1>6. /\ Removed(k, l, m_wait) /\ call[c].pc = "idle" /\ k \in Key /\ t \in Type
      /\ <<k, t>> \in m_tickets[c] /\ new \in SUBSET Type
      /\ UNCHANGED <<m_waiting_for, call, search, rest>>
      /\ \A x \in new : <<k, x>> \notin m_tickets[c] /\ has_stronger_or_equal_type(t, x)
      /\ l = [lock[k] EXCEPT !.granted = (@ \ {<<c, t>>}) \cup ({c} \X new)]
      /\ m_tickets' = [m_tickets EXCEPT ![c] = (@ \ {<<k, t>>}) \cup ({k} \X new)]
  BY <1>1, <1>3, <1>5, Zenon
<1> HIDE DEF k, t, l, new
<1>7. Drops(c, k, t, new, l)
  BY <1>6, Zenon DEF Drops
<1> QED
  BY <1>7, Zenon

\* So is downgrade_lock().
LEMMA DowngradeLockDrops ==
  ASSUME MDLInv, NEW c \in Context, downgrade_lock(c)
  PROVE  \E k, old, new, l : Drops(c, k, old, new, l)
<1>1. PICK kt \in m_tickets[c], u \in Type :
        /\ call[c].pc = "idle" /\ <<kt[1], u>> \notin m_tickets[c]
        /\ has_stronger_or_equal_type(kt[2], u)
        /\ Removed(kt[1], [lock[kt[1]] EXCEPT
                             !.granted = (@ \ {<<c, kt[2]>>}) \cup {<<c, u>>}], m_wait)
        /\ m_tickets' = [m_tickets EXCEPT ![c] = (@ \ {kt}) \cup {<<kt[1], u>>}]
        /\ UNCHANGED <<m_waiting_for, call, search, rest>>
  BY Zenon DEF downgrade_lock, At
<1> DEFINE k == kt[1]
           t == kt[2]
<1>2. kt \in Key \X Type
  BY Zenon DEF MDLInv, Types
<1>3. k \in Key /\ t \in Type /\ kt = <<k, t>>
  BY <1>2
<1>4. \A x : {<<x, u>>} = {x} \X {u}
  OBVIOUS
<1>5. /\ [lock[k] EXCEPT !.granted = (@ \ {<<c, t>>}) \cup {<<c, u>>}] =
           [lock[k] EXCEPT !.granted = (@ \ {<<c, t>>}) \cup ({c} \X {u})]
      /\ m_tickets' = [m_tickets EXCEPT ![c] = (@ \ {<<k, t>>}) \cup ({k} \X {u})]
  BY <1>1, <1>3, <1>4, Zenon
<1> DEFINE l == [lock[k] EXCEPT !.granted = (@ \ {<<c, t>>}) \cup {<<c, u>>}]
           new == {u}
<1>6. /\ Removed(k, l, m_wait) /\ call[c].pc = "idle" /\ k \in Key /\ t \in Type
      /\ <<k, t>> \in m_tickets[c] /\ new \in SUBSET Type
      /\ UNCHANGED <<m_waiting_for, call, search, rest>>
      /\ \A x \in new : <<k, x>> \notin m_tickets[c] /\ has_stronger_or_equal_type(t, x)
      /\ l = [lock[k] EXCEPT !.granted = (@ \ {<<c, t>>}) \cup ({c} \X new)]
      /\ m_tickets' = [m_tickets EXCEPT ![c] = (@ \ {<<k, t>>}) \cup ({k} \X new)]
  BY <1>1, <1>3, <1>5, Zenon
<1> HIDE DEF k, t, l, new
<1>7. Drops(c, k, t, new, l)
  BY <1>6, Zenon DEF Drops
<1> QED
  BY <1>7, Zenon

-----------------------------------------------------------------------------
(* Theorems *)

\* The invariant holds at first.
LEMMA InitKeeps ==
  ASSUME Init
  PROVE  MDLInv
<1>1. NewLock \in Lock /\ NewLock.granted = {} /\ NewLock.waiting = <<>>
  BY MDLAssumption DEF NewLock, Lock
<1>2. NoSearch \in Search /\ Len(NoSearch.path) < MAX_SEARCH_DEPTH
  BY MDLAssumption DEF NoSearch, Search
<1>3. Types
  <2>1. max_write_lock_count \in Nat
    BY MDLAssumption, Zenon DEF Init
  <2> QED
    BY <1>1, <1>2, <2>1, NoCallIs, Zenon DEF Init, Types, Slot
<1>4. /\ \A k \in Key : lock[k] = NewLock
      /\ \A c \in Context : /\ m_tickets[c] = {} /\ m_wait[c] = "CLOSED"
                            /\ m_waiting_for[c] = None
                            /\ call[c] = NoCall /\ search[c] = NoSearch
  BY Zenon DEF Init
<1>5. Range(<<>>) = {} /\ Distinct(<<>>) /\ Compatible({})
  BY DEF Range, Distinct, Compatible
<1>6. NoCall.pc \notin Pending
  BY NoCallIs, Zenon DEF Pending
<1>7. \A c \in Context : CallOK(c)
  BY <1>2, <1>4, NoCallIs, Zenon DEF CallOK
<1>8. \A c \in Context, k \in Key, t \in Type : TicketOK(c, k, t)
  BY <1>1, <1>4, <1>5, <1>6, Zenon DEF TicketOK, Fits, Own
<1>9. \A k \in Key : Distinct(lock[k].waiting) /\ Compatible(lock[k].granted)
  BY <1>1, <1>4, <1>5, Zenon
<1> QED
  BY <1>3, <1>7, <1>8, <1>9, Zenon DEF MDLInv

\* Every step keeps the invariant.
LEMMA NextKeeps ==
  ASSUME MDLInv, [Next]_vars
  PROVE  MDLInv'
<1>1. CASE Next
  <2>1. PICK c \in Context :
            \/ acquire_lock(c) \/ upgrade_shared_lock(c)
            \/ will_wait_for(c) \/ StartSearch(c) \/ ContinueSearch(c) \/ SetVictim(c)
            \/ TimedOut(c) \/ Disconnected(c) \/ done_waiting_for(c)
            \/ Fail(c) \/ Merge(c)
            \/ release_lock(c) \/ downgrade_lock(c)
    BY <1>1, Zenon DEF Next
  <2> QED
    BY <2>1, AcquireKeeps, WillWaitForKeeps, StartSearchKeeps, ContinueSearchKeeps,
       SetVictimKeeps, TimedOutKeeps, DisconnectedKeeps, DoneWaitingForKeeps, FailKeeps,
       MergeKeeps, ReleaseLockDrops, DowngradeLockDrops, DropKeeps, Zenon
<1>2. CASE UNCHANGED vars
  <2>1. /\ lock' = lock /\ m_tickets' = m_tickets /\ m_wait' = m_wait
        /\ m_waiting_for' = m_waiting_for /\ call' = call /\ search' = search
        /\ gone' = gone /\ max_write_lock_count' = max_write_lock_count
    BY <1>2, Zenon DEF vars, rest
  <2>2. Types' /\ \A c \in Context : CallOK(c)'
    BY <2>1, Zenon DEF MDLInv, Types, CallOK
  <2>3. \A c \in Context, k \in Key, t \in Type : TicketOK(c, k, t)'
    BY <2>1, Zenon DEF MDLInv, TicketOK
  <2>4. \A k \in Key : Distinct(lock'[k].waiting) /\ Compatible(lock'[k].granted)
    BY <2>1, Zenon DEF MDLInv
  <2> QED
    BY <2>2, <2>3, <2>4, Zenon DEF MDLInv
<1> QED
  BY <1>1, <1>2, Zenon

\* The inductive invariant holds in every behaviour of the metadata locks.
THEOREM MDLInvariant == Spec => []MDLInv
<1>1. Init => MDLInv
  BY InitKeeps
<1>2. MDLInv /\ [Next]_vars => MDLInv'
  BY NextKeeps
<1> QED
  BY <1>1, <1>2, PTL DEF Spec

\* The locks, slots, calls and searches keep their types; the path of a search
\* stays below MAX_SEARCH_DEPTH.
THEOREM MDLTypeCorrect == Spec => []TypeOK
<1>1. MDLInv => TypeOK
  <2> SUFFICES ASSUME MDLInv PROVE TypeOK
    OBVIOUS
  <2>1. ASSUME NEW k \in Key
        PROVE  /\ lock[k].granted \subseteq Context \X Type
               /\ lock[k].waiting \in Seq(Context \X Type)
               /\ lock[k].bitmap \subseteq Type
               /\ lock[k].count \in [Type -> Int]
               /\ lock[k].hog \in 0..MaxHog
    BY LockHas, LockFields, Zenon DEF Tickets
  <2>2. ASSUME NEW c \in Context
        PROVE  /\ search[c].victim \in Context \cup {None}
               /\ Len(search[c].path) < MAX_SEARCH_DEPTH
    BY SearchesFit, SearchFields, Zenon
  <2>3. /\ m_tickets \in [Context -> SUBSET (Key \X Type)]
        /\ m_wait \in [Context -> {"EMPTY", "GRANTED", "CLOSED"}]
        /\ m_waiting_for \in [Context -> Key \cup {None}]
        /\ gone \subseteq Context
    BY Zenon DEF MDLInv, Types, Slot
  <2> QED
    BY <2>1, <2>2, <2>3, Zenon DEF TypeOK
<1> QED
  BY <1>1, MDLInvariant, PTL

\* No two contexts ever hold incompatible locks on a key.
THEOREM GrantsCompatible == Spec => []NoConflictingGrants
<1>1. MDLInv => NoConflictingGrants
  BY Zenon DEF MDLInv, Compatible, NoConflictingGrants, Blocking
<1> QED
  BY <1>1, MDLInvariant, PTL

\* A context without a call in progress has exactly the tickets that the locks
\* have granted to it, and none of its tickets waits.
THEOREM TicketsAgree == Spec => []TicketsMatch
<1>1. MDLInv => TicketsMatch
  BY NotPending, Zenon DEF TicketsMatch, At
<1> QED
  BY <1>1, MDLInvariant, PTL

=============================================================================

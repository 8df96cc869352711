---------------------------- MODULE LogDurability ----------------------------
(***************************************************************************)
(* What the redo log promises to its users, without the two locks, the     *)
(* group commit or the log buffer: a log of which a prefix is in the file  *)
(* and a shorter one survives a power failure, and requests that are       *)
(* answered, each once, and not before the prefix they asked for is long   *)
(* enough.  LogSys implements it.                                          *)
(***************************************************************************)
EXTENDS Naturals

CONSTANTS
    Thread,
    MaxLsn      \* bound on the log sequence number

VARIABLES
    appended,   \* the end of the log
    written,    \* the prefix that survives a crash of the server process
    durable,    \* the prefix that survives a power failure
    flushed,    \* the prefix that everybody may rely on to be durable
    asked,      \* the request each thread is waiting for
    deferred    \* the commits that are answered by a completion callback

vars == <<appended, written, durable, flushed, asked, deferred>>

NoRequest == [lsn |-> 0, durable |-> FALSE]

Init ==
    /\ appended = 0 /\ written = 0 /\ durable = 0 /\ flushed = 0
    /\ asked = [t \in Thread |-> NoRequest]
    /\ deferred = [l \in 1..MaxLsn |-> "none"]

\* A thread asks for a prefix of the log, which it may just have appended to.
Ask(t) ==
    /\ asked[t] = NoRequest
    /\ appended' \in {appended, appended + 1}
    /\ \E l \in 1..appended', d \in BOOLEAN :
         asked' = [asked EXCEPT ![t] = [lsn |-> l, durable |-> d]]
    /\ UNCHANGED <<written, durable, flushed, deferred>>

Write ==
    /\ written' \in (written + 1)..appended
    /\ durable' \in durable..written'
    /\ UNCHANGED <<appended, flushed, asked, deferred>>

Persist ==
    /\ UNCHANGED <<appended, written>>
    /\ durable' \in durable..written
    /\ flushed' \in flushed..durable'
    /\ UNCHANGED <<asked, deferred>>

\* The thread goes on without an answer; its commit is answered later.
Defer(t) ==
    /\ asked[t] # NoRequest
    /\ deferred[asked[t].lsn] = "none"
    /\ deferred' = [deferred EXCEPT ![asked[t].lsn] =
                      IF asked[t].durable THEN "durable" ELSE "written"]
    /\ asked' = [asked EXCEPT ![t] = NoRequest]
    /\ UNCHANGED <<appended, written, durable, flushed>>

Return(t) ==
    /\ asked[t] # NoRequest
    /\ asked[t].lsn <= IF asked[t].durable THEN durable ELSE written
    /\ asked' = [asked EXCEPT ![t] = NoRequest]
    /\ UNCHANGED <<appended, written, durable, flushed, deferred>>

\* Callbacks run, several of them one after the other.
Answer(ls) ==
    /\ \A l \in ls : \/ deferred[l] = "durable" /\ l <= durable
                     \/ deferred[l] = "written" /\ l <= written
    /\ deferred' = [l \in DOMAIN deferred |->
                      IF l \in ls THEN "answered" ELSE deferred[l]]
    /\ UNCHANGED <<appended, written, durable, flushed, asked>>

Next ==
    \/ Persist \/ Write
    \/ \E t \in Thread : Ask(t) \/ Defer(t) \/ Return(t)
    \/ \E ls \in SUBSET DOMAIN deferred : Answer(ls)

Spec == Init /\ [][Next]_vars

=============================================================================

---------------------------- MODULE Connections ----------------------------
(***************************************************************************)
(* Who waits for whom inside Postgres and in front of it.  Every unit of   *)
(* work runs one or two database sessions, one after the other: an upload  *)
(* or a delete its transaction and then the manifest dump in a fresh       *)
(* session, a compile task its query and, after rendering, its INSERT; a   *)
(* dialog step has one.  A session takes a connection from the pool of the *)
(* engine with its first statement and keeps it until it ends, during the  *)
(* download and every reply.  The first session of an upload locks the row *)
(* of its user, that of a delete the row of its clip.                      *)
(*                                                                         *)
(* An operator called X_Slip is X with a plausible mistake.                *)
(***************************************************************************)
EXTENDS Naturals, FiniteSets, Sequences

CONSTANTS
    Updates,      \* units of work that can be in flight at the same time
    Rows,         \* rows that several transactions write
    NoRow,
    RowOf,        \* RowOf[t]: the row the first session of t locks, or NoRow
    Sessions,     \* Sessions[t]: how many sessions t has, 1 or 2
    PoolSize      \* pool_size + max_overflow of the engine

ASSUME RowAssumption     == NoRow \notin Rows /\ RowOf \in [Updates -> Rows \cup {NoRow}]
ASSUME SessionAssumption == Sessions \in [Updates -> {1, 2}]
ASSUME PoolAssumption    == PoolSize \in Nat \ {0}

VARIABLES
    pc,         \* where each unit of work is
    session,    \* which of its sessions it is in
    locks       \* locks[w]: the holder of row w, then those that wait for it

vars == <<pc, session, locks>>

Init ==
    /\ pc = [t \in Updates |-> "idle"]
    /\ session = [t \in Updates |-> 1]
    /\ locks = [w \in Rows |-> <<>>]

\* Sessions with a connection.
Holding == {t \in Updates : pc[t] \in {"connected", "blocked", "working"}}

PoolIsFull == Cardinality(Holding) >= PoolSize

-----------------------------------------------------------------------------
\* The first statement of a session asks the pool for a connection: an update
\* has passed the allowlist, or the work between the sessions is over.
Ask(t) ==
    /\ pc[t] \in {"idle", "between"}
    /\ pc' = [pc EXCEPT ![t] = "asking"]
    /\ UNCHANGED <<session, locks>>

\* Not in the order of asking: the pool lets a newcomer take a connection that
\* comes back before the one that was woken for it runs.
Connect(t) ==
    /\ pc[t] = "asking" /\ ~PoolIsFull
    /\ pc' = [pc EXCEPT ![t] = "connected"]
    /\ UNCHANGED <<session, locks>>

\* QueuePool gives up after its timeout; the update fails, a dump is logged.
GiveUp(t) ==
    /\ pc[t] = "asking" /\ PoolIsFull
    /\ pc' = [pc EXCEPT ![t] = "idle"]
    /\ session' = [session EXCEPT ![t] = 1]
    /\ UNCHANGED locks

Locking(t) == session[t] = 1 /\ RowOf[t] # NoRow

\* A session without a contended row reads or inserts rows of its own.
Work(t) ==
    /\ pc[t] = "connected" /\ ~Locking(t)
    /\ pc' = [pc EXCEPT ![t] = "working"]
    /\ UNCHANGED <<session, locks>>

\* The upsert of the user, or the DELETE of the clip: in line for the row.
LockRow(t) ==
    /\ pc[t] = "connected" /\ Locking(t)
    /\ pc' = [pc EXCEPT ![t] = "blocked"]
    /\ locks' = [locks EXCEPT ![RowOf[t]] = Append(@, t)]
    /\ UNCHANGED session

Locked_Slip(t) ==                \* a SELECT before the INSERT, no upsert
    /\ pc[t] = "blocked"
    /\ pc' = [pc EXCEPT ![t] = "working"]
    /\ UNCHANGED <<session, locks>>

Locked(t) ==
    /\ pc[t] = "blocked" /\ locks[RowOf[t]] # <<>> /\ t = Head(locks[RowOf[t]])
    /\ pc' = [pc EXCEPT ![t] = "working"]
    /\ UNCHANGED <<session, locks>>

Unlock(t) == locks' = IF Locking(t) THEN [locks EXCEPT ![RowOf[t]] = Tail(@)] ELSE locks

Commit_Slip(t) ==                \* the dump runs before the COMMIT
    /\ pc[t] = "working"
    /\ IF session[t] < Sessions[t]
       THEN /\ pc' = [pc EXCEPT ![t] = "between"]
            /\ session' = [session EXCEPT ![t] = 2]
            /\ UNCHANGED locks
       ELSE /\ pc' = [pc EXCEPT ![t] = "idle"]
            /\ session' = [session EXCEPT ![t] = 1]
            /\ locks' = [w \in Rows |-> SelectSeq(locks[w], LAMBDA s : s # t)]

\* The session ends: its connection and its row are free again before the
\* next one asks.
Commit(t) ==
    /\ pc[t] = "working"
    /\ IF session[t] < Sessions[t]
       THEN /\ pc' = [pc EXCEPT ![t] = "between"]
            /\ session' = [session EXCEPT ![t] = 2]
       ELSE /\ pc' = [pc EXCEPT ![t] = "idle"]
            /\ session' = [session EXCEPT ![t] = 1]
    /\ Unlock(t)

Rollback_Slip(t) ==              \* the connection goes back without a rollback
    /\ pc[t] = "working"
    /\ pc' = [pc EXCEPT ![t] = "idle"]
    /\ session' = [session EXCEPT ![t] = 1]
    /\ UNCHANGED locks

\* The handler or the COMMIT raises: no second session.
Rollback(t) ==
    /\ pc[t] = "working"
    /\ pc' = [pc EXCEPT ![t] = "idle"]
    /\ session' = [session EXCEPT ![t] = 1]
    /\ Unlock(t)

\* What goes on by itself once it has begun: the pool answers or times out, a
\* download ends or raises, Postgres hands a row to the next in line.
Step(t) == \/ pc[t] = "between" /\ Ask(t)
           \/ Connect(t) \/ GiveUp(t) \/ Work(t) \/ LockRow(t) \/ Locked(t)
           \/ Commit(t) \/ Rollback(t)

Next == \E t \in Updates : Ask(t) \/ Step(t)

Spec == Init /\ [][Next]_vars /\ \A t \in Updates : WF_vars(Step(t))
-----------------------------------------------------------------------------
(* Properties *)

InLine(t, seq) == \E i \in 1..Len(seq) : seq[i] = t

\* Every variable stays in its domain.
TypeOK ==
    /\ pc \in [Updates -> {"idle", "asking", "connected", "blocked", "working", "between"}]
    /\ session \in [Updates -> {1, 2}]
    /\ locks \in [Rows -> Seq(Updates)]

\* Nobody waits for a connection while it has a row or stands in line for one,
\* and whoever has a row has a connection to give it back with: the manifest
\* dump and the record of a reel use a session that is opened after the other
\* one has ended (DependenciesMiddleware, compile_progress_reel).  With the
\* opposite order a full pool of uploads waiting for one row would stand still.
NoHoldAndWait ==
    \A t \in Updates : (\E w \in Rows : InLine(t, locks[w])) => t \in Holding

\* One holder per row: who works on a contended row is the head of its line,
\* so of two uploads of a user, or two confirmations of one delete, the second
\* starts when the first has committed or rolled back.
RowsAreExclusive ==
    \A s, t \in Updates :
        pc[s] = "working" /\ pc[t] = "working" /\ Locking(s) /\ Locking(t)
           /\ RowOf[s] = RowOf[t] => s = t

\* A full pool is never a standstill: one of the sessions that fill it can go on
\* with what it has, it has its connection and waits for no row, or its row is
\* free for it (DependenciesMiddleware, TagRepo, UserRepo: one row per session,
\* locked last).
SomeoneCanGoOn ==
    PoolIsFull => \E t \in Holding :
        \/ pc[t] \in {"connected", "working"}
        \/ locks[RowOf[t]] # <<>> /\ t = Head(locks[RowOf[t]])

\* A pool that is full of sessions, most of them blocked on one row, drains by
\* itself: it takes no timeout and no new connection to get out of it.
PoolDrains == PoolIsFull ~> ~PoolIsFull

\* Whatever asks for a connection ends, and the row it waits for comes free.
EveryUpdateEnds == \A t \in Updates : pc[t] = "asking" ~> pc[t] = "idle"

(* Why the safety properties hold *)

\* A line for a row is of first sessions that lock this row, each once and
\* with a connection, and who works on the row is at its head.
LinesSound ==
    /\ \A w \in Rows : \A i \in 1..Len(locks[w]) :
         LET t == locks[w][i]
         IN  /\ RowOf[t] = w /\ session[t] = 1 /\ pc[t] \in {"blocked", "working"}
             /\ \A j \in 1..Len(locks[w]) : locks[w][j] = t => j = i
    /\ \A t \in Updates :
         /\ pc[t] = "blocked" => Locking(t)
         /\ pc[t] = "working" /\ Locking(t)
               => Len(locks[RowOf[t]]) > 0 /\ locks[RowOf[t]][1] = t

\* Who waits for a row stands in its line.
WaitersInLine == \A t \in Updates : pc[t] = "blocked" => InLine(t, locks[RowOf[t]])

IInv == TypeOK /\ LinesSound /\ WaitersInLine
=============================================================================

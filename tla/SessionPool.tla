---------------------------- MODULE SessionPool ----------------------------
(***************************************************************************)
(* cyng::db::session_pool: connected sessions kept ready for users, renewed *)
(* one by one by a timer.                                                   *)
(*                                                                          *)
(* get_session() and the bodies of start(), stop() and on_timer() run under *)
(* mutex_ and are one step each; what start() and stop() do before they     *)
(* take the mutex is a step of its own, and a timer that has expired waits  *)
(* as a posted handler until a pool thread calls on_timer().                *)
(*                                                                          *)
(* Connecting can fail: the database is down, or it has handed out all its  *)
(* connections (Sessions).                                                  *)
(***************************************************************************)
EXTENDS Integers, Sequences, FiniteSets, SequencesExt

CONSTANTS
    Users,          \* threads that call get_session()
    Sessions,       \* the connections the database is ready to serve
    PoolSizes,      \* values of the parameter "pool-size"
    MaxStarts       \* bound: calls of start()

ASSUME SessionPoolAssumption ==
    /\ Sessions \subseteq Nat \ {0}
    /\ PoolSizes \subseteq Nat
    /\ MaxStarts \in Nat

VARIABLES
    pool,       \* pool_: idle sessions, the oldest first
    poolSize,   \* pool_size_
    longLife,   \* life_time_ is 5 seconds or more
    held,       \* per user: its session; 0 none, -1 one that is not connected
    db,         \* the database accepts connections
    timer,      \* a wait on timer_ is pending
    due,        \* on_timer() handlers posted without an error code
    admin,      \* where the thread that calls start() and stop() is
    starts,     \* number of start() calls
    stopped,    \* history: stop() was the last call that returned
    spin        \* on_timer() connects without end: the size test underflowed

vars == <<pool, poolSize, longLife, held, db, timer, due, admin, starts, stopped, spin>>

None == 0
Unconnected == -1

TypeOK ==
    /\ pool \in Seq(Sessions)
    /\ poolSize \in Nat
    /\ longLife \in BOOLEAN
    /\ held \in [Users -> Sessions \cup {None, Unconnected}]
    /\ db \in BOOLEAN
    /\ timer \in BOOLEAN
    /\ due \in 0 .. MaxStarts + 1
    /\ admin \in {"idle", "starting", "stopping"}
    /\ starts \in 0 .. MaxStarts
    /\ stopped \in BOOLEAN
    /\ spin \in BOOLEAN

----------------------------------------------------------------------------
\* Connections that are in use: session::connect() needs another one.
Idle == ToSet(pool)
Taken == {held[u] : u \in Users} \cap Sessions
Free(p) == Sessions \ (ToSet(p) \cup Taken)

\* add_session(): a new session at the end of the list, or none.
AddSession(p) ==
    IF db /\ Free(p) # {}
    THEN Append(p, CHOOSE s \in Free(p) : \A t \in Free(p) : s =< t)
    ELSE p

\* n times add_session().
AddSessions(p, n) ==
    LET added[i \in 0 .. n] == IF i = 0 THEN p ELSE AddSession(added[i - 1])
    IN  added[n]

\* Mutant: the session that is handed out stays in the list.
TakeOldestCopy(p) == p

\* pool_.pop_front() behind the move of the oldest session.
TakeOldest(p) == Tail(p)

\* get_session().  A pool of one session lends it out and keeps it.
GetSession(u) ==
    /\ ~spin
    /\ held[u] = None
    /\ IF pool = <<>>
       THEN /\ held' = [held EXCEPT ![u] = Unconnected]
            /\ UNCHANGED pool
       ELSE /\ held' = [held EXCEPT ![u] = Head(pool)]
            /\ pool' = IF poolSize = 1 THEN pool ELSE TakeOldest(AddSession(pool))
    /\ UNCHANGED <<poolSize, longLife, db, timer, due, admin, starts, stopped, spin>>

\* The user's session goes out of scope.
Release(u) ==
    /\ held[u] # None
    /\ held' = [held EXCEPT ![u] = None]
    /\ UNCHANGED <<pool, poolSize, longLife, db, timer, due, admin, starts, stopped, spin>>

----------------------------------------------------------------------------
\* start(): the size is set before the mutex is locked.  A call with the size
\* 0 returns at once.  The test of the life time is one of the old value, and
\* fails with the new size already set.  Nothing keeps a user from starting a
\* pool that is running.
StartBegin(n, long) ==
    /\ admin = "idle"
    /\ starts < MaxStarts
    /\ n >= 1
    /\ poolSize' = n
    /\ IF longLife
       THEN /\ longLife' = long
            /\ admin' = "starting"
       ELSE UNCHANGED <<longLife, admin>>
    /\ starts' = starts + 1
    /\ UNCHANGED <<pool, held, db, timer, due, stopped, spin>>

\* start(), under the mutex: build up the pool.  One session needs no timer.
StartFill ==
    /\ ~spin
    /\ admin = "starting"
    /\ pool' = AddSessions(pool, poolSize)
    /\ timer' = (timer \/ poolSize > 1)
    /\ admin' = "idle"
    /\ stopped' = FALSE
    /\ UNCHANGED <<poolSize, longLife, held, db, due, starts, spin>>

\* stop(): the timer is cancelled, but a handler that is posted stays so.
StopBegin ==
    /\ admin = "idle"
    /\ timer' = FALSE
    /\ admin' = "stopping"
    /\ UNCHANGED <<pool, poolSize, longLife, held, db, due, starts, stopped, spin>>

\* stop(), under the mutex: the idle sessions are closed.
StopClear ==
    /\ ~spin
    /\ admin = "stopping"
    /\ pool' = <<>>
    /\ admin' = "idle"
    /\ stopped' = TRUE
    /\ UNCHANGED <<poolSize, longLife, held, db, timer, due, starts, spin>>

----------------------------------------------------------------------------
TimerExpires ==
    /\ timer
    /\ timer' = FALSE
    /\ due' = due + 1
    /\ UNCHANGED <<pool, poolSize, longLife, held, db, admin, starts, stopped, spin>>

\* Mutant: the newest session is removed, not the oldest one.
ShuffledNewest(p) == Front(AddSession(p))

\* A full pool gets one new session for its oldest one.  When the connect
\* fails the pool loses one.
Shuffled(p) == Tail(AddSession(p))

\* Mutant: the number of missing sessions is off by one.
RefilledShort(p) == AddSessions(p, poolSize - Len(p) - 1)

Refilled(p) == AddSessions(p, poolSize - Len(p))

\* on_timer() without an error.  The difference of the sizes is unsigned: a
\* pool that is too large is filled up without end.
OnTimer ==
    /\ ~spin
    /\ due > 0
    /\ due' = due - 1
    /\ IF Len(pool) > poolSize
       THEN spin' = TRUE /\ UNCHANGED <<pool, timer>>
       ELSE /\ pool' = IF Len(pool) = poolSize THEN Shuffled(pool) ELSE Refilled(pool)
            /\ timer' = TRUE
            /\ UNCHANGED spin
    /\ UNCHANGED <<poolSize, longLife, held, db, admin, starts, stopped>>

DatabaseFails ==
    /\ db
    /\ db' = FALSE
    /\ UNCHANGED <<pool, poolSize, longLife, held, timer, due, admin, starts, stopped, spin>>

DatabaseReturns ==
    /\ ~db
    /\ db' = TRUE
    /\ UNCHANGED <<pool, poolSize, longLife, held, timer, due, admin, starts, stopped, spin>>

----------------------------------------------------------------------------
Init ==
    /\ pool = <<>>
    /\ poolSize \in {1, 5}      \* SQLite, any other database
    /\ longLife = TRUE
    /\ held = [u \in Users |-> None]
    /\ db \in BOOLEAN
    /\ timer = FALSE
    /\ due = 0
    /\ admin = "idle"
    /\ starts = 0
    /\ stopped = FALSE
    /\ spin = FALSE

Next ==
    \/ \E u \in Users : GetSession(u) \/ Release(u)
    \/ \E n \in PoolSizes, long \in BOOLEAN : StartBegin(n, long)
    \/ StartFill
    \/ StopBegin
    \/ StopClear
    \/ TimerExpires
    \/ OnTimer
    \/ DatabaseFails
    \/ DatabaseReturns

\* Calls of start() and stop() end, the timer expires and its handler is run.
Fairness ==
    /\ WF_vars(StartFill)
    /\ WF_vars(StopClear)
    /\ WF_vars(TimerExpires)
    /\ WF_vars(OnTimer)

Spec == Init /\ [][Next]_vars

FairSpec == Spec /\ Fairness

\* The pool under a user who starts it again only behind stop().
BehindStop == starts' # starts => starts = 0 \/ stopped

OrderlySpec == Init /\ [][Next /\ BehindStop]_vars

----------------------------------------------------------------------------
(* Properties. *)

\* In a pool of more than one, a session has one owner: the pool or one user.
\* What get_session() hands out is neither handed out again, nor renewed by the
\* timer, nor closed by stop().
OneOwner ==
    /\ \A u \in Users : held[u] \notin Idle
    /\ \A u, v \in Users : held[u] \in Sessions /\ held[u] = held[v] => u = v
    /\ Len(pool) = Cardinality(Idle)

\* What the assertion in on_timer() says (session_pool.cpp:126): a handler that
\* is posted finds no more sessions than asked for.
PoolBounded == due > 0 => Len(pool) =< poolSize

Active == starts > 0 /\ admin = "idle" /\ ~stopped

\* The pool recovers: while the database stays up and the pool is not stopped
\* it becomes full again, whatever was handed out while connects failed.  A
\* pool that two start() calls made too large is filled up without end (spin).
PoolRecovers == []<>(~db \/ ~Active \/ spin \/ Len(pool) = poolSize)

\* An idle session is renewed in the end, each of them.
IdleRenewed ==
    \A s \in Sessions : []<>(~db \/ ~Active \/ spin \/ s \notin Idle)

\* What the comment "Stop timer and closes all idle connections" says of stop()
\* (session_pool.h:74): behind it there are no idle connections.
StopIsFinal == stopped /\ admin = "idle" => pool = <<>>
============================================================================

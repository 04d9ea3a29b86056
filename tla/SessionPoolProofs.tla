------------------------- MODULE SessionPoolProofs -------------------------
(***************************************************************************)
(* Who owns a session of the pool, and how many there are, for any number  *)
(* of users, connections, pool sizes and calls of start() and stop().      *)
(***************************************************************************)
EXTENDS SessionPool, TLAPS, FiniteSetTheorems, SequenceTheorems, WellFoundedInduction

----------------------------------------------------------------------------
(* The inductive invariant. *)

Types ==
    /\ pool \in Seq(Sessions)
    /\ poolSize \in Nat \ {0}
    /\ held \in [Users -> Sessions \cup {None, Unconnected}]
    /\ timer \in BOOLEAN
    /\ due \in Nat
    /\ starts \in Nat

\* No session is in the list p twice.
Distinct(p) == \A i, j \in 1 .. Len(p) : p[i] = p[j] => i = j

\* Nobody holds a session of the list p.
Unheld(p) == \A u \in Users, i \in 1 .. Len(p) : held[u] # p[i]

HeldOnce == \A u, v \in Users : held[u] \in Sessions /\ held[u] = held[v] => u = v

\* A pool without sessions that no timer is about to fill.
Quiet == pool = <<>> /\ ~timer /\ due = 0

Lifecycle ==
    /\ starts = 0 => Quiet /\ admin # "starting"
    /\ starts > 0 => poolSize \in PoolSizes

\* Up to the second start().
FirstLife ==
    starts =< 1 => /\ admin = "starting" => Quiet
                   /\ Len(pool) =< poolSize

SizeInv == Types /\ Lifecycle /\ FirstLife

OwnerInv == SizeInv /\ Distinct(pool) /\ Unheld(pool) /\ HeldOnce

----------------------------------------------------------------------------
(* Induction, with a set in the place of a predicate. *)

LEMMA Smallest ==
    ASSUME NEW T \in SUBSET Nat, T # {}
    PROVE  \E x \in T : \A y \in T : x =< y
<1>. DEFINE R == {p \in Nat \X Nat : p[1] < p[2]}
<1>1. IsWellFoundedOn(R, Nat)
  BY NatLessThanWellFounded, Zenon DEF OpToRel
<1>2. PICK x \in T : \A y \in T : ~(<<y, x>> \in R)
  <2>. HIDE DEF R
  <2>. QED
    BY <1>1, WFMin
<1>3. \A y \in T : ~(y < x)
  BY <1>2
<1>. QED
  BY <1>3

LEMMA Induction ==
    ASSUME NEW G, 0 \in G, \A n \in Nat : n \in G => n + 1 \in G
    PROVE  \A n \in Nat : n \in G
<1>. SUFFICES ASSUME Nat \ G # {} PROVE FALSE
  OBVIOUS
<1>1. PICK x \in Nat \ G : \A y \in Nat \ G : x =< y
  BY Smallest
<1>2. x - 1 \in Nat /\ (x - 1) + 1 = x /\ ~(x =< x - 1)
  BY <1>1
<1>3. x - 1 \in G
  BY <1>1, <1>2
<1>. QED
  BY <1>1, <1>2, <1>3

----------------------------------------------------------------------------
(* What add_session() and pop_front() do to the list. *)

\* Every session in the list p is in it once and held by nobody.
Owned(p) == Distinct(p) /\ Unheld(p)

LEMMA AddSessionAdds ==
    ASSUME NEW p \in Seq(Sessions)
    PROVE  /\ AddSession(p) \in Seq(Sessions)
           /\ Len(AddSession(p)) \in {Len(p), Len(p) + 1}
           /\ \A i \in 1 .. Len(p) : AddSession(p)[i] = p[i]
           /\ Owned(p) => Owned(AddSession(p))
<1>. DEFINE F == Free(p)
            s == CHOOSE x \in F : \A y \in F : x =< y
            q == Append(p, s)
<1>1. CASE ~(db /\ F # {})
  <2>1. AddSession(p) = p
    BY <1>1 DEF AddSession
  <2>. QED
    BY <2>1
<1>2. CASE db /\ F # {}
  <2>1. AddSession(p) = q
    BY <1>2 DEF AddSession
  <2>2. F \in SUBSET Nat
    BY SessionPoolAssumption DEF Free
  <2>3. s \in F
    <3>. HIDE DEF F
    <3>1. \E x \in F : \A y \in F : x =< y
      BY <1>2, <2>2, Smallest
    <3>. QED
      BY <3>1
  <2>. HIDE DEF s
  <2>4. /\ s \in Sessions /\ \A i \in 1 .. Len(p) : p[i] # s
        /\ \A u \in Users : held[u] # s
    BY <2>3 DEF Free, Taken, ToSet
  <2>5. /\ q \in Seq(Sessions) /\ Len(p) \in Nat /\ Len(q) = Len(p) + 1 /\ q[Len(p) + 1] = s
        /\ \A i \in 1 .. Len(p) : q[i] = p[i]
    BY <2>4
  <2>. HIDE DEF q
  <2>6. \A i \in 1 .. Len(q) : i \in 1 .. Len(p) \/ i = Len(p) + 1
    BY <2>5
  <2>7. Distinct(p) => Distinct(q)
    BY <2>4, <2>5, <2>6 DEF Distinct
  <2>8. Unheld(p) => Unheld(q)
    BY <2>4, <2>5, <2>6 DEF Unheld
  <2>. QED
    BY <2>1, <2>5, <2>7, <2>8 DEF Owned
<1>. QED
  BY <1>1, <1>2

Added(f, p, n) == f = [i \in 0 .. n |-> IF i = 0 THEN p ELSE AddSession(f[i - 1])]

LEMMA AddedExists ==
    ASSUME NEW p
    PROVE  \A n \in Nat : \E f : Added(f, p, n)
<1>. DEFINE G == {n \in Nat : \E f : Added(f, p, n)}
<1>1. 0 \in G
  <2>. DEFINE f == [i \in 0 .. 0 |-> p]
  <2>1. f = [i \in 0 .. 0 |-> IF i = 0 THEN p ELSE AddSession(f[i - 1])]
    OBVIOUS
  <2>. QED
    BY <2>1 DEF Added
<1>2. ASSUME NEW n \in Nat, n \in G PROVE n + 1 \in G
  <2>1. PICK b : Added(b, p, n)
    BY <1>2
  <2>. DEFINE m == n + 1
              f == [i \in 0 .. m |-> IF i = m THEN AddSession(b[n]) ELSE b[i]]
  <2>2. /\ \A i \in 0 .. m : i = m \/ i \in 0 .. n
        /\ m # 0 /\ m - 1 = n /\ m \in Nat /\ n # m
        /\ \A i \in 0 .. m : i # 0 => i - 1 \in 0 .. m /\ i - 1 # m
        /\ \A i \in 0 .. n : i # m
    OBVIOUS
  <2>3. \A i \in 0 .. n : b[i] = IF i = 0 THEN p ELSE AddSession(b[i - 1])
    BY <2>1 DEF Added
  <2>. HIDE DEF m
  <2>4. \A i \in 0 .. m : f[i] = IF i = 0 THEN p ELSE AddSession(f[i - 1])
    <3>. SUFFICES ASSUME NEW i \in 0 .. m
                  PROVE  f[i] = IF i = 0 THEN p ELSE AddSession(f[i - 1])
      OBVIOUS
    <3>1. i # 0 => f[i - 1] = b[i - 1]
      BY <2>2
    <3>2. CASE i = m
      BY <2>2, <3>1, <3>2
    <3>3. CASE i # m
      BY <2>2, <2>3, <3>1, <3>3
    <3>. QED
      BY <3>2, <3>3
  <2>5. Added(f, p, m)
    BY <2>4 DEF Added
  <2>. QED
    BY <2>2, <2>5 DEF m
<1>3. \A n \in Nat : n \in G
  <2>. HIDE DEF G
  <2>. QED
    BY <1>1, <1>2, Induction
<1>. QED
  BY <1>3

LEMMA AddSessionsAdds ==
    ASSUME NEW p \in Seq(Sessions), NEW n \in Nat
    PROVE  /\ AddSessions(p, n) \in Seq(Sessions)
           /\ Len(AddSessions(p, n)) =< Len(p) + n
           /\ Owned(p) => Owned(AddSessions(p, n))
<1>. DEFINE f == CHOOSE x : Added(x, p, n)
<1>1. Added(f, p, n)
  BY AddedExists
<1>2. AddSessions(p, n) = f[n]
  BY DEF AddSessions, Added
<1>. HIDE DEF f
<1>3. \A i \in 0 .. n : f[i] = IF i = 0 THEN p ELSE AddSession(f[i - 1])
  BY <1>1 DEF Added
<1>. DEFINE Fine(q, i) == /\ q \in Seq(Sessions)
                          /\ Len(q) =< Len(p) + i
                          /\ Owned(p) => Owned(q)
            G == {i \in Nat : i =< n => Fine(f[i], i)}
<1>4. 0 \in G
  <2>1. f[0] = p /\ Len(p) \in Nat
    BY <1>3
  <2>. QED
    BY <2>1
<1>5. ASSUME NEW i \in Nat, i \in G PROVE i + 1 \in G
  <2>. DEFINE m == i + 1
              q == f[i]
  <2>. SUFFICES ASSUME m =< n PROVE Fine(f[m], m)
    OBVIOUS
  <2>1. m \in 0 .. n /\ m # 0 /\ m - 1 = i /\ i =< n
    OBVIOUS
  <2>2. Fine(q, i) /\ f[m] = AddSession(q)
    BY <1>3, <1>5, <2>1
  <2>3. Len(q) \in Nat /\ Len(p) \in Nat
    BY <2>2
  <2>. HIDE DEF q, m
  <2>4. /\ AddSession(q) \in Seq(Sessions)
        /\ Len(AddSession(q)) \in {Len(q), Len(q) + 1}
        /\ Owned(q) => Owned(AddSession(q))
    BY <2>2, AddSessionAdds
  <2>5. Len(q) =< Len(p) + i
    BY <2>2
  <2>6. Len(AddSession(q)) =< Len(p) + m
    BY <2>3, <2>4, <2>5 DEF m
  <2>. QED
    BY <2>2, <2>4, <2>6
<1>6. \A i \in Nat : i \in G
  <2>. HIDE DEF G
  <2>. QED
    BY <1>4, <1>5, Induction
<1>7. Fine(f[n], n)
  BY <1>6
<1>. QED
  BY <1>2, <1>7

\* The list without its oldest session.
LEMMA TailKeeps ==
    ASSUME NEW p \in Seq(Sessions), p # <<>>
    PROVE  /\ Tail(p) \in Seq(Sessions)
           /\ Len(Tail(p)) = Len(p) - 1
           /\ \A i \in 1 .. Len(Tail(p)) : i + 1 \in 1 .. Len(p) /\ i + 1 # 1 /\ Tail(p)[i] = p[i + 1]
           /\ Owned(p) => Owned(Tail(p))
<1>. DEFINE t == Tail(p)
<1>1. /\ t \in Seq(Sessions) /\ Len(p) \in Nat /\ Len(p) # 0 /\ Len(t) = Len(p) - 1
      /\ \A i \in 1 .. Len(p) - 1 : t[i] = p[i + 1]
  OBVIOUS
<1>. HIDE DEF t
<1>2. \A i \in 1 .. Len(t) : i + 1 \in 1 .. Len(p) /\ i + 1 # 1 /\ t[i] = p[i + 1]
  BY <1>1
<1>3. \A i, j \in 1 .. Len(t) : i + 1 = j + 1 => i = j
  BY <1>1
<1>4. Distinct(p) => Distinct(t)
  BY <1>2, <1>3 DEF Distinct
<1>5. Unheld(p) => Unheld(t)
  BY <1>2 DEF Unheld
<1>. QED
  BY <1>1, <1>2, <1>4, <1>5 DEF Owned, t

\* get_session(): a new session behind the others, without the oldest.
LEMMA TakenOldest ==
    ASSUME NEW p \in Seq(Sessions), p # <<>>
    PROVE  LET q == TakeOldest(AddSession(p))
           IN  /\ q \in Seq(Sessions)
               /\ Len(q) =< Len(p)
               /\ Owned(p) => Owned(q) /\ \A i \in 1 .. Len(q) : q[i] # Head(p)
<1>. DEFINE a == AddSession(p)
            q == TakeOldest(a)
<1>0. q = Tail(a)
  BY DEF TakeOldest
<1>1. /\ a \in Seq(Sessions) /\ Len(a) \in {Len(p), Len(p) + 1}
      /\ \A i \in 1 .. Len(p) : a[i] = p[i]
      /\ Owned(p) => Owned(a)
  BY AddSessionAdds
<1>2. Len(p) \in Nat /\ Len(p) # 0 /\ 1 \in 1 .. Len(p) /\ Head(p) = p[1]
  OBVIOUS
<1>. HIDE DEF a, q
<1>3. Len(a) \in Nat /\ Len(a) # 0 /\ 1 \in 1 .. Len(a)
  BY <1>1, <1>2
<1>4. a # <<>>
  BY <1>3
<1>5. /\ q \in Seq(Sessions) /\ Len(q) = Len(a) - 1
      /\ \A i \in 1 .. Len(q) : i + 1 \in 1 .. Len(a) /\ i + 1 # 1 /\ q[i] = a[i + 1]
      /\ Owned(a) => Owned(q)
  BY <1>0, <1>1, <1>4, TailKeeps
<1>6. Len(q) =< Len(p)
  BY <1>1, <1>2, <1>5
<1>7. ASSUME Owned(p), NEW i \in 1 .. Len(q) PROVE q[i] # Head(p)
  <2>1. a[i + 1] # a[1]
    BY <1>1, <1>3, <1>5, <1>7 DEF Owned, Distinct
  <2>. QED
    BY <1>1, <1>2, <1>5, <2>1
<1>. QED
  BY <1>1, <1>5, <1>6, <1>7 DEF a, q

----------------------------------------------------------------------------
(* How many sessions there are. *)

\* on_timer(): what it leaves in the list.
LEMMA TimerKeeps ==
    ASSUME Types, OnTimer
    PROVE  /\ pool' \in Seq(Sessions)
           /\ Len(pool) =< poolSize => Len(pool') =< poolSize
           /\ Owned(pool) => Owned(pool')
<1>1. pool \in Seq(Sessions) /\ poolSize \in Nat \ {0} /\ Len(pool) \in Nat
  BY DEF Types
<1>2. CASE Len(pool) > poolSize
  <2>1. pool' = pool
    BY <1>2 DEF OnTimer
  <2>. QED
    BY <1>1, <2>1
<1>3. CASE Len(pool) = poolSize
  <2>1. pool' = TakeOldest(AddSession(pool))
    BY <1>1, <1>3 DEF OnTimer, Shuffled, TakeOldest
  <2>2. pool # <<>>
    BY <1>1, <1>3
  <2>3. /\ pool' \in Seq(Sessions) /\ Len(pool') =< Len(pool)
        /\ Owned(pool) => Owned(pool')
    BY <1>1, <2>1, <2>2, TakenOldest
  <2>. QED
    BY <1>3, <2>3
<1>4. CASE Len(pool) < poolSize
  <2>. DEFINE n == poolSize - Len(pool)
  <2>1. pool' = AddSessions(pool, n) /\ n \in Nat /\ Len(pool) + n = poolSize
    BY <1>1, <1>4 DEF OnTimer, Refilled
  <2>. HIDE DEF n
  <2>. QED
    BY <1>1, <2>1, AddSessionsAdds
<1>. QED
  BY <1>1, <1>2, <1>3, <1>4

LEMMA SizeInit == Init => SizeInv
<1>. SUFFICES ASSUME Init PROVE SizeInv
  OBVIOUS
<1>1. <<>> \in Seq(Sessions) /\ Len(<<>>) = 0
  OBVIOUS
<1>2. Types
  <2>1. held \in [Users -> Sessions \cup {None, Unconnected}]
    BY DEF Init
  <2>2. timer \in BOOLEAN
    BY Zenon DEF Init
  <2>. QED
    BY <1>1, <2>1, <2>2 DEF Init, Types
<1>. QED
  BY <1>1, <1>2 DEF Init, SizeInv, Lifecycle, FirstLife, Quiet

LEMMA SizeNext == SizeInv /\ [Next]_vars => SizeInv'
<1>. SUFFICES ASSUME SizeInv, [Next]_vars PROVE SizeInv'
  OBVIOUS
<1>0. /\ pool \in Seq(Sessions) /\ poolSize \in Nat \ {0} /\ due \in Nat /\ starts \in Nat
      /\ held \in [Users -> Sessions \cup {None, Unconnected}] /\ timer \in BOOLEAN
      /\ Types /\ Len(pool) \in Nat
  BY DEF SizeInv, Types
<1>. USE DEF SizeInv, Types, Lifecycle, FirstLife, Quiet
<1>1. ASSUME NEW u \in Users, GetSession(u) PROVE SizeInv'
  <2>1. UNCHANGED <<poolSize, timer, due, admin, starts>>
    BY <1>1 DEF GetSession
  <2>2. CASE pool = <<>>
    <3>1. held' = [held EXCEPT ![u] = Unconnected] /\ pool' = pool
      BY <1>1, <2>2 DEF GetSession
    <3>. QED
      BY <1>0, <2>1, <3>1
  <2>3. CASE pool # <<>>
    <3>1. /\ held' = [held EXCEPT ![u] = Head(pool)]
          /\ pool' = pool \/ pool' = TakeOldest(AddSession(pool))
      BY <1>1, <2>3 DEF GetSession
    <3>2. Head(pool) \in Sessions
      BY <1>0, <2>3
    <3>3. held' \in [Users -> Sessions \cup {None, Unconnected}]
      BY <1>0, <3>1, <3>2
    <3>4. pool' \in Seq(Sessions) /\ Len(pool') \in Nat /\ Len(pool') =< Len(pool)
      <4>1. CASE pool' = pool
        BY <1>0, <4>1
      <4>2. CASE pool' = TakeOldest(AddSession(pool))
        <5>1. pool' \in Seq(Sessions) /\ Len(pool') =< Len(pool)
          BY <1>0, <2>3, <4>2, TakenOldest
        <5>. QED
          BY <5>1
      <4>. QED
        BY <3>1, <4>1, <4>2
    <3>5. starts # 0
      BY <2>3
    <3>. QED
      BY <1>0, <2>1, <2>3, <3>3, <3>4, <3>5
  <2>. QED
    BY <2>2, <2>3
<1>2. ASSUME NEW u \in Users, Release(u) PROVE SizeInv'
  BY <1>0, <1>2 DEF Release
<1>3. ASSUME NEW n \in PoolSizes, NEW long \in BOOLEAN, StartBegin(n, long) PROVE SizeInv'
  <2>1. /\ poolSize' = n /\ starts' = starts + 1 /\ n >= 1
        /\ UNCHANGED <<pool, held, timer, due>>
    BY <1>3 DEF StartBegin
  <2>2. n \in Nat \ {0} /\ starts' \in Nat /\ starts' # 0 /\ (starts' =< 1 => starts = 0)
    BY <1>0, <2>1, SessionPoolAssumption
  <2>3. starts = 0 => Len(pool) = 0
    BY <1>0
  <2>. QED
    BY <1>0, <2>1, <2>2, <2>3
<1>4. CASE StartFill
  <2>1. /\ pool' = AddSessions(pool, poolSize) /\ timer' = (timer \/ poolSize > 1)
        /\ admin = "starting" /\ admin' = "idle" /\ UNCHANGED <<poolSize, held, due, starts>>
    BY <1>4 DEF StartFill
  <2>2. pool' \in Seq(Sessions) /\ Len(pool') =< Len(pool) + poolSize
    BY <1>0, <2>1, AddSessionsAdds
  <2>3. starts =< 1 => Len(pool) = 0
    BY <1>0, <2>1
  <2>4. starts # 0
    BY <2>1
  <2>5. timer' \in BOOLEAN
    BY <2>1
  <2>6. starts =< 1 => Len(pool') =< poolSize
    BY <1>0, <2>2, <2>3
  <2>. QED
    BY <1>0, <2>1, <2>2, <2>4, <2>5, <2>6
<1>5. CASE StopBegin
  <2>1. /\ ~timer' /\ admin' = "stopping"
        /\ UNCHANGED <<pool, poolSize, held, due, starts>>
    BY <1>5 DEF StopBegin
  <2>2. timer' \in BOOLEAN
    BY <1>5, Zenon DEF StopBegin
  <2>. QED
    BY <1>0, <2>1, <2>2
<1>6. CASE StopClear
  <2>1. <<>> \in Seq(Sessions) /\ Len(<<>>) = 0
    OBVIOUS
  <2>. QED
    BY <1>0, <1>6, <2>1 DEF StopClear
<1>7. CASE TimerExpires
  <2>1. timer /\ timer' = FALSE /\ due' = due + 1 /\ UNCHANGED <<pool, poolSize, held, admin, starts>>
    BY <1>7 DEF TimerExpires
  <2>2. starts # 0 /\ (starts =< 1 => admin # "starting") /\ due' \in Nat
    BY <1>0, <2>1
  <2>. QED
    BY <1>0, <2>1, <2>2
<1>8. CASE OnTimer
  <2>1. due > 0 /\ due' = due - 1 /\ UNCHANGED <<poolSize, held, admin, starts>>
    BY <1>8 DEF OnTimer
  <2>2. starts # 0 /\ (starts =< 1 => admin # "starting") /\ due' \in Nat
    BY <1>0, <2>1
  <2>3. timer' \in BOOLEAN
    BY <1>0, <1>8 DEF OnTimer
  <2>4. pool' \in Seq(Sessions) /\ (Len(pool) =< poolSize => Len(pool') =< poolSize)
    BY <1>0, <1>8, TimerKeeps
  <2>. QED
    BY <1>0, <2>1, <2>2, <2>3, <2>4
<1>9. CASE DatabaseFails \/ DatabaseReturns
  BY <1>0, <1>9 DEF DatabaseFails, DatabaseReturns
<1>10. CASE UNCHANGED vars
  BY <1>0, <1>10 DEF vars
<1>. QED
  BY <1>1, <1>2, <1>3, <1>4, <1>5, <1>6, <1>7, <1>8, <1>9, <1>10 DEF Next

LEMMA SizeHolds == Spec => []SizeInv
BY SizeInit, SizeNext, PTL DEF Spec

\* The assertion of on_timer() (session_pool.cpp:126), for any mix of
\* get_session(), timer handlers, failing connects and stop(): up to the second
\* start() the pool holds at most pool_size_ sessions, whatever that size is.
THEOREM BoundedUntilRestart == Spec => [](starts =< 1 => PoolBounded)
<1>1. SizeInv => (starts =< 1 => PoolBounded)
  BY DEF SizeInv, FirstLife, PoolBounded
<1>. QED
  BY <1>1, SizeHolds, PTL

----------------------------------------------------------------------------
(* Restarts. *)

\* A pool is started again only behind stop(), and stop() is called while no
\* on_timer() handler is posted, so that cancelling the timer is all there is to
\* do.
CleanRestarts == BehindStop /\ (StopBegin => due = 0)

\* From stop() to the next start() no timer is left, and the list is empty
\* once stop() has cleared it.
LivesApart ==
    /\ admin # "idle" \/ stopped => ~timer /\ due = 0
    /\ admin = "starting" \/ stopped => pool = <<>>
    /\ admin \in {"idle", "starting", "stopping"}
    /\ Len(pool) =< poolSize
    /\ ~spin

RestartInv == SizeInv /\ LivesApart

LEMMA RestartInit == Init => RestartInv
<1>. SUFFICES ASSUME Init PROVE RestartInv
  OBVIOUS
<1>1. SizeInv
  BY SizeInit
<1>2. Len(pool) =< poolSize
  BY DEF Init
<1>3. /\ admin = "idle" /\ ~stopped /\ ~spin
  BY Zenon DEF Init
<1>. QED
  BY <1>1, <1>2, <1>3 DEF RestartInv, LivesApart

LEMMA RestartNext ==
    ASSUME RestartInv, [Next]_vars, [CleanRestarts]_vars
    PROVE  RestartInv'
<1>0. /\ SizeInv /\ SizeInv' /\ Types /\ Lifecycle /\ LivesApart
      /\ pool \in Seq(Sessions) /\ poolSize \in Nat \ {0} /\ Len(pool) \in Nat
      /\ due \in Nat /\ starts \in Nat
  BY SizeNext DEF RestartInv, SizeInv, Types
<1>. SUFFICES LivesApart'
  BY <1>0 DEF RestartInv
<1>1. ASSUME NEW u \in Users, GetSession(u) PROVE LivesApart'
  <2>1. UNCHANGED <<poolSize, timer, due, admin, stopped, spin>>
    BY <1>1 DEF GetSession
  <2>2. CASE pool' = pool
    BY <1>0, <2>1, <2>2 DEF LivesApart
  <2>3. CASE pool # <<>> /\ pool' = TakeOldest(AddSession(pool))
    <3>1. pool' \in Seq(Sessions) /\ Len(pool') =< Len(pool)
      BY <1>0, <2>3, TakenOldest
    <3>2. Len(pool') \in Nat
      BY <3>1
    <3>3. Len(pool') =< poolSize
      BY <1>0, <3>1, <3>2 DEF LivesApart
    <3>. QED
      BY <1>0, <2>1, <2>3, <3>3 DEF LivesApart
  <2>. QED
    BY <1>1, <2>2, <2>3 DEF GetSession
<1>2. ASSUME NEW n \in PoolSizes, NEW long \in BOOLEAN, StartBegin(n, long) PROVE LivesApart'
  <2>1. /\ poolSize' = n /\ n \in Nat /\ UNCHANGED <<pool, timer, due, stopped, spin>>
        /\ admin' = "starting" \/ admin' = admin
        /\ admin = "idle" /\ (starts = 0 \/ stopped)
    <3>1. starts' # starts
      BY <1>0, <1>2 DEF StartBegin
    <3>2. starts = 0 \/ stopped
      BY <3>1 DEF CleanRestarts, BehindStop, vars
    <3>. QED
      BY <1>2, <3>2, SessionPoolAssumption DEF StartBegin
  <2>2. pool = <<>> /\ ~timer /\ due = 0
    BY <1>0, <2>1 DEF Lifecycle, Quiet, LivesApart
  <2>3. Len(pool) = 0
    BY <2>2
  <2>. QED
    BY <1>0, <2>1, <2>2, <2>3 DEF LivesApart
<1>3. CASE StartFill
  <2>1. /\ pool' = AddSessions(pool, poolSize) /\ admin = "starting" /\ admin' = "idle"
        /\ ~stopped' /\ UNCHANGED <<poolSize, due, spin>>
    BY <1>3 DEF StartFill
  <2>2. pool' \in Seq(Sessions) /\ Len(pool') =< Len(pool) + poolSize
    BY <1>0, <2>1, AddSessionsAdds
  <2>3. Len(pool) = 0 /\ Len(pool') \in Nat
    BY <1>0, <2>1, <2>2 DEF LivesApart
  <2>4. Len(pool') =< poolSize'
    BY <1>0, <2>1, <2>2, <2>3
  <2>. QED
    BY <1>0, <2>1, <2>4 DEF LivesApart
<1>4. CASE StopBegin
  <2>1. /\ ~timer' /\ admin' = "stopping"
        /\ UNCHANGED <<pool, poolSize, due, stopped, spin>>
    BY <1>4 DEF StopBegin
  <2>2. due = 0
    <3>1. admin # admin'
      BY <1>4 DEF StopBegin
    <3>. QED
      BY <1>4, <3>1 DEF CleanRestarts, vars
  <2>. QED
    BY <1>0, <2>1, <2>2 DEF LivesApart
<1>5. CASE StopClear
  <2>1. /\ pool' = <<>> /\ admin = "stopping" /\ admin' = "idle" /\ stopped'
        /\ UNCHANGED <<poolSize, timer, due, spin>>
    BY <1>5 DEF StopClear
  <2>2. Len(pool') = 0
    BY <2>1
  <2>. QED
    BY <1>0, <2>1, <2>2 DEF LivesApart
<1>6. CASE TimerExpires
  <2>1. timer /\ UNCHANGED <<pool, poolSize, admin, stopped, spin>>
    BY <1>6 DEF TimerExpires
  <2>2. admin = "idle" /\ ~stopped
    BY <1>0, <2>1 DEF LivesApart
  <2>. QED
    BY <1>0, <2>1, <2>2 DEF LivesApart
<1>7. CASE OnTimer
  <2>1. due > 0 /\ UNCHANGED <<poolSize, admin, stopped>>
    BY <1>7 DEF OnTimer
  <2>2. admin = "idle" /\ ~stopped
    BY <1>0, <2>1 DEF LivesApart
  <2>3. Len(pool') =< poolSize
    BY <1>0, <1>7, TimerKeeps DEF LivesApart
  <2>4. spin' = spin
    BY <1>0, <1>7 DEF OnTimer, LivesApart
  <2>. QED
    BY <1>0, <2>1, <2>2, <2>3, <2>4 DEF LivesApart
<1>8. ASSUME UNCHANGED <<pool, poolSize, timer, due, admin, stopped, spin>> PROVE LivesApart'
  BY <1>0, <1>8 DEF LivesApart
<1>9. CASE \E u \in Users : Release(u)
  BY <1>8, <1>9 DEF Release
<1>10. CASE DatabaseFails \/ DatabaseReturns \/ UNCHANGED vars
  BY <1>8, <1>10 DEF DatabaseFails, DatabaseReturns, vars
<1>. QED
  BY <1>1, <1>2, <1>3, <1>4, <1>5, <1>6, <1>7, <1>9, <1>10 DEF Next

\* A start() of a running pool and a handler posted behind the back of stop()
\* are the only things that spoil a restart.  A user who starts the pool again
\* only behind stop(), and whose stop() meets no posted handler, may do so any
\* number of times: the assertion of on_timer() (session_pool.cpp:126) holds,
\* the subtraction of the sizes never underflows, and behind stop() no idle
\* connection is left, as session_pool.h:74 says.  The first condition is in the
\* user's hand; the second is not (the run SessionPoolRestart shows what then).
THEOREM BoundedThroughRestarts ==
    Spec /\ [][CleanRestarts]_vars => [](PoolBounded /\ StopIsFinal /\ ~spin)
<1>1. RestartInv /\ [Next]_vars /\ [CleanRestarts]_vars => RestartInv'
  BY RestartNext
<1>2. RestartInv => PoolBounded /\ StopIsFinal /\ ~spin
  BY DEF RestartInv, LivesApart, PoolBounded, StopIsFinal
<1>. QED
  BY <1>1, <1>2, RestartInit, PTL DEF Spec

----------------------------------------------------------------------------
(* Who owns a session. *)

\* The pool is never started with one session, which get_session() would lend
\* to everyone who asks.
NotSingle == 1 \notin PoolSizes

LEMMA OwnerInit == Init => OwnerInv
<1>. SUFFICES ASSUME Init PROVE OwnerInv
  OBVIOUS
<1>1. SizeInv
  BY SizeInit
<1>2. Len(pool) = 0 /\ 1 .. Len(pool) = {}
  BY DEF Init
<1>3. \A u \in Users : held[u] \notin Sessions
  BY SessionPoolAssumption DEF Init, None
<1>. QED
  BY <1>1, <1>2, <1>3 DEF OwnerInv, Distinct, Unheld, HeldOnce

LEMMA OwnerNext ==
    ASSUME NotSingle, OwnerInv, [Next]_vars
    PROVE  OwnerInv'
<1>0. /\ SizeInv /\ Types /\ SizeInv' /\ Owned(pool) /\ HeldOnce
      /\ pool \in Seq(Sessions) /\ poolSize \in Nat \ {0}
      /\ held \in [Users -> Sessions \cup {None, Unconnected}]
  BY SizeNext DEF OwnerInv, SizeInv, Types, Owned
<1>1. None \notin Sessions /\ Unconnected \notin Sessions
  BY SessionPoolAssumption DEF None, Unconnected
\* What remains to be shown where nobody takes or returns a session.
<1>2. ASSUME held' = held, Owned(pool') PROVE OwnerInv'
  BY <1>0, <1>2 DEF OwnerInv, Owned, Distinct, Unheld, HeldOnce
\* And where user u gives away or takes something that is no session.
<1>3. ASSUME NEW u \in Users, NEW x, x \notin Sessions, held' = [held EXCEPT ![u] = x], pool' = pool
      PROVE  OwnerInv'
  <2>1. \A v \in Users : IF v = u THEN held'[v] = x ELSE held'[v] = held[v]
    BY <1>0, <1>3
  <2>2. \A i \in 1 .. Len(pool) : pool[i] \in Sessions
    BY <1>0
  <2>3. Unheld(pool)'
    BY <1>0, <1>3, <2>1, <2>2 DEF Owned, Unheld
  <2>4. HeldOnce'
    BY <1>0, <1>3, <2>1 DEF HeldOnce
  <2>. QED
    BY <1>0, <1>3, <2>3, <2>4 DEF OwnerInv, Owned, Distinct
<1>4. ASSUME NEW u \in Users, GetSession(u) PROVE OwnerInv'
  <2>1. CASE pool = <<>>
    BY <1>1, <1>3, <1>4, <2>1 DEF GetSession
  <2>2. CASE pool # <<>>
    <3>1. poolSize # 1
      BY <1>0, <2>2 DEF SizeInv, Types, Lifecycle, Quiet, NotSingle
    <3>2. held' = [held EXCEPT ![u] = Head(pool)] /\ pool' = TakeOldest(AddSession(pool))
      BY <1>4, <2>2, <3>1 DEF GetSession
    <3>3. /\ Owned(pool') /\ \A i \in 1 .. Len(pool') : pool'[i] # Head(pool)
      BY <1>0, <2>2, <3>2, TakenOldest
    <3>4. Head(pool) = pool[1] /\ 1 \in 1 .. Len(pool) /\ Head(pool) \in Sessions
      BY <1>0, <2>2
    <3>5. \A v \in Users : IF v = u THEN held'[v] = Head(pool) ELSE held'[v] = held[v]
      BY <1>0, <3>2
    <3>6. \A v \in Users : held[v] # Head(pool)
      BY <1>0, <3>4 DEF Owned, Unheld
    <3>7. Unheld(pool)'
      BY <3>3, <3>5 DEF Owned, Unheld
    <3>8. HeldOnce'
      BY <1>0, <3>5, <3>6 DEF HeldOnce
    <3>. QED
      BY <1>0, <3>3, <3>7, <3>8 DEF OwnerInv, Owned, Distinct
  <2>. QED
    BY <2>1, <2>2
<1>5. ASSUME NEW u \in Users, Release(u) PROVE OwnerInv'
  BY <1>1, <1>3, <1>5 DEF Release
<1>6. CASE StartFill
  <2>1. pool' = AddSessions(pool, poolSize) /\ held' = held
    BY <1>6 DEF StartFill
  <2>2. Owned(pool')
    BY <1>0, <2>1, AddSessionsAdds
  <2>. QED
    BY <1>2, <2>1, <2>2
<1>7. CASE StopClear
  <2>1. pool' = <<>> /\ held' = held
    BY <1>7 DEF StopClear
  <2>2. 1 .. Len(pool') = {}
    BY <2>1
  <2>3. Owned(pool')
    BY <2>2 DEF Owned, Distinct, Unheld
  <2>. QED
    BY <1>2, <2>1, <2>3
<1>8. CASE OnTimer
  <2>1. held' = held /\ Owned(pool')
    BY <1>0, <1>8, TimerKeeps DEF OnTimer
  <2>. QED
    BY <1>2, <2>1
<1>9. ASSUME UNCHANGED <<pool, held>> PROVE OwnerInv'
  <2>1. Owned(pool')
    BY <1>0, <1>9
  <2>. QED
    BY <1>2, <1>9, <2>1
<1>10. CASE \E n \in PoolSizes, long \in BOOLEAN : StartBegin(n, long)
  BY <1>9, <1>10 DEF StartBegin
<1>11. CASE StopBegin \/ TimerExpires \/ DatabaseFails \/ DatabaseReturns \/ UNCHANGED vars
  BY <1>9, <1>11 DEF StopBegin, TimerExpires, DatabaseFails, DatabaseReturns, vars
<1>. QED
  BY <1>4, <1>5, <1>6, <1>7, <1>8, <1>10, <1>11 DEF Next

\* A list without duplicates is as long as its set of members.
LEMMA DistinctCount ==
    ASSUME NEW p \in Seq(Sessions), Distinct(p)
    PROVE  Len(p) = Cardinality(ToSet(p))
<1>. DEFINE n == Len(p)
            T == ToSet(p)
            f == [i \in 1 .. n |-> p[i]]
<1>1. n \in Nat /\ DOMAIN p = 1 .. n
  OBVIOUS
<1>2. T = {p[i] : i \in 1 .. n}
  BY <1>1 DEF ToSet
<1>. HIDE DEF n, T
<1>3. f \in [1 .. n -> T]
  BY <1>2
<1>4. \A i, j \in 1 .. n : f[i] = f[j] => i = j
  BY DEF Distinct, n
<1>5. \A t \in T : \E i \in 1 .. n : f[i] = t
  BY <1>2
<1>6. f \in Bijection(1 .. n, T)
  BY <1>3, <1>4, <1>5 DEF Bijection, Injection, Surjection, IsInjective
<1>7. ExistsBijection(1 .. n, T)
  BY <1>6 DEF ExistsBijection
<1>8. IsFiniteSet(1 .. n) /\ Cardinality(1 .. n) = n
  BY <1>1, FS_Interval
<1>. QED
  BY <1>7, <1>8, FS_Bijection DEF n, T

\* A session that get_session() hands out belongs to that user alone, through
\* restarts, failing connects and timer handlers that run behind stop(): it is
\* not in the list any more, so on_timer() cannot renew it, stop() cannot close
\* it and nobody else can get it.
THEOREM SessionsOwned ==
    ASSUME NotSingle
    PROVE  Spec => []OneOwner
<1>1. OwnerInv /\ [Next]_vars => OwnerInv'
  BY OwnerNext
<1>2. OwnerInv => OneOwner
  <2>. SUFFICES ASSUME OwnerInv PROVE OneOwner
    OBVIOUS
  <2>1. pool \in Seq(Sessions) /\ Distinct(pool) /\ Unheld(pool) /\ HeldOnce
    BY DEF OwnerInv, SizeInv, Types
  <2>2. Len(pool) = Cardinality(Idle)
    BY <2>1, DistinctCount DEF Idle
  <2>3. \A u \in Users : held[u] \notin Idle
    BY <2>1 DEF Unheld, Idle, ToSet
  <2>. QED
    BY <2>1, <2>2, <2>3 DEF OneOwner, HeldOnce
<1>. QED
  BY <1>1, <1>2, OwnerInit, PTL DEF Spec
============================================================================

--------------------------- MODULE RegistryProofs ---------------------------
(***************************************************************************)
(* Proofs about Registry, for any number of channels, names, requests and  *)
(* shutdowns: the lifetime of channels, the list of weak pointers that     *)
(* follows it through queued insertions and removals, what a request       *)
(* finds, and what shutdown() reaches.                                     *)
(***************************************************************************)
EXTENDS Registry, TLAPS, SequenceTheorems, WellFoundedInduction

----------------------------------------------------------------------------
(* The inductive invariant. *)

\* Ids are given out in ascending order; nothing refers to a later one.
Issued == 1 .. nextId

\* A channel with queued handlers is not destroyed, and one whose task is about
\* to end is closed for good.
LifeInv ==
    /\ eod \subseteq Issued
    /\ before \subseteq Issued
    /\ \A c \in Ids :
        /\ strand[c] # <<>> => c \in alive
        /\ \A i \in 1 .. Len(strand[c]) : strand[c][i] = "stop" => c \notin open

\* An insertion keeps its channel alive, a removal is posted by the destructor,
\* and a request knows channels that it is meant for.
Good(h, living, issued) ==
    /\ h.op = "insert" => h = Insert(h.id) /\ h.id \in living
    /\ h.op = "remove" => h = Remove(h.id) /\ h.id \in issued \ living
    /\ h.known \subseteq Addressed(h.op, h.id, h.name) \cap issued

QueueInv == \A i \in 1 .. Len(queue) : Good(queue[i], alive, Issued)

\* A channel is listed under its id; one that was closed before its insertion
\* is listed under 0.
ListInv ==
    \A k \in DOMAIN list :
        IF k = 0 THEN list[k] \in (Issued \ open) \cap late ELSE list[k] = k /\ k \in Issued

CalmInv == epoch = 0 => ~shutdown /\ sd = "idle"

\* Channel c is listed, or it will be when position n of the queue q is reached.
Covered(c, n, l, q) == c \in DOMAIN l \/ \E j \in 1 .. Len(q) : j < n /\ q[j] = Insert(c)

\* Open channels whose creation has returned are or will be listed, and before
\* a request that knows them is run.
CoverInv ==
    epoch = 0 =>
        /\ \A c \in open \ creating : Covered(c, Len(queue) + 1, list, queue)
        /\ \A i \in 1 .. Len(queue) : \A c \in queue[i].known \cap open : Covered(c, i, list, queue)

\* While shutdown() walks down the list, what it has not stopped is in front
\* of it.
WalkInv ==
    fault = "none" =>
        /\ sd = "iter" => snap \cap open \subseteq ToDo
        /\ sd \in {"clear", "cleared"} => snap \cap open = {}

RegInv ==
    /\ TypeOK
    /\ LifeInv
    /\ QueueInv
    /\ ListInv
    /\ CalmInv
    /\ NoStaleEntry
    /\ CoverInv
    /\ NoneMissed
    /\ WalkInv

----------------------------------------------------------------------------
(* Facts about numbers and queues. *)

\* A bounded set of numbers has a greatest element.
LEMMA Greatest ==
    ASSUME NEW n \in Nat, NEW T, T \subseteq 0 .. n, T # {}
    PROVE  \E x \in T : \A y \in T : y <= x
<1>. DEFINE R == {p \in Nat \X Nat : p[1] < p[2]}
            U == {n - x : x \in T}
<1>1. IsWellFoundedOn(R, Nat)
  BY NatLessThanWellFounded, Zenon DEF OpToRel
<1>2. U \subseteq Nat /\ U # {}
  <2>1. \A x \in T : x \in 0 .. n
    OBVIOUS
  <2>2. \A x \in T : n - x \in Nat
    BY <2>1
  <2>. QED
    BY <2>2
<1>3. PICK u \in U : \A y \in U : ~(<<y, u>> \in R)
  <2>. HIDE DEF R, U
  <2>. QED
    BY <1>1, <1>2, WFMin
<1>4. \A y \in U : ~(y < u)
  BY <1>2, <1>3
<1>5. PICK x \in T : u = n - x
  BY <1>3
<1>6. ASSUME NEW y \in T PROVE y <= x
  <2>1. n - y \in U /\ y \in 0 .. n /\ x \in 0 .. n
    OBVIOUS
  <2>2. ~(n - y < n - x)
    BY <1>4, <1>5, <2>1
  <2>. QED
    BY <2>1, <2>2
<1>. QED
  BY <1>6

\* The queue loses its first d handlers, d being 0 or 1, and h is added to its
\* end when a is 1.
Moves(d, a, h) ==
    /\ d \in {0, 1} /\ a \in {0, 1}
    /\ Len(queue) \in Nat /\ d <= Len(queue)
    /\ Len(queue') = Len(queue) - d + a
    /\ \A i \in 1 .. Len(queue) - d : queue'[i] = queue[i + d]
    /\ a = 1 => queue'[Len(queue) - d + 1] = h

LEMMA QueueMoves ==
    ASSUME queue \in Seq(Handler), NEW h \in Handler
    PROVE  /\ queue' = queue => Moves(0, 0, h)
           /\ queue' = Append(queue, h) => Moves(0, 1, h)
           /\ queue # <<>> /\ queue' = Tail(queue) => Moves(1, 0, h)
           /\ queue # <<>> /\ queue' = Append(Tail(queue), h) => Moves(1, 1, h)
<1>0. Len(queue) \in Nat
  BY LenProperties
<1>1. ASSUME queue' = queue PROVE Moves(0, 0, h)
  BY <1>0, <1>1 DEF Moves
<1>2. ASSUME queue' = Append(queue, h) PROVE Moves(0, 1, h)
  <2>1. /\ Len(queue') = Len(queue) + 1 /\ queue'[Len(queue) + 1] = h
        /\ \A i \in 1 .. Len(queue) : queue'[i] = queue[i]
    BY <1>2, AppendProperties
  <2>. QED
    BY <1>0, <2>1 DEF Moves
<1>3. ASSUME queue # <<>>
      PROVE  /\ 1 <= Len(queue) /\ Tail(queue) \in Seq(Handler)
             /\ Len(Tail(queue)) = Len(queue) - 1
             /\ \A i \in 1 .. Len(queue) - 1 : Tail(queue)[i] = queue[i + 1]
  BY <1>0, <1>3, HeadTailProperties, EmptySeq
<1>4. ASSUME queue # <<>>, queue' = Tail(queue) PROVE Moves(1, 0, h)
  BY <1>0, <1>3, <1>4 DEF Moves
<1>5. ASSUME queue # <<>>, queue' = Append(Tail(queue), h) PROVE Moves(1, 1, h)
  <2>. DEFINE q == Tail(queue)
  <2>1. /\ 1 <= Len(queue) /\ q \in Seq(Handler) /\ Len(q) = Len(queue) - 1
        /\ \A i \in 1 .. Len(queue) - 1 : q[i] = queue[i + 1]
    BY <1>3, <1>5
  <2>. HIDE DEF q
  <2>2. /\ Len(queue') = Len(q) + 1 /\ queue'[Len(q) + 1] = h
        /\ \A i \in 1 .. Len(q) : queue'[i] = q[i]
    BY <1>5, <2>1, AppendProperties DEF q
  <2>3. Len(queue') = Len(queue) - 1 + 1 /\ queue'[Len(queue) - 1 + 1] = h
    BY <1>0, <2>1, <2>2
  <2>4. \A i \in 1 .. Len(queue) - 1 : queue'[i] = queue[i + 1]
    BY <2>1, <2>2
  <2>. QED
    BY <1>0, <2>1, <2>3, <2>4 DEF Moves
<1>. QED
  BY <1>1, <1>2, <1>4, <1>5

\* Where a handler of the new queue comes from, and where one of the old goes.
LEMMA MovedHandlers ==
    ASSUME NEW d, NEW a, NEW h, Moves(d, a, h)
    PROVE  /\ d \in Nat /\ a \in Nat /\ Len(queue) \in Nat /\ Len(queue') \in Nat
           /\ \A i \in 1 .. Len(queue') :
                \/ i + d \in 1 .. Len(queue) /\ queue'[i] = queue[i + d]
                \/ a = 1 /\ i = Len(queue) - d + 1 /\ queue'[i] = h
           /\ \A i \in 1 .. Len(queue) : i > d =>
                i - d \in 1 .. Len(queue') /\ queue'[i - d] = queue[i]
           /\ a = 1 => Len(queue') \in 1 .. Len(queue') /\ queue'[Len(queue')] = h
<1>1. /\ d \in {0, 1} /\ a \in {0, 1} /\ Len(queue) \in Nat /\ d <= Len(queue)
      /\ Len(queue') = Len(queue) - d + a
  BY DEF Moves
<1>2. \A i \in 1 .. Len(queue) - d : queue'[i] = queue[i + d]
  BY DEF Moves
<1>3. a = 1 => queue'[Len(queue) - d + 1] = h
  BY DEF Moves
<1>4. d \in Nat /\ a \in Nat /\ Len(queue') \in Nat
  BY <1>1
<1>5. ASSUME NEW i \in 1 .. Len(queue')
      PROVE  \/ i + d \in 1 .. Len(queue) /\ queue'[i] = queue[i + d]
             \/ a = 1 /\ i = Len(queue) - d + 1 /\ queue'[i] = h
  <2>1. i \in 1 .. Len(queue) - d \/ (a = 1 /\ i = Len(queue) - d + 1)
    BY <1>1
  <2>2. i \in 1 .. Len(queue) - d => i + d \in 1 .. Len(queue)
    BY <1>1
  <2>. QED
    BY <1>2, <1>3, <2>1, <2>2
<1>6. ASSUME NEW i \in 1 .. Len(queue), i > d
      PROVE  i - d \in 1 .. Len(queue') /\ queue'[i - d] = queue[i]
  <2>1. i - d \in 1 .. Len(queue) - d /\ i - d + d = i /\ i - d \in 1 .. Len(queue')
    BY <1>1, <1>6
  <2>2. queue'[i - d] = queue[(i - d) + d]
    BY <1>2, <2>1
  <2>. QED
    BY <2>1, <2>2
<1>7. a = 1 => Len(queue') \in 1 .. Len(queue') /\ queue'[Len(queue')] = h
  <2>1. a = 1 => Len(queue') = Len(queue) - d + 1 /\ Len(queue') \in 1 .. Len(queue')
    BY <1>1
  <2>. QED
    BY <1>3, <2>1
<1>. QED
  BY <1>1, <1>4, <1>5, <1>6, <1>7

LEMMA HandlerForms ==
    ASSUME NEW c, NEW k
    PROVE  /\ Insert(c).op = "insert" /\ Insert(c).id = c /\ Insert(c).known = {}
           /\ Remove(c).op = "remove" /\ Remove(c).id = c /\ Remove(c).known = {}
           /\ Insert(c) # Remove(k)
           /\ Insert(c) = Insert(k) => c = k
           /\ Remove(c) = Remove(k) => c = k
<1>1. /\ Insert(c).op = "insert" /\ Insert(c).id = c /\ Insert(c).known = {}
      /\ Remove(c).op = "remove" /\ Remove(c).id = c /\ Remove(c).known = {}
      /\ Insert(k).id = k /\ Remove(k).id = k /\ Remove(k).op = "remove"
  BY DEF Insert, Remove
<1>. QED
  BY <1>1

LEMMA HandlerTypes ==
    ASSUME NEW c \in Ids
    PROVE  Insert(c) \in Handler /\ Remove(c) \in Handler
BY DEF Insert, Remove, Handler, Ops, Names

----------------------------------------------------------------------------
(* Most steps are ordinary: channels are closed and destroyed, the queue   *)
(* moves, the list takes in what is inserted and gives up what is removed. *)

\* A channel that is destroyed has no insertion left in the queue, and its
\* removal is posted.
Destroys(d, a, h) ==
    \A c \in alive \ alive' :
        /\ \A i \in 1 .. Len(queue) : i > d => queue[i] # Insert(c)
        /\ shutdown \/ (a = 1 /\ h = Remove(c))

\* The list gets entries of channels that are not destroyed, keeps those of
\* open ones, and follows the handler that is taken from the queue.
Relists(d) ==
    /\ \A k \in DOMAIN list' :
        \/ k \in DOMAIN list /\ list'[k] = list[k]
        \/ k # 0 /\ k \in alive /\ list'[k] = k
        \/ k = 0 /\ list'[k] \in (alive \ open) \cap late'
    /\ \A k \in DOMAIN list : k \in open' => k \in DOMAIN list'
    /\ d = 1 =>
        /\ \A c \in open' : queue[1] = Insert(c) => c \in DOMAIN list'
        /\ \A k \in DOMAIN list' : queue[1] # Remove(k)

Ordinary(d, a, h) ==
    /\ fault = "none"
    /\ UNCHANGED <<nextId, creating, epoch>>
    /\ late \subseteq late'
    /\ alive' \subseteq alive
    /\ open' \subseteq open
    /\ Moves(d, a, h)
    /\ a = 1 => Good(h, alive', Issued') /\ h.known \cap creating = {}
    /\ Destroys(d, a, h)
    /\ Relists(d)

LEMMA OrdinaryQueue ==
    ASSUME QueueInv, NEW d, NEW a, NEW h, Ordinary(d, a, h)
    PROVE  QueueInv'
<1>0. Moves(d, a, h) /\ Issued' = Issued /\ alive' \subseteq alive
  BY DEF Ordinary, Issued
<1>1. ASSUME NEW i \in 1 .. Len(queue'), i + d \in 1 .. Len(queue), queue'[i] = queue[i + d]
      PROVE  Good(queue'[i], alive', Issued')
  <2>. DEFINE g == queue[i + d]
  <2>1. Good(g, alive, Issued) /\ i + d > d
    BY <1>0, <1>1, MovedHandlers DEF QueueInv
  <2>2. ASSUME g.op = "insert" PROVE g.id \in alive'
    BY <1>1, <2>1, <2>2 DEF Good, Ordinary, Destroys
  <2>3. queue'[i] = g
    BY <1>1
  <2>. HIDE DEF g
  <2>. QED
    BY <1>0, <2>1, <2>2, <2>3 DEF Good
<1>2. ASSUME NEW i \in 1 .. Len(queue'), a = 1, queue'[i] = h
      PROVE  Good(queue'[i], alive', Issued')
  BY <1>2 DEF Ordinary
<1>. QED
  BY <1>0, <1>1, <1>2, MovedHandlers DEF QueueInv

LEMMA OrdinaryList ==
    ASSUME TypeOK, ListInv, NEW d, NEW a, NEW h, Ordinary(d, a, h)
    PROVE  ListInv'
<1>1. Issued' = Issued /\ alive \subseteq Issued
  BY DEF Issued, Ordinary, TypeOK
<1>2. ASSUME NEW k \in DOMAIN list'
      PROVE  IF k = 0 THEN list'[k] \in (Issued \ open') \cap late' ELSE list'[k] = k /\ k \in Issued
  BY <1>1 DEF ListInv, Ordinary, Relists
<1>. QED
  BY <1>1, <1>2 DEF ListInv

LEMMA OrdinaryStale ==
    ASSUME TypeOK, QueueInv, ListInv, CalmInv, NoStaleEntry,
           NEW d, NEW a, NEW h, Ordinary(d, a, h)
    PROVE  NoStaleEntry'
<1>0. \A k \in DOMAIN list' : k = 0 => list'[k] \in late'
  BY OrdinaryList DEF ListInv
<1>. SUFFICES ASSUME epoch' = 0, NEW k \in DOMAIN list', k # 0, list'[k] \notin alive'
              PROVE  Queued(Remove(k), queue')
  BY <1>0 DEF NoStaleEntry, Queued
<1>1. epoch = 0 /\ ~shutdown /\ alive' \subseteq alive /\ Moves(d, a, h)
  BY DEF Ordinary, CalmInv
<1>2. list'[k] = k
  BY OrdinaryList DEF ListInv
<1>3. CASE k \in alive
  <2>1. a = 1 /\ h = Remove(k)
    BY <1>1, <1>2, <1>3 DEF Ordinary, Destroys
  <2>. QED
    BY <1>1, <2>1, MovedHandlers DEF Queued
<1>4. CASE k \notin alive
  <2>1. k \in DOMAIN list /\ list[k] = k
    BY <1>4 DEF Ordinary, Relists, ListInv
  <2>2. PICK i \in 1 .. Len(queue) : queue[i] = Remove(k)
    BY <1>1, <1>4, <2>1 DEF NoStaleEntry, Queued
  <2>3. i > d
    <3>1. d \in {0, 1} /\ (d = 1 => i # 1)
      BY <1>1, <2>2 DEF Ordinary, Relists, Moves
    <3>2. Len(queue) \in Nat
      BY <1>1 DEF Moves
    <3>. QED
      BY <3>1, <3>2
  <2>. QED
    BY <1>1, <2>2, <2>3, MovedHandlers DEF Queued
<1>. QED
  BY <1>3, <1>4

LEMMA OrdinaryCover ==
    ASSUME TypeOK, CoverInv, NEW d, NEW a, NEW h, Ordinary(d, a, h)
    PROVE  CoverInv'
<1>. SUFFICES ASSUME epoch' = 0
              PROVE  /\ \A c \in open' \ creating' : Covered(c, Len(queue') + 1, list', queue')
                     /\ \A i \in 1 .. Len(queue') : \A c \in queue'[i].known \cap open' : Covered(c, i, list', queue')
  BY DEF CoverInv
<1>1. epoch = 0 /\ Moves(d, a, h) /\ open' \subseteq open /\ creating' = creating
  BY DEF Ordinary
<1>2. /\ d \in {0, 1} /\ a \in {0, 1} /\ Len(queue) \in Nat
      /\ Len(queue') = Len(queue) - d + a
  BY <1>1 DEF Moves
<1>3. ASSUME NEW c \in open', NEW n \in 1 .. Len(queue) + 1, Covered(c, n, list, queue)
      PROVE  c \in DOMAIN list' \/ \E j \in 1 .. Len(queue') : j < n - d /\ queue'[j] = Insert(c)
  <2>1. CASE c \in DOMAIN list
    BY <2>1 DEF Ordinary, Relists
  <2>2. ASSUME NEW j \in 1 .. Len(queue), j < n, queue[j] = Insert(c)
        PROVE  c \in DOMAIN list' \/ \E i \in 1 .. Len(queue') : i < n - d /\ queue'[i] = Insert(c)
    <3>1. CASE j > d
      <4>1. j - d \in 1 .. Len(queue') /\ queue'[j - d] = Insert(c)
        BY <1>1, <2>2, <3>1, MovedHandlers
      <4>2. j - d < n - d
        BY <1>2, <2>2
      <4>. QED
        BY <4>1, <4>2
    <3>2. CASE ~(j > d)
      <4>1. d = 1 /\ j = 1
        BY <1>2, <3>2
      <4>. QED
        BY <2>2, <4>1 DEF Ordinary, Relists
    <3>. QED
      BY <3>1, <3>2
  <2>. QED
    BY <1>3, <2>1, <2>2 DEF Covered
<1>4. ASSUME NEW c \in open' \ creating, NEW n, n > Len(queue) - d, n \in Nat
      PROVE  Covered(c, n, list', queue')
  <2>. DEFINE m == Len(queue) + 1
  <2>1. Covered(c, m, list, queue) /\ m \in 1 .. Len(queue) + 1
    BY <1>1, <1>2 DEF CoverInv
  <2>3. \A j \in 1 .. Len(queue') : j < m - d => j < n
    BY <1>2, <1>4
  <2>. HIDE DEF m
  <2>2. c \in DOMAIN list' \/ \E j \in 1 .. Len(queue') : j < m - d /\ queue'[j] = Insert(c)
    BY <1>3, <2>1
  <2>. QED
    BY <2>2, <2>3 DEF Covered
<1>5. ASSUME NEW i \in 1 .. Len(queue'), NEW c \in queue'[i].known \cap open'
      PROVE  Covered(c, i, list', queue')
  <2>1. CASE i + d \in 1 .. Len(queue) /\ queue'[i] = queue[i + d]
    <3>. DEFINE m == i + d
    <3>1. Covered(c, m, list, queue)
      BY <1>1, <2>1 DEF CoverInv
    <3>2. m \in 1 .. Len(queue) + 1 /\ m - d = i
      BY <1>2, <2>1
    <3>. HIDE DEF m
    <3>3. c \in DOMAIN list' \/ \E j \in 1 .. Len(queue') : j < m - d /\ queue'[j] = Insert(c)
      BY <1>3, <3>1, <3>2
    <3>. QED
      BY <3>2, <3>3 DEF Covered
  <2>2. CASE a = 1 /\ i = Len(queue) - d + 1 /\ queue'[i] = h
    <3>1. c \in open' \ creating
      BY <2>2 DEF Ordinary
    <3>. QED
      BY <1>2, <1>4, <2>2, <3>1
  <2>. QED
    BY <1>1, <2>1, <2>2, MovedHandlers
<1>6. \A c \in open' \ creating' : Covered(c, Len(queue') + 1, list', queue')
  BY <1>1, <1>2, <1>4
<1>. QED
  BY <1>5, <1>6

LEMMA OrdinaryWalk ==
    ASSUME TypeOK, WalkInv, NEW d, NEW a, NEW h, Ordinary(d, a, h), UNCHANGED <<sd, cursor, snap>>
    PROVE  WalkInv'
<1>1. open' \subseteq open /\ fault = "none"
  BY DEF Ordinary
<1>2. \A k \in open' : k \in ToDo => k \in ToDo'
  BY <1>1 DEF ToDo, Ordinary, Relists
<1>. QED
  BY <1>1, <1>2 DEF WalkInv

LEMMA OrdinaryStep ==
    ASSUME RegInv, NEW d, NEW a, NEW h, Ordinary(d, a, h), UNCHANGED <<shutdown, sd, cursor, snap>>,
           TypeOK', LifeInv', NoneMissed'
    PROVE  RegInv'
<1>1. CalmInv'
  BY DEF RegInv, CalmInv, Ordinary
<1>. QED
  BY <1>1, OrdinaryQueue, OrdinaryList, OrdinaryStale, OrdinaryCover, OrdinaryWalk DEF RegInv

\* Steps that leave the registry's queue and list alone and destroy no channel.
LEMMA QuietOrdinary ==
    ASSUME TypeOK, fault = "none", UNCHANGED <<nextId, alive, creating, list, queue, epoch, late>>,
           open' \subseteq open
    PROVE  Ordinary(0, 0, 0)
<1>1. Len(queue) \in Nat
  BY LenProperties DEF TypeOK
<1>2. Moves(0, 0, 0)
  BY <1>1 DEF Moves
<1>3. Destroys(0, 0, 0) /\ Relists(0)
  BY DEF Destroys, Relists
<1>. QED
  BY <1>2, <1>3 DEF Ordinary

----------------------------------------------------------------------------
(* Strands and references of channels. *)

\* What LifeInv says of the strands, for given strands, living and open channels.
StrandsOK(st, living, opened) ==
    /\ st \in [Ids -> Seq({"msg", "stop"})]
    /\ \A c \in Ids :
        /\ st[c] # <<>> => c \in living
        /\ \A i \in 1 .. Len(st[c]) : st[c][i] = "stop" => c \notin opened

LEMMA StopAllStrands ==
    ASSUME TypeOK, LifeInv, NEW S, StopAll(S)
    PROVE  StrandsOK(strand', alive, open') /\ open' = open \ S
<1>1. open' = open \ S /\ open \subseteq alive
  BY DEF StopAll, TypeOK
<1>2. ASSUME NEW c \in Ids
      PROVE  /\ strand'[c] \in Seq({"msg", "stop"})
             /\ strand'[c] # <<>> => c \in alive
             /\ \A i \in 1 .. Len(strand'[c]) : strand'[c][i] = "stop" => c \notin open'
  <2>1. strand[c] \in Seq({"msg", "stop"}) /\ "stop" \in {"msg", "stop"}
    BY DEF TypeOK
  <2>2. CASE c \in S \cap open
    <3>1. strand'[c] = Append(strand[c], "stop")
      BY <2>2 DEF StopAll
    <3>2. strand'[c] \in Seq({"msg", "stop"})
      BY <2>1, <3>1, AppendProperties
    <3>. QED
      BY <1>1, <2>2, <3>2
  <2>3. CASE c \notin S \cap open
    <3>1. strand'[c] = strand[c]
      BY <2>3 DEF StopAll
    <3>. QED
      BY <1>1, <2>1, <3>1 DEF LifeInv
  <2>. QED
    BY <2>2, <2>3
<1>3. strand' \in [Ids -> Seq({"msg", "stop"})]
  BY <1>2 DEF StopAll
<1>. QED
  BY <1>1, <1>2, <1>3 DEF StrandsOK

LEMMA DispatchAllStrands ==
    ASSUME TypeOK, LifeInv, NEW S, DispatchAll(S)
    PROVE  StrandsOK(strand', alive, open)
<1>1. open \subseteq alive
  BY DEF TypeOK
<1>2. ASSUME NEW c \in Ids
      PROVE  /\ strand'[c] \in Seq({"msg", "stop"})
             /\ strand'[c] # <<>> => c \in alive
             /\ \A i \in 1 .. Len(strand'[c]) : strand'[c][i] = "stop" => c \notin open
  <2>1. strand[c] \in Seq({"msg", "stop"}) /\ "msg" \in {"msg", "stop"}
    BY DEF TypeOK
  <2>2. CASE c \in S \cap open
    <3>1. strand'[c] = Append(strand[c], "msg")
      BY <2>2 DEF DispatchAll
    <3>2. /\ strand'[c] \in Seq({"msg", "stop"})
          /\ Len(strand[c]) \in Nat /\ Len(strand'[c]) = Len(strand[c]) + 1
          /\ strand'[c][Len(strand[c]) + 1] = "msg"
          /\ \A i \in 1 .. Len(strand[c]) : strand'[c][i] = strand[c][i]
      BY <2>1, <3>1, AppendProperties, LenProperties
    <3>3. \A i \in 1 .. Len(strand'[c]) : strand'[c][i] = "stop" => c \notin open
      BY <3>2 DEF LifeInv
    <3>. QED
      BY <1>1, <2>2, <3>2, <3>3
  <2>3. CASE c \notin S \cap open
    <3>1. strand'[c] = strand[c]
      BY <2>3 DEF DispatchAll
    <3>. QED
      BY <2>1, <3>1 DEF LifeInv
  <2>. QED
    BY <2>2, <2>3
<1>3. strand' \in [Ids -> Seq({"msg", "stop"})]
  BY <1>2 DEF DispatchAll
<1>. QED
  BY <1>2, <1>3 DEF StrandsOK

\* A reference is given up: either nothing happens, or the channel is destroyed
\* and its removal posted.
LEMMA ReleaseLife ==
    ASSUME TypeOK, NEW c \in alive, NEW u \in SUBSET alive, NEW st, NEW q \in Seq(Handler),
           StrandsOK(st, alive, open), Release(c, u, st, q), UNCHANGED creating
    PROVE  /\ user' \subseteq alive' /\ open' \subseteq alive' /\ alive' \subseteq alive
           /\ creating' \subseteq alive'
           /\ open' \subseteq open
           /\ StrandsOK(strand', alive', open')
           /\ queue' \in Seq(Handler)
<1>1. c \in Ids /\ open \subseteq alive /\ creating \subseteq alive
  BY RegistryAssumption DEF TypeOK, Ids
<1>2. CASE Held(c, u, st, q)
  BY <1>1, <1>2 DEF Release
<1>3. CASE ~Held(c, u, st, q)
  <2>1. /\ user' = u /\ strand' = st /\ alive' = alive \ {c} /\ open' = open \ {c}
        /\ queue' = q \/ queue' = Append(q, Remove(c))
        /\ c \notin u /\ c \notin creating /\ st[c] = <<>>
    BY <1>3 DEF Release, Held, AutoRemove
  <2>2. queue' \in Seq(Handler)
    BY <1>1, <2>1, HandlerTypes, AppendProperties
  <2>3. StrandsOK(st, alive \ {c}, open \ {c})
    BY <2>1 DEF StrandsOK
  <2>. QED
    BY <1>1, <2>1, <2>2, <2>3
<1>. QED
  BY <1>2, <1>3

LEMMA ReleaseMoves ==
    ASSUME TypeOK, NEW c \in alive, NEW u, NEW st, NEW q, NEW d \in {0, 1},
           IF d = 0 THEN q = queue ELSE queue # <<>> /\ q = Tail(queue),
           Release(c, u, st, q), UNCHANGED nextId
    PROVE  \E a \in {0, 1} :
                /\ Moves(d, a, Remove(c))
                /\ a = 1 => Good(Remove(c), alive', Issued')
                /\ Destroys(d, a, Remove(c))
<1>1. /\ c \in Ids /\ c \in Issued /\ Issued' = Issued
      /\ Remove(c) \in Handler /\ queue \in Seq(Handler)
  BY RegistryAssumption, HandlerTypes DEF TypeOK, Ids, Issued
<1>2. queue' = q => Moves(d, 0, Remove(c))
  BY <1>1, QueueMoves
<1>3. queue' = Append(q, Remove(c)) => Moves(d, 1, Remove(c))
  BY <1>1, QueueMoves
<1>4. CASE Held(c, u, st, q)
  <2>1. queue' = q /\ alive' = alive
    BY <1>4 DEF Release
  <2>. QED
    BY <1>2, <2>1 DEF Destroys
<1>5. CASE ~Held(c, u, st, q)
  <2>1. alive' = alive \ {c} /\ queue' = (IF shutdown THEN q ELSE Append(q, Remove(c)))
        /\ ~Queued(Insert(c), q)
    BY <1>5 DEF Release, Held, AutoRemove
  <2>2. Good(Remove(c), alive', Issued')
    BY <1>1, <2>1, HandlerForms DEF Good
  <2>3. \A i \in 1 .. Len(queue) : i > d => queue[i] # Insert(c)
    <3>1. CASE d = 0
      BY <2>1, <3>1 DEF Queued
    <3>2. CASE d = 1
      <4>1. /\ queue # <<>> /\ q = Tail(queue)
            /\ Len(queue) \in Nat /\ Len(q) = Len(queue) - 1
            /\ \A i \in 1 .. Len(q) : q[i] = queue[i + 1]
        BY <1>1, <3>2, HeadTailProperties, LenProperties
      <4>2. ASSUME NEW i \in 1 .. Len(queue), i > 1 PROVE queue[i] # Insert(c)
        <5>3. Len(queue) \in Nat /\ Len(q) = Len(queue) - 1
          BY <4>1
        <5>1. i - 1 \in 1 .. Len(q) /\ (i - 1) + 1 = i
          BY <4>2, <5>3
        <5>2. q[i - 1] = queue[(i - 1) + 1]
          BY <4>1, <5>1
        <5>. QED
          BY <2>1, <5>1, <5>2 DEF Queued
      <4>. QED
        BY <3>2, <4>2
    <3>. QED
      BY <3>1, <3>2
  <2>4. CASE shutdown
    BY <1>2, <2>1, <2>3, <2>4 DEF Destroys
  <2>5. CASE ~shutdown
    BY <1>3, <2>1, <2>2, <2>3, <2>5 DEF Destroys
  <2>. QED
    BY <2>4, <2>5
<1>. QED
  BY <1>4, <1>5

----------------------------------------------------------------------------
(* The steps of user code and of the channels. *)

\* LifeInv in terms of StrandsOK.
LEMMA LifeFromStrands ==
    /\ eod \subseteq Issued /\ before \subseteq Issued /\ StrandsOK(strand, alive, open) => LifeInv
    /\ LifeInv /\ TypeOK => StrandsOK(strand, alive, open)
BY DEF LifeInv, StrandsOK, TypeOK

LEMMA NextLifeFromStrands ==
    eod' \subseteq Issued' /\ before' \subseteq Issued' /\ StrandsOK(strand', alive', open') => LifeInv'
BY DEF LifeInv, StrandsOK

LEMMA UserStopStep ==
    ASSUME RegInv, NEW c \in Ids, UserStop(c)
    PROVE  RegInv'
<1>0. TypeOK /\ LifeInv /\ NoneMissed
  BY DEF RegInv
<1>1. StopAll({c}) /\ fault = "none"
      /\ UNCHANGED <<nextId, user, alive, creating, eod, list, queue, shutdown, sd, cursor, ctx, fault, hist>>
  BY DEF UserStop, CanRun
<1>2. StrandsOK(strand', alive, open') /\ open' = open \ {c}
  BY <1>0, <1>1, StopAllStrands
<1>3. TypeOK'
  BY <1>0, <1>1, <1>2 DEF TypeOK, StrandsOK, hist
<1>4. LifeInv'
  BY <1>0, <1>1, <1>2, NextLifeFromStrands DEF LifeInv, Issued, hist
<1>5. NoneMissed' /\ UNCHANGED <<epoch, snap, late>>
  BY <1>0, <1>1 DEF NoneMissed, hist
<1>6. Ordinary(0, 0, 0)
  BY <1>0, <1>1, <1>2, <1>5, QuietOrdinary
<1>. QED
  BY <1>1, <1>3, <1>4, <1>5, <1>6, OrdinaryStep

LEMMA UserDispatchStep ==
    ASSUME RegInv, NEW c \in Ids, UserDispatch(c)
    PROVE  RegInv'
<1>0. TypeOK /\ LifeInv /\ NoneMissed
  BY DEF RegInv
<1>1. DispatchAll({c}) /\ fault = "none" /\ ops < MaxOps /\ ops' = ops + 1
      /\ UNCHANGED <<nextId, user, open, alive, creating, eod, list, queue, shutdown, sd, cursor,
                     ctx, fault, epoch, before, snap, missed, late>>
  BY DEF UserDispatch, CanRun
<1>2. StrandsOK(strand', alive, open)
  BY <1>0, <1>1, DispatchAllStrands
<1>3. TypeOK'
  BY <1>0, <1>1, <1>2, RegistryAssumption DEF TypeOK, StrandsOK
<1>4. LifeInv'
  BY <1>0, <1>1, <1>2, NextLifeFromStrands DEF LifeInv, Issued
<1>5. NoneMissed'
  BY <1>0, <1>1 DEF NoneMissed
<1>6. Ordinary(0, 0, 0)
  BY <1>0, <1>1, QuietOrdinary
<1>. QED
  BY <1>1, <1>3, <1>4, <1>5, <1>6, OrdinaryStep

LEMMA UserDropStep ==
    ASSUME RegInv, NEW c \in Ids, UserDrop(c)
    PROVE  RegInv'
<1>0. TypeOK /\ LifeInv /\ NoneMissed /\ StrandsOK(strand, alive, open) /\ queue \in Seq(Handler)
  BY LifeFromStrands DEF RegInv, TypeOK
<1>1. Release(c, user \ {c}, strand, queue) /\ fault = "none" /\ c \in user
      /\ UNCHANGED <<nextId, creating, eod, list, shutdown, sd, cursor, ctx, fault, hist>>
  BY DEF UserDrop, CanRun
<1>2. c \in alive /\ user \ {c} \in SUBSET alive
  BY <1>0, <1>1 DEF TypeOK
<1>3. /\ user' \subseteq alive' /\ open' \subseteq alive' /\ alive' \subseteq alive
      /\ creating' \subseteq alive' /\ open' \subseteq open
      /\ StrandsOK(strand', alive', open')
      /\ queue' \in Seq(Handler)
  BY <1>0, <1>1, <1>2, ReleaseLife
<1>4. PICK a \in {0, 1} :
            /\ Moves(0, a, Remove(c))
            /\ a = 1 => Good(Remove(c), alive', Issued')
            /\ Destroys(0, a, Remove(c))
  BY <1>0, <1>1, <1>2, ReleaseMoves
<1>5. TypeOK'
  BY <1>0, <1>1, <1>3 DEF TypeOK, StrandsOK, hist
<1>6. LifeInv'
  BY <1>0, <1>1, <1>3, NextLifeFromStrands DEF LifeInv, Issued, hist
<1>7. NoneMissed' /\ UNCHANGED <<epoch, snap, late>>
  BY <1>0, <1>1 DEF NoneMissed, hist
<1>8. Ordinary(0, a, Remove(c))
  BY <1>1, <1>3, <1>4, <1>7, HandlerForms DEF Ordinary, Relists
<1>. QED
  BY <1>1, <1>5, <1>6, <1>7, <1>8, OrdinaryStep

LEMMA RunChannelStep ==
    ASSUME RegInv, NEW c \in Ids, RunChannel(c)
    PROVE  RegInv'
<1>. DEFINE st == [strand EXCEPT ![c] = Tail(@)]
<1>0. TypeOK /\ LifeInv /\ NoneMissed /\ StrandsOK(strand, alive, open) /\ queue \in Seq(Handler)
  BY LifeFromStrands DEF RegInv, TypeOK
<1>1. Release(c, user, st, queue) /\ fault = "none" /\ strand[c] # <<>>
      /\ eod' = (IF Head(strand[c]) = "stop" THEN eod \cup {c} ELSE eod)
      /\ UNCHANGED <<nextId, creating, list, shutdown, sd, cursor, ctx, fault, hist>>
  BY DEF RunChannel
<1>2. c \in alive /\ user \in SUBSET alive /\ c \in Issued
  BY <1>0, <1>1 DEF TypeOK, LifeInv, Issued
<1>3. /\ strand[c] \in Seq({"msg", "stop"}) /\ Tail(strand[c]) \in Seq({"msg", "stop"})
      /\ Len(strand[c]) \in Nat /\ 1 \in 1 .. Len(strand[c]) /\ Head(strand[c]) = strand[c][1]
      /\ Len(Tail(strand[c])) = Len(strand[c]) - 1
      /\ \A i \in 1 .. Len(Tail(strand[c])) : Tail(strand[c])[i] = strand[c][i + 1] /\ i + 1 \in 1 .. Len(strand[c])
  BY <1>0, <1>1, HeadTailProperties, LenProperties, EmptySeq DEF StrandsOK
<1>4. StrandsOK(st, alive, open)
  <2>1. st \in [Ids -> Seq({"msg", "stop"})] /\ st[c] = Tail(strand[c])
        /\ \A x \in Ids : x # c => st[x] = strand[x]
    BY <1>0, <1>3 DEF StrandsOK
  <2>2. \A i \in 1 .. Len(st[c]) : st[c][i] = "stop" => c \notin open
    BY <1>0, <1>3, <2>1 DEF StrandsOK
  <2>. HIDE DEF st
  <2>. QED
    BY <1>0, <1>2, <2>1, <2>2 DEF StrandsOK
<1>. HIDE DEF st
<1>5. Head(strand[c]) = "stop" => c \notin open
  BY <1>0, <1>3 DEF LifeInv
<1>6. /\ user' \subseteq alive' /\ open' \subseteq alive' /\ alive' \subseteq alive
      /\ creating' \subseteq alive' /\ open' \subseteq open
      /\ StrandsOK(strand', alive', open')
      /\ queue' \in Seq(Handler)
  BY <1>0, <1>1, <1>2, <1>4, ReleaseLife
<1>7. PICK a \in {0, 1} :
            /\ Moves(0, a, Remove(c))
            /\ a = 1 => Good(Remove(c), alive', Issued')
            /\ Destroys(0, a, Remove(c))
  BY <1>0, <1>1, <1>2, ReleaseMoves
<1>8. TypeOK'
  BY <1>0, <1>1, <1>5, <1>6 DEF TypeOK, StrandsOK, hist
<1>9. LifeInv'
  BY <1>0, <1>1, <1>2, <1>6, NextLifeFromStrands DEF LifeInv, Issued, hist
<1>10. NoneMissed' /\ UNCHANGED <<epoch, snap, late>>
  BY <1>0, <1>1 DEF NoneMissed, hist
<1>11. Ordinary(0, a, Remove(c))
  BY <1>1, <1>6, <1>7, <1>10, HandlerForms DEF Ordinary, Relists
<1>. QED
  BY <1>1, <1>8, <1>9, <1>10, <1>11, OrdinaryStep

LEMMA RequestStep ==
    ASSUME RegInv, NEW c \in Ids, NEW n \in Names,
           NEW op \in {"lookup", "dispatch", "dispatch_id", "exclude", "stop"}, Request(op, c, n)
    PROVE  RegInv'
<1>. DEFINE h == [op |-> op, id |-> c, name |-> n, 
                known |-> (Addressed(op, c, n) \cap open) \ creating]
<1>0. TypeOK /\ LifeInv /\ NoneMissed /\ StrandsOK(strand, alive, open) /\ queue \in Seq(Handler)
  BY LifeFromStrands DEF RegInv, TypeOK
<1>1. queue' = Append(queue, h) /\ fault = "none" /\ ops < MaxOps /\ ops' = ops + 1
      /\ UNCHANGED <<nextId, user, open, alive, creating, strand, eod, list, shutdown, sd, cursor, ctx,
                     fault, epoch, before, snap, missed, late>>
  BY DEF Request, CanRun, Post, chans
<1>2. open \subseteq Issued /\ Issued \subseteq Ids /\ Issued' = Issued
  BY <1>0, <1>1, RegistryAssumption DEF TypeOK, Issued, Ids
<1>3. h \in Handler
  BY <1>2 DEF Handler, Ops
<1>4. Good(h, alive', Issued') /\ h.known \cap creating = {}
  BY <1>1, <1>2 DEF Good
<1>. HIDE DEF h
<1>5. queue' \in Seq(Handler) /\ Moves(0, 1, h)
  BY <1>0, <1>1, <1>3, QueueMoves, AppendProperties
<1>6. TypeOK'
  BY <1>0, <1>1, <1>5, RegistryAssumption DEF TypeOK
<1>7. LifeInv'
  BY <1>0, <1>1 DEF LifeInv, Issued
<1>8. NoneMissed'
  BY <1>0, <1>1 DEF NoneMissed
<1>9. Ordinary(0, 1, h)
  BY <1>1, <1>4, <1>5 DEF Ordinary, Destroys, Relists
<1>. QED
  BY <1>1, <1>6, <1>7, <1>8, <1>9, OrdinaryStep

LEMMA CreateStep ==
    ASSUME RegInv, Create
    PROVE  RegInv'
<1>. DEFINE c == nextId + 1
<1>0. /\ TypeOK /\ LifeInv /\ QueueInv /\ ListInv /\ CalmInv /\ NoStaleEntry /\ CoverInv /\ NoneMissed
      /\ WalkInv
  BY DEF RegInv
<1>1. /\ nextId' = c /\ open' = open \cup {c} /\ alive' = alive \cup {c}
      /\ user' = (IF shutdown THEN user \cup {c} ELSE user)
      /\ creating' = (IF shutdown THEN creating ELSE creating \cup {c})
      /\ fault = "none" /\ nextId < MaxTasks
      /\ UNCHANGED <<strand, eod, list, queue, shutdown, sd, cursor, ctx, fault, ops, epoch, before, snap,
                     missed, late>>
  BY DEF Create, CanRun, hist
<1>2. /\ c \in Ids /\ c \notin Issued /\ Issued' = Issued \cup {c} /\ Issued \subseteq Ids /\ 0 \notin Issued
      /\ alive \subseteq Issued /\ nextId' \in 0 .. MaxTasks
  <2>1. nextId \in Nat /\ nextId < MaxTasks /\ MaxTasks \in Nat /\ nextId' = nextId + 1 /\ alive \subseteq 1 .. nextId
    BY <1>0, <1>1, RegistryAssumption DEF TypeOK
  <2>2. 1 .. (nextId + 1) = (1 .. nextId) \cup {nextId + 1}
    BY <2>1
  <2>3. c \in 1 .. MaxTasks /\ c \notin 1 .. nextId /\ 1 .. nextId \subseteq 1 .. MaxTasks
    BY <2>1
  <2>. QED
    BY <2>1, <2>2, <2>3 DEF Issued, Ids
<1>. HIDE DEF c
<1>3. TypeOK'
  <2>1. user' \subseteq alive' /\ creating' \subseteq alive' /\ open' \subseteq alive' /\ alive' \subseteq Issued'
    BY <1>0, <1>1, <1>2 DEF TypeOK
  <2>2. eod' \subseteq Ids \ open'
    BY <1>0, <1>1, <1>2 DEF TypeOK, LifeInv
  <2>. QED
    BY <1>0, <1>1, <1>2, <2>1, <2>2 DEF TypeOK, Issued
<1>4. LifeInv'
  <2>1. strand[c] = <<>> /\ Len(strand[c]) = 0
    BY <1>0, <1>2 DEF LifeInv
  <2>2. StrandsOK(strand', alive', open')
    BY <1>0, <1>1, <2>1 DEF StrandsOK, LifeInv, TypeOK
  <2>3. eod' \subseteq Issued' /\ before' \subseteq Issued'
    BY <1>0, <1>1, <1>2 DEF LifeInv
  <2>. QED
    BY <2>2, <2>3, NextLifeFromStrands
<1>5. QueueInv'
  <2>1. ASSUME NEW h, Good(h, alive, Issued) PROVE Good(h, alive', Issued')
    BY <1>1, <1>2, <2>1 DEF Good
  <2>. QED
    BY <1>0, <1>1, <2>1 DEF QueueInv
<1>6. ListInv'
  BY <1>0, <1>1, <1>2 DEF ListInv
<1>7. CalmInv' /\ NoneMissed'
  BY <1>0, <1>1 DEF CalmInv, NoneMissed
<1>8. NoStaleEntry'
  BY <1>0, <1>1 DEF NoStaleEntry
<1>9. CoverInv'
  <2>1. ASSUME epoch' = 0 PROVE epoch = 0 /\ open' \ creating' \subseteq open \ creating
    BY <1>0, <1>1, <2>1 DEF CalmInv
  <2>2. ASSUME NEW i \in 1 .. Len(queue) PROVE c \notin queue[i].known
    BY <1>0, <1>2 DEF QueueInv, Good
  <2>. QED
    BY <1>0, <1>1, <2>1, <2>2 DEF CoverInv
<1>10. WalkInv'
  <2>1. c \notin snap /\ ToDo' = ToDo
    BY <1>0, <1>1, <1>2 DEF TypeOK, LifeInv, ToDo
  <2>. QED
    BY <1>0, <1>1, <2>1 DEF WalkInv
<1>. QED
  BY <1>3, <1>4, <1>5, <1>6, <1>7, <1>8, <1>9, <1>10 DEF RegInv

LEMMA PostInsertStep ==
    ASSUME RegInv, NEW c \in Ids, PostInsert(c)
    PROVE  RegInv'
<1>0. /\ TypeOK /\ LifeInv /\ QueueInv /\ ListInv /\ CalmInv /\ NoStaleEntry /\ CoverInv /\ NoneMissed
      /\ WalkInv /\ queue \in Seq(Handler)
  BY DEF RegInv, TypeOK
<1>1. /\ c \in creating /\ creating' = creating \ {c} /\ user' = user \cup {c}
      /\ queue' = Append(queue, Insert(c)) /\ fault = "none"
      /\ UNCHANGED <<nextId, open, alive, strand, eod, list, shutdown, sd, cursor, ctx, fault, ops, epoch,
                     before, snap, missed, late>>
  BY DEF PostInsert, CanRun, hist
<1>2. c \in alive /\ Insert(c) \in Handler /\ Issued' = Issued
  BY <1>0, <1>1, HandlerTypes DEF TypeOK, Issued
<1>3. queue' \in Seq(Handler) /\ Moves(0, 1, Insert(c))
  BY <1>0, <1>1, <1>2, QueueMoves, AppendProperties
<1>4. TypeOK'
  BY <1>0, <1>1, <1>2, <1>3 DEF TypeOK
<1>5. LifeInv' /\ ListInv'
  BY <1>0, <1>1 DEF LifeInv, ListInv, Issued
<1>6. QueueInv'
  <2>1. Good(Insert(c), alive', Issued')
    BY <1>1, <1>2, HandlerForms DEF Good
  <2>2. \A i \in 1 .. Len(queue') :
            (i + 0 \in 1 .. Len(queue) /\ queue'[i] = queue[i + 0]) \/ queue'[i] = Insert(c)
    BY <1>3, MovedHandlers
  <2>. QED
    BY <1>0, <1>1, <1>2, <2>1, <2>2 DEF QueueInv
<1>7. CalmInv' /\ NoneMissed'
  BY <1>0, <1>1 DEF CalmInv, NoneMissed
<1>8. \A i \in 1 .. Len(queue) : i \in 1 .. Len(queue') /\ queue'[i] = queue[i]
  <2>1. \A i \in 1 .. Len(queue) : i > 0 => i - 0 \in 1 .. Len(queue') /\ queue'[i - 0] = queue[i]
    BY <1>3, MovedHandlers
  <2>2. \A i \in 1 .. Len(queue) : i > 0 /\ i - 0 = i
    BY <1>3, MovedHandlers
  <2>. QED
    BY <2>1, <2>2
<1>9. NoStaleEntry'
  <2>1. ASSUME NEW k, Queued(Remove(k), queue) PROVE Queued(Remove(k), queue')
    BY <1>8, <2>1 DEF Queued
  <2>. QED
    BY <1>0, <1>1, <2>1 DEF NoStaleEntry
<1>10. CoverInv'
  <2>. SUFFICES ASSUME epoch' = 0
                PROVE  /\ \A x \in open' \ creating' : Covered(x, Len(queue') + 1, list', queue')
                       /\ \A i \in 1 .. Len(queue') : \A x \in queue'[i].known \cap open' :
                            Covered(x, i, list', queue')
    BY DEF CoverInv
  <2>1. epoch = 0
    BY <1>1
  <2>2. /\ Len(queue) \in Nat /\ Len(queue') = Len(queue) + 1 /\ queue'[Len(queue) + 1] = Insert(c)
    BY <1>3 DEF Moves
  <2>3. ASSUME NEW x, NEW n \in Nat, Covered(x, n, list, queue) PROVE Covered(x, n, list', queue')
    BY <1>1, <1>8, <2>3 DEF Covered
  <2>4. ASSUME NEW x \in open \ creating PROVE Covered(x, Len(queue') + 1, list', queue')
    <3>1. Covered(x, Len(queue) + 1, list', queue')
      BY <1>0, <2>1, <2>2, <2>3 DEF CoverInv
    <3>. QED
      BY <2>2, <3>1 DEF Covered
  <2>5. Covered(c, Len(queue') + 1, list', queue')
    BY <2>2 DEF Covered
  <2>6. ASSUME NEW i \in 1 .. Len(queue'), NEW x \in queue'[i].known \cap open'
        PROVE  Covered(x, i, list', queue')
    <3>1. CASE i \in 1 .. Len(queue)
      <4>1. x \in queue[i].known /\ x \in open
        BY <1>1, <1>8, <3>1
      <4>. QED
        BY <1>0, <2>1, <2>3, <3>1, <4>1 DEF CoverInv
    <3>2. CASE i = Len(queue) + 1
      BY <2>2, <3>2, HandlerForms
    <3>. QED
      BY <2>2, <3>1, <3>2
  <2>. QED
    BY <1>1, <2>4, <2>5, <2>6
<1>11. WalkInv'
  BY <1>0, <1>1 DEF WalkInv, ToDo
<1>. QED
  BY <1>4, <1>5, <1>6, <1>7, <1>9, <1>10, <1>11 DEF RegInv

----------------------------------------------------------------------------
(* The handlers of the registry's strand. *)

LEMMA HeadOfQueue ==
    ASSUME RegInv, queue # <<>>
    PROVE  /\ Len(queue) \in Nat /\ 1 \in 1 .. Len(queue) /\ Head(queue) = queue[1]
           /\ Head(queue) \in Handler /\ Good(Head(queue), alive, Issued)
           /\ Tail(queue) \in Seq(Handler)
<1>1. queue \in Seq(Handler) /\ QueueInv
  BY DEF RegInv, TypeOK
<1>2. /\ Len(queue) \in Nat /\ 1 \in 1 .. Len(queue) /\ Head(queue) = queue[1]
      /\ Head(queue) \in Handler /\ Tail(queue) \in Seq(Handler)
  BY <1>1, HeadTailProperties, LenProperties, EmptySeq
<1>. QED
  BY <1>1, <1>2 DEF QueueInv

\* What CanTake allows the data race to do.
LEMMA RaceType ==
    ASSUME NEW op, CanTake(op)
    PROVE  fault = "none" /\ queue # <<>> /\ Head(queue).op \in op /\ fault' \in {"none", "race"}
BY DEF CanTake, MayRace

LEMMA RunInsertStep ==
    ASSUME RegInv, RunInsert
    PROVE  RegInv'
<1>. DEFINE c == Head(queue).id
<1>0. TypeOK /\ LifeInv /\ NoneMissed /\ StrandsOK(strand, alive, open) /\ queue \in Seq(Handler)
  BY LifeFromStrands DEF RegInv, TypeOK
<1>1. /\ list' = Emplace(GetId(c), c) /\ Release(c, user, strand, Tail(queue))
      /\ late' = (IF c \in open THEN late ELSE late \cup {c})
      /\ UNCHANGED <<nextId, creating, eod, shutdown, sd, cursor, ctx, ops, epoch, before, snap, missed>>
      /\ CanTake({"insert"})
  BY DEF RunInsert
<1>2. fault = "none" /\ queue # <<>> /\ Head(queue).op = "insert" /\ fault' \in {"none", "race"}
  BY <1>1, RaceType
<1>3. queue[1] = Insert(c) /\ c \in alive /\ Tail(queue) \in Seq(Handler)
  BY <1>2, HeadOfQueue DEF Good
<1>. HIDE DEF c
<1>4. c \in Ids /\ 0 \notin Ids /\ open \subseteq alive
  BY <1>0, <1>3, RegistryAssumption DEF TypeOK, Ids
<1>5. user \in SUBSET alive
  BY <1>0 DEF TypeOK
<1>6. /\ user' \subseteq alive' /\ open' \subseteq alive' /\ alive' \subseteq alive
      /\ creating' \subseteq alive' /\ open' \subseteq open
      /\ StrandsOK(strand', alive', open')
      /\ queue' \in Seq(Handler)
  BY <1>0, <1>1, <1>3, <1>5, ReleaseLife
<1>7. PICK a \in {0, 1} :
            /\ Moves(1, a, Remove(c))
            /\ a = 1 => Good(Remove(c), alive', Issued')
            /\ Destroys(1, a, Remove(c))
  <2>1. Release(c, user, strand, Tail(queue)) /\ UNCHANGED nextId /\ 1 \in {0, 1} /\ 1 # 0
    BY <1>1
  <2>. QED
    BY <1>0, <1>2, <1>3, <2>1, ReleaseMoves
<1>8. /\ DOMAIN list' = DOMAIN list \cup {GetId(c)}
      /\ \A k \in DOMAIN list : list'[k] = list[k]
      /\ GetId(c) \notin DOMAIN list => list'[GetId(c)] = c
  BY <1>1 DEF Emplace
<1>9. GetId(c) = IF c \in open THEN c ELSE 0
  BY DEF GetId
<1>10. Relists(1)
  <2>1. ASSUME NEW k \in DOMAIN list'
        PROVE  \/ k \in DOMAIN list /\ list'[k] = list[k]
               \/ k # 0 /\ k \in alive /\ list'[k] = k
               \/ k = 0 /\ list'[k] \in (alive \ open) \cap late'
    BY <1>1, <1>3, <1>4, <1>8, <1>9
  <2>2. ASSUME NEW x \in open', queue[1] = Insert(x) PROVE x \in DOMAIN list'
    <3>1. Insert(x).id = x /\ Insert(c).id = c
      BY HandlerForms
    <3>2. Insert(x) = Insert(c)
      BY <1>3, <2>2
    <3>3. x = c
      BY <3>1, <3>2
    <3>. QED
      BY <1>6, <1>8, <1>9, <2>2, <3>3
  <2>3. \A k \in DOMAIN list' : queue[1] # Remove(k)
    BY <1>3, HandlerForms
  <2>. QED
    BY <1>8, <2>1, <2>2, <2>3 DEF Relists
<1>11. TypeOK'
  <2>1. DOMAIN list' \subseteq 0 .. MaxTasks
    BY <1>0, <1>4, <1>8, <1>9, RegistryAssumption DEF TypeOK, Ids
  <2>2. \A k \in DOMAIN list' : list'[k] \in Ids
    BY <1>0, <1>4, <1>8 DEF TypeOK
  <2>. QED
    BY <1>0, <1>1, <1>2, <1>4, <1>6, <2>1, <2>2 DEF TypeOK, StrandsOK
<1>12. LifeInv'
  BY <1>0, <1>1, <1>6, NextLifeFromStrands DEF LifeInv, Issued, hist
<1>13. NoneMissed' /\ late \subseteq late'
  BY <1>0, <1>1 DEF NoneMissed
<1>14. Ordinary(1, a, Remove(c))
  BY <1>1, <1>2, <1>6, <1>7, <1>10, <1>13, HandlerForms DEF Ordinary
<1>. QED
  BY <1>1, <1>11, <1>12, <1>13, <1>14, OrdinaryStep

LEMMA RunRemoveStep ==
    ASSUME RegInv, RunRemove
    PROVE  RegInv'
<1>. DEFINE c == Head(queue).id
<1>0. TypeOK /\ LifeInv /\ NoneMissed /\ queue \in Seq(Handler)
  BY DEF RegInv, TypeOK
<1>1. /\ list' = Erase(c) /\ queue' = Tail(queue) /\ CanTake({"remove"})
      /\ UNCHANGED <<nextId, user, open, alive, creating, strand, eod, shutdown, sd, cursor, ctx,
                     ops, epoch, before, snap, missed, late>>
  BY DEF RunRemove, chans, hist
<1>2. fault = "none" /\ queue # <<>> /\ Head(queue).op = "remove" /\ fault' \in {"none", "race"}
  BY <1>1, RaceType
<1>3. queue[1] = Remove(c) /\ c \notin alive /\ Tail(queue) \in Seq(Handler) /\ Remove(c) \in Handler
  BY <1>2, HeadOfQueue DEF Good
<1>. HIDE DEF c
<1>4. DOMAIN list' = DOMAIN list \ {c} /\ \A k \in DOMAIN list' : list'[k] = list[k]
  BY <1>1 DEF Erase
<1>5. Moves(1, 0, Remove(c))
  BY <1>0, <1>1, <1>2, <1>3, QueueMoves
<1>6. Relists(1)
  <2>1. \A k \in DOMAIN list : k \in open' => k \in DOMAIN list'
    BY <1>0, <1>1, <1>3, <1>4 DEF TypeOK
  <2>2. \A x \in open' : queue[1] = Insert(x) => x \in DOMAIN list'
    BY <1>3, HandlerForms
  <2>3. \A k \in DOMAIN list' : queue[1] # Remove(k)
    BY <1>3, <1>4, HandlerForms
  <2>. QED
    BY <1>4, <2>1, <2>2, <2>3 DEF Relists
<1>7. TypeOK'
  <2>1. DOMAIN list' \subseteq 0 .. MaxTasks /\ \A k \in DOMAIN list' : list'[k] \in Ids
    BY <1>0, <1>4 DEF TypeOK
  <2>. QED
    BY <1>0, <1>1, <1>2, <1>3, <2>1 DEF TypeOK
<1>8. LifeInv' /\ NoneMissed'
  BY <1>0, <1>1 DEF LifeInv, NoneMissed, Issued
<1>9. Ordinary(1, 0, Remove(c))
  BY <1>1, <1>2, <1>5, <1>6 DEF Ordinary, Destroys
<1>. QED
  BY <1>1, <1>7, <1>8, <1>9, OrdinaryStep

\* A request finds the open channels it knew when it was posted.
LEMMA KnownFound ==
    ASSUME RegInv, queue # <<>>, epoch = 0
    PROVE  (Head(queue).known \cap open) \ Found(Head(queue)) = {}
<1>. DEFINE h == Head(queue)
<1>1. 1 \in 1 .. Len(queue) /\ h = queue[1] /\ Good(h, alive, Issued) /\ Len(queue) \in Nat
  BY HeadOfQueue
<1>. HIDE DEF h
<1>2. TypeOK /\ ListInv /\ CoverInv
  BY DEF RegInv
<1>3. ASSUME NEW c \in h.known \cap open
      PROVE  c \in Found(h)
  <2>1. Covered(c, 1, list, queue)
    BY <1>1, <1>2 DEF CoverInv
  <2>2. c \in DOMAIN list
    BY <1>1, <2>1 DEF Covered
  <2>3. c \in alive /\ c # 0 /\ c \in Addressed(h.op, h.id, h.name)
    BY <1>1, <1>2, RegistryAssumption DEF TypeOK, Good, Issued
  <2>4. list[c] = c
    BY <1>2, <2>2, <2>3 DEF ListInv
  <2>5. h.op = "dispatch_id" => c = h.id
    BY <2>3 DEF Addressed
  <2>. QED
    BY <2>2, <2>3, <2>4, <2>5 DEF Found
<1>. QED
  BY <1>3 DEF h

\* A request is taken from the queue.
LEMMA TakeRequest ==
    ASSUME RegInv, queue # <<>>, fault = "none", queue' = Tail(queue),
           Head(queue).op \notin {"insert", "remove"}, Misses(Head(queue)),
           UNCHANGED <<nextId, alive, creating, list, epoch, late>>, open' \subseteq open
    PROVE  /\ Ordinary(1, 0, Head(queue))
           /\ NoneMissed'
           /\ queue' \in Seq(Handler)
           /\ missed' \subseteq Ids
<1>1. Head(queue) \in Handler /\ Head(queue) = queue[1] /\ queue \in Seq(Handler) /\ queue' \in Seq(Handler)
  BY HeadOfQueue DEF RegInv, TypeOK
<1>2. Moves(1, 0, Head(queue))
  BY <1>1, QueueMoves
<1>3. Relists(1)
  BY <1>1, HandlerForms DEF Relists
<1>4. Ordinary(1, 0, Head(queue))
  BY <1>2, <1>3 DEF Ordinary, Destroys
<1>5. NoneMissed'
  BY KnownFound DEF NoneMissed, Misses, RegInv
<1>6. missed' \subseteq Ids
  BY <1>1 DEF Misses, RegInv, TypeOK, Handler
<1>. QED
  BY <1>1, <1>4, <1>5, <1>6

LEMMA RunLookupStep ==
    ASSUME RegInv, RunLookup
    PROVE  RegInv'
<1>0. TypeOK /\ LifeInv
  BY DEF RegInv
<1>1. /\ queue' = Tail(queue) /\ user' = user \cup Found(Head(queue)) /\ Misses(Head(queue))
      /\ CanTake({"lookup"})
      /\ UNCHANGED <<nextId, open, alive, creating, strand, eod, list, shutdown, sd, cursor, ctx,
                     ops, epoch, before, snap, late>>
  BY DEF RunLookup
<1>2. fault = "none" /\ queue # <<>> /\ Head(queue).op = "lookup" /\ fault' \in {"none", "race"}
  BY <1>1, RaceType
<1>3. /\ Ordinary(1, 0, Head(queue)) /\ NoneMissed'
      /\ queue' \in Seq(Handler) /\ missed' \subseteq Ids
  BY <1>1, <1>2, TakeRequest
<1>4. Found(Head(queue)) \subseteq alive
  BY DEF Found
<1>5. TypeOK'
  BY <1>0, <1>1, <1>2, <1>3, <1>4 DEF TypeOK
<1>6. LifeInv'
  BY <1>0, <1>1 DEF LifeInv, Issued
<1>. QED
  BY <1>1, <1>3, <1>5, <1>6, OrdinaryStep

LEMMA RunDispatchStep ==
    ASSUME RegInv, RunDispatch
    PROVE  RegInv'
<1>0. TypeOK /\ LifeInv
  BY DEF RegInv
<1>1. /\ queue' = Tail(queue) /\ DispatchAll(Found(Head(queue))) /\ Misses(Head(queue))
      /\ CanTake({"dispatch", "dispatch_id", "exclude"})
      /\ UNCHANGED <<nextId, user, open, alive, creating, eod, list, shutdown, sd, cursor, ctx,
                     ops, epoch, before, snap, late>>
  BY DEF RunDispatch
<1>2. /\ fault = "none" /\ queue # <<>> /\ Head(queue).op \in {"dispatch", "dispatch_id", "exclude"}
      /\ fault' \in {"none", "race"}
  BY <1>1, RaceType
<1>3. /\ Ordinary(1, 0, Head(queue)) /\ NoneMissed'
      /\ queue' \in Seq(Handler) /\ missed' \subseteq Ids
  BY <1>1, <1>2, TakeRequest
<1>4. StrandsOK(strand', alive, open)
  BY <1>0, <1>1, DispatchAllStrands
<1>5. TypeOK'
  BY <1>0, <1>1, <1>2, <1>3, <1>4 DEF TypeOK, StrandsOK
<1>6. LifeInv'
  BY <1>0, <1>1, <1>4, NextLifeFromStrands DEF LifeInv, Issued
<1>. QED
  BY <1>1, <1>3, <1>5, <1>6, OrdinaryStep

LEMMA RunStopStep ==
    ASSUME RegInv, RunStop
    PROVE  RegInv'
<1>0. TypeOK /\ LifeInv
  BY DEF RegInv
<1>1. /\ queue' = Tail(queue) /\ StopAll(Found(Head(queue))) /\ Misses(Head(queue))
      /\ CanTake({"stop"})
      /\ UNCHANGED <<nextId, user, alive, creating, eod, list, shutdown, sd, cursor, ctx, ops,
                     epoch, before, snap, late>>
  BY DEF RunStop
<1>2. fault = "none" /\ queue # <<>> /\ Head(queue).op = "stop" /\ fault' \in {"none", "race"}
  BY <1>1, RaceType
<1>3. StrandsOK(strand', alive, open') /\ open' \subseteq open
  BY <1>0, <1>1, StopAllStrands
<1>4. /\ Ordinary(1, 0, Head(queue)) /\ NoneMissed'
      /\ queue' \in Seq(Handler) /\ missed' \subseteq Ids
  BY <1>1, <1>2, <1>3, TakeRequest
<1>5. TypeOK'
  BY <1>0, <1>1, <1>2, <1>3, <1>4 DEF TypeOK, StrandsOK
<1>6. LifeInv'
  BY <1>0, <1>1, <1>3, NextLifeFromStrands DEF LifeInv, Issued
<1>. QED
  BY <1>1, <1>4, <1>5, <1>6, OrdinaryStep

----------------------------------------------------------------------------
(* shutdown() and the end of the context. *)

LEMMA ShutdownBeginStep ==
    ASSUME RegInv, ShutdownBegin
    PROVE  RegInv'
<1>0. TypeOK /\ LifeInv /\ QueueInv /\ ListInv
  BY DEF RegInv
<1>1. /\ fault = "none" /\ epoch < MaxShutdowns /\ epoch' = epoch + 1 /\ shutdown' = TRUE
      /\ sd' = "iter" /\ cursor' = MaxTasks + 1 /\ before' = open
      /\ snap' = {list[k] : k \in DOMAIN list} \cap open
      /\ UNCHANGED <<nextId, user, open, alive, creating, strand, eod, list, queue, ctx, fault, ops,
                     missed, late>>
  BY DEF ShutdownBegin, CanRun, chans
<1>2. epoch' # 0 /\ epoch' \in 0 .. MaxShutdowns /\ MaxTasks + 1 \in 0 .. MaxTasks + 1
  BY <1>0, <1>1, RegistryAssumption DEF TypeOK
<1>3. open \subseteq Issued /\ Issued \subseteq Ids /\ \A c \in Issued : c \in Ids /\ c < MaxTasks + 1
  BY <1>0, RegistryAssumption DEF TypeOK, Issued, Ids
<1>4. TypeOK'
  BY <1>0, <1>1, <1>2, <1>3 DEF TypeOK
<1>5. LifeInv'
  BY <1>0, <1>1, <1>3 DEF LifeInv, Issued
<1>6. QueueInv' /\ ListInv'
  BY <1>0, <1>1 DEF QueueInv, ListInv, Issued
<1>7. CalmInv' /\ NoStaleEntry' /\ CoverInv' /\ NoneMissed'
  BY <1>2 DEF CalmInv, NoStaleEntry, CoverInv, NoneMissed
<1>8. ASSUME NEW c \in snap' \cap open' PROVE c \in ToDo'
  <2>1. PICK k \in DOMAIN list : c = list[k]
    BY <1>1
  <2>2. k # 0 /\ c = k /\ k \in Issued
    BY <1>0, <1>1, <2>1 DEF ListInv
  <2>. QED
    BY <1>1, <1>3, <2>2 DEF ToDo
<1>9. WalkInv'
  BY <1>1, <1>8 DEF WalkInv
<1>. QED
  BY <1>4, <1>5, <1>6, <1>7, <1>9 DEF RegInv

LEMMA ShutdownStepStep ==
    ASSUME RegInv, ShutdownStep
    PROVE  RegInv'
<1>. DEFINE k == CHOOSE x \in ToDo : \A y \in ToDo : y <= x
<1>0. TypeOK /\ LifeInv /\ ListInv /\ CalmInv /\ NoneMissed /\ WalkInv
  BY DEF RegInv
<1>1. /\ fault = "none" /\ sd = "iter" /\ ToDo # {} /\ cursor' = k /\ StopAll({list[k]} \cap alive)
      /\ UNCHANGED <<nextId, user, alive, creating, eod, list, queue, shutdown, sd, ctx, fault,
                     ops, epoch, before, snap, missed, late>>
  BY DEF ShutdownStep, ShutdownDone, hist
<1>2. k \in ToDo /\ \A y \in ToDo : y <= k
  <2>1. ToDo \subseteq 0 .. MaxTasks /\ MaxTasks \in Nat
    BY <1>0, RegistryAssumption DEF TypeOK, ToDo
  <2>2. \E x \in ToDo : \A y \in ToDo : y <= x
    BY <1>1, <2>1, Greatest
  <2>. QED
    BY <2>2
<1>. HIDE DEF k
<1>3. k \in DOMAIN list /\ k \in 0 .. MaxTasks /\ k \in 0 .. MaxTasks + 1
  BY <1>0, <1>2, RegistryAssumption DEF ToDo, TypeOK
<1>4. StrandsOK(strand', alive, open') /\ open' = open \ ({list[k]} \cap alive)
  BY <1>0, <1>1, StopAllStrands
<1>5. TypeOK'
  BY <1>0, <1>1, <1>3, <1>4 DEF TypeOK, StrandsOK
<1>6. LifeInv'
  BY <1>0, <1>1, <1>4, NextLifeFromStrands DEF LifeInv, Issued
<1>7. CalmInv' /\ NoneMissed'
  BY <1>0, <1>1 DEF CalmInv, NoneMissed
<1>8. Ordinary(0, 0, 0)
  BY <1>0, <1>1, <1>4, QuietOrdinary
<1>9. QueueInv' /\ ListInv' /\ NoStaleEntry' /\ CoverInv'
  BY <1>8, OrdinaryQueue, OrdinaryList, OrdinaryStale, OrdinaryCover DEF RegInv
<1>10. ASSUME NEW c \in snap' \cap open' PROVE c \in ToDo'
  <2>0. c \in snap /\ c \in open /\ c \in alive /\ c \in 1 .. nextId
    BY <1>0, <1>1, <1>4 DEF TypeOK
  <2>1. c \in ToDo /\ c \in open /\ c \in alive /\ c # 0
    BY <1>0, <1>1, <2>0 DEF WalkInv
  <2>2. c # k
    <3>1. CASE k = 0
      BY <2>1, <3>1
    <3>2. CASE k # 0
      BY <1>0, <1>3, <1>4, <2>1, <3>2 DEF ListInv
    <3>. QED
      BY <3>1, <3>2
  <2>3. c \in 0 .. MaxTasks /\ c <= k
    BY <1>0, <1>2, <2>1 DEF ToDo, TypeOK
  <2>4. c < k
    BY <1>3, <2>2, <2>3, RegistryAssumption
  <2>. QED
    BY <1>1, <2>1, <2>4 DEF ToDo
<1>11. WalkInv'
  BY <1>1, <1>10 DEF WalkInv
<1>. QED
  BY <1>5, <1>6, <1>7, <1>9, <1>11 DEF RegInv

\* Steps of the caller of shutdown() that touch nothing but its own progress and
\* the context.
LEMMA ProgressStep ==
    ASSUME RegInv, fault = "none",
           UNCHANGED <<chans, list, queue, fault, ops, epoch, missed, late>>,
           shutdown' = shutdown \/ shutdown' = FALSE,
           ctx' \in {"run", "stopped", "joined"},
           \/ sd' = sd /\ UNCHANGED <<cursor, before, snap>>
           \/ sd = "iter" /\ ToDo = {} /\ sd' = "clear" /\ cursor' = 0 /\ UNCHANGED <<before, snap>>
           \/ sd = "cleared" /\ sd' = "idle" /\ before' = {} /\ snap' = {} /\ UNCHANGED cursor
    PROVE  RegInv'
<1>0. TypeOK /\ LifeInv /\ CalmInv /\ NoneMissed /\ WalkInv
  BY DEF RegInv
<1>1. UNCHANGED <<nextId, user, open, alive, creating, strand, eod, ops, epoch, missed, late>>
  BY DEF chans
<1>2. TypeOK'
  <2>1. 0 \in 0 .. MaxTasks + 1
    BY RegistryAssumption
  <2>. QED
    BY <1>0, <1>1, <2>1 DEF TypeOK
<1>3. LifeInv' /\ NoneMissed'
  BY <1>0, <1>1 DEF LifeInv, NoneMissed, Issued
<1>4. CalmInv'
  BY <1>0, <1>1 DEF CalmInv
<1>5. Ordinary(0, 0, 0)
  BY <1>0, <1>1, QuietOrdinary
<1>6. QueueInv' /\ ListInv' /\ NoStaleEntry' /\ CoverInv'
  BY <1>5, OrdinaryQueue, OrdinaryList, OrdinaryStale, OrdinaryCover DEF RegInv
<1>7. WalkInv'
  <2>1. UNCHANGED cursor => ToDo' = ToDo
    BY DEF ToDo
  <2>. QED
    BY <1>0, <1>1, <2>1 DEF WalkInv
<1>. QED
  BY <1>2, <1>3, <1>4, <1>6, <1>7 DEF RegInv

LEMMA ShutdownClearStep ==
    ASSUME RegInv, ShutdownClear
    PROVE  RegInv'
<1>0. TypeOK /\ LifeInv /\ QueueInv /\ CalmInv /\ WalkInv
  BY DEF RegInv
<1>1. /\ fault = "none" /\ sd = "clear" /\ list' = EmptyList /\ sd' = "cleared"
      /\ UNCHANGED <<nextId, user, open, alive, creating, strand, eod, queue, shutdown, cursor, ctx, fault,
                     ops, epoch, before, snap, missed, late>>
  BY DEF ShutdownClear, chans, hist
<1>2. epoch' # 0
  BY <1>0, <1>1 DEF CalmInv
<1>3. DOMAIN list' = {}
  BY <1>1 DEF EmptyList
<1>4. TypeOK'
  BY <1>0, <1>1, <1>3 DEF TypeOK
<1>5. LifeInv' /\ QueueInv'
  BY <1>0, <1>1 DEF LifeInv, QueueInv, Issued
<1>6. ListInv'
  BY <1>3 DEF ListInv
<1>7. CalmInv' /\ NoStaleEntry' /\ CoverInv' /\ NoneMissed'
  BY <1>2 DEF CalmInv, NoStaleEntry, CoverInv, NoneMissed
<1>8. WalkInv'
  BY <1>0, <1>1 DEF WalkInv
<1>. QED
  BY <1>4, <1>5, <1>6, <1>7, <1>8 DEF RegInv
----------------------------------------------------------------------------
(* The invariant. *)

LEMMA RegInit == Init => RegInv
<1>. SUFFICES ASSUME Init PROVE RegInv
  OBVIOUS
<1>1. /\ nextId = 0 /\ user = {} /\ open = {} /\ alive = {} /\ creating = {} /\ strand = [c \in Ids |-> <<>>]
      /\ eod = {} /\ list = EmptyList /\ queue = <<>> /\ shutdown = FALSE /\ sd = "idle"
      /\ cursor = 0 /\ ctx = "run" /\ fault = "none" /\ ops = 0 /\ epoch = 0
      /\ before = {} /\ snap = {} /\ missed = {} /\ late = {}
  BY DEF Init
<1>2. DOMAIN list = {} /\ Len(queue) = 0 /\ 1 .. Len(queue) = {}
  BY <1>1 DEF EmptyList
<1>3. strand \in [Ids -> Seq({"msg", "stop"})] /\ queue \in Seq(Handler)
  BY <1>1
<1>4. TypeOK
  <2>1. /\ nextId \in 0 .. MaxTasks /\ cursor \in 0 .. MaxTasks + 1
        /\ ops \in 0 .. MaxOps /\ epoch \in 0 .. MaxShutdowns
    BY <1>1, RegistryAssumption
  <2>2. /\ user \subseteq alive /\ open \subseteq alive /\ alive \subseteq 1 .. nextId
        /\ eod \subseteq Ids \ open /\ before \subseteq Ids /\ snap \subseteq before
        /\ missed \subseteq Ids /\ creating \subseteq alive /\ late \subseteq Ids
    BY <1>1
  <2>3. /\ shutdown \in BOOLEAN /\ sd \in {"idle", "iter", "clear", "cleared"}
        /\ ctx \in {"run", "stopped", "joined"} /\ fault \in {"none", "race"}
    BY <1>1
  <2>. QED
    BY <1>2, <1>3, <2>1, <2>2, <2>3 DEF TypeOK
<1>5. LifeInv
  BY <1>1 DEF LifeInv
<1>6. QueueInv
  BY <1>2 DEF QueueInv
<1>7. ListInv /\ NoStaleEntry
  BY <1>2 DEF ListInv, NoStaleEntry
<1>8. CalmInv /\ NoneMissed /\ WalkInv
  BY <1>1 DEF CalmInv, NoneMissed, WalkInv
<1>9. CoverInv
  BY <1>1, <1>2 DEF CoverInv
<1>. QED
  BY <1>4, <1>5, <1>6, <1>7, <1>8, <1>9 DEF RegInv

LEMMA RequestsStep ==
    ASSUME RegInv, Requests
    PROVE  RegInv'
<1>1. PICK n \in Names :
            \/ Request("lookup", 1, n)
            \/ Request("dispatch", 1, n)
            \/ Request("stop", 1, n)
            \/ \E c \in 1 .. nextId : Request("exclude", c, n)
  BY DEF Requests
<1>2. 1 \in Ids
  BY RegistryAssumption DEF Names, Ids
<1>3. 1 .. nextId \subseteq Ids
  BY RegistryAssumption DEF RegInv, TypeOK, Ids
<1>. QED
  BY <1>1, <1>2, <1>3, RequestStep

LEMMA RegStep == RegInv /\ [Next]_vars => RegInv'
<1>. SUFFICES ASSUME RegInv, [Next]_vars PROVE RegInv'
  OBVIOUS
<1>1. CASE UNCHANGED vars
  <2>1. UNCHANGED <<nextId, user, open, alive, creating, strand, eod, list, queue, shutdown, sd, cursor,
                    ctx, fault, ops, epoch, before, snap, missed, late>>
    BY <1>1 DEF vars, chans, hist
  <2>2. TypeOK' /\ ListInv' /\ CalmInv' /\ NoStaleEntry' /\ CoverInv' /\ NoneMissed'
    BY <2>1 DEF RegInv, TypeOK, ListInv, CalmInv, NoStaleEntry, CoverInv, NoneMissed, Issued
  <2>3. LifeInv' /\ QueueInv' /\ WalkInv'
    BY <2>1 DEF RegInv, LifeInv, QueueInv, WalkInv, ToDo, Issued
  <2>. QED
    BY <2>2, <2>3 DEF RegInv
<1>2. CASE Create
  BY <1>2, CreateStep
<1>3. ASSUME NEW c \in Ids,
             PostInsert(c) \/ UserStop(c) \/ UserDispatch(c) \/ UserDrop(c) \/ RunChannel(c)
      PROVE  RegInv'
  BY <1>3, PostInsertStep, UserStopStep, UserDispatchStep, UserDropStep, RunChannelStep
<1>4. CASE Requests
  BY <1>4, RequestsStep
<1>5. ASSUME NEW c \in Ids, Request("dispatch_id", c, NameOf[c])
      PROVE  RegInv'
  <2>1. NameOf[c] \in Names
    BY DEF Names
  <2>. QED
    BY <1>5, <2>1, RequestStep
<1>6. CASE RunInsert
  BY <1>6, RunInsertStep
<1>7. CASE RunRemove
  BY <1>7, RunRemoveStep
<1>8. CASE RunLookup
  BY <1>8, RunLookupStep
<1>9. CASE RunDispatch
  BY <1>9, RunDispatchStep
<1>10. CASE RunStop
  BY <1>10, RunStopStep
<1>11. CASE ShutdownBegin
  BY <1>11, ShutdownBeginStep
<1>12. CASE ShutdownStep
  BY <1>12, ShutdownStepStep
<1>13. CASE ShutdownEnd
  <2>1. fault = "none" /\ sd = "iter" /\ ToDo = {} /\ sd' = "clear" /\ cursor' = 0
    BY <1>13 DEF ShutdownEnd, ShutdownDone
  <2>2. UNCHANGED <<chans, list, queue, fault, ops, epoch, missed, late, before, snap, shutdown, ctx>>
    BY <1>13 DEF ShutdownEnd, hist
  <2>. QED
    BY <2>1, <2>2, ProgressStep DEF RegInv, TypeOK
<1>14. CASE ShutdownClear
  BY <1>14, ShutdownClearStep
<1>15. CASE ShutdownReturn \/ Cancel
  <2>1. /\ fault = "none" /\ sd = "cleared" /\ sd' = "idle" /\ ctx' \in {ctx, "stopped"}
        /\ shutdown' = shutdown /\ before' = {} /\ snap' = {} /\ cursor' = cursor
    BY <1>15 DEF ShutdownReturn, Cancel, Leave
  <2>2. UNCHANGED <<chans, list, queue, fault, ops, epoch, missed, late>>
    BY <1>15 DEF ShutdownReturn, Cancel, Leave
  <2>. QED
    BY <2>1, <2>2, ProgressStep DEF RegInv, TypeOK
<1>16. CASE SchedulerStop
  <2>1. fault = "none" /\ sd' = sd /\ ctx' = "joined" /\ shutdown' = shutdown
    BY <1>16 DEF SchedulerStop
  <2>2. UNCHANGED <<chans, list, queue, fault, ops, epoch, missed, late, cursor, before, snap>>
    BY <1>16 DEF SchedulerStop, hist
  <2>. QED
    BY <2>1, <2>2, ProgressStep
<1>17. CASE Reset
  <2>1. fault = "none" /\ sd' = sd /\ ctx' = ctx /\ shutdown' = FALSE
    BY <1>17 DEF Reset, CanRun
  <2>2. UNCHANGED <<chans, list, queue, fault, ops, epoch, missed, late, cursor, before, snap>>
    BY <1>17 DEF Reset, hist
  <2>. QED
    BY <2>1, <2>2, ProgressStep DEF RegInv, TypeOK
<1>. QED
  BY <1>1, <1>2, <1>3, <1>4, <1>5, <1>6, <1>7, <1>8, <1>9, <1>10, <1>11, <1>12, <1>13, <1>14,
     <1>15, <1>16, <1>17 DEF Next

LEMMA RegInvariant == Spec => []RegInv
BY RegInit, RegStep, PTL DEF Spec

\* Type correctness of the registry, its channels and a shutdown() call: among
\* others, whoever holds a channel_ptr holds a channel that is not destroyed,
\* a channel with a task was not destroyed either, and an eod slot is only
\* called once the channel is closed.
THEOREM RegistryTyped == Spec => []TypeOK
<1>1. RegInv => TypeOK
  BY DEF RegInv
<1>. QED
  BY <1>1, RegInvariant, PTL

\* Until the first shutdown() the entry of a destroyed channel, under whatever
\* key, is about to leave list_: whoever held the last reference, auto_remove's
\* posted removal comes behind the posted insertion.  The only entry that stays
\* is one under key 0 of a channel that was stopped before its insertion ran.
\* For any number of channels and requests.
THEOREM StaleEntriesLeave == Spec => []NoStaleEntry
<1>1. RegInv => NoStaleEntry
  BY DEF RegInv
<1>. QED
  BY <1>1, RegInvariant, PTL

\* Until the first shutdown() a lookup, dispatch or stop by name or id finds
\* every channel that existed when it was posted and is still open, although
\* channels are inserted asynchronously.  For any number of channels, names
\* and requests.
THEOREM RequestsFind == Spec => []NoneMissed
<1>1. RegInv => NoneMissed
  BY DEF RegInv
<1>. QED
  BY <1>1, RegInvariant, PTL

\* A shutdown() that is not hit by a data race on list_ has stopped every
\* channel that was listed when it began, whatever user code and the strands
\* do between two steps of its walk.
THEOREM ShutdownReachesListed == Spec => []ShutdownStopsListed
<1>1. RegInv => ShutdownStopsListed
  BY DEF RegInv, WalkInv, ShutdownStopsListed
<1>. QED
  BY <1>1, RegInvariant, PTL

----------------------------------------------------------------------------
(* Channels that were not listed yet. *)

\* shutdown() is called when the insertions of all open channels have run.
NothingToInsert == ShutdownBegin => \A c \in open : c \notin creating /\ ~Queued(Insert(c), queue)

\* The first shutdown() finds all open channels in the list.
AllListed == epoch =< 1 => before \subseteq snap

LEMMA AllListedNext ==
    ASSUME RegInv, AllListed, [Next]_vars, [NothingToInsert]_vars
    PROVE  AllListed'
<1>1. CASE ShutdownBegin
  <2>1. /\ epoch' = epoch + 1 /\ before' = open /\ snap' = {list[k] : k \in DOMAIN list} \cap open
    BY <1>1 DEF ShutdownBegin
  <2>2. epoch \in Nat
    BY RegistryAssumption DEF RegInv, TypeOK
  <2>3. epoch' # epoch
    BY <2>1, <2>2
  <2>4. \A c \in open : c \notin creating /\ ~Queued(Insert(c), queue)
    BY <1>1, <2>3 DEF NothingToInsert, vars, hist
  <2>5. ASSUME epoch = 0, NEW c \in open PROVE c \in snap'
    <3>1. c \in DOMAIN list
      BY <2>4, <2>5 DEF RegInv, CoverInv, Covered, Queued
    <3>2. c \in Ids /\ c # 0
      BY RegistryAssumption DEF RegInv, TypeOK, Ids
    <3>3. list[c] = c
      BY <3>1, <3>2 DEF RegInv, ListInv
    <3>. QED
      BY <2>1, <3>1, <3>3
  <2>6. epoch' =< 1 => epoch = 0
    BY <2>1, <2>2
  <2>. QED
    BY <2>1, <2>5, <2>6 DEF AllListed
<1>2. CASE UNCHANGED <<epoch, before, snap>> \/ before' = {}
  BY <1>2 DEF AllListed
<1>3. ShutdownBegin \/ UNCHANGED <<epoch, before, snap>> \/ before' = {}
  <2>1. CASE UNCHANGED vars
    BY <2>1 DEF vars, hist
  <2>2. CASE Create \/ \E c \in Ids : PostInsert(c) \/ UserStop(c) \/ UserDispatch(c) \/ UserDrop(c) \/ RunChannel(c)
    BY <2>2 DEF Create, PostInsert, UserStop, UserDispatch, UserDrop, RunChannel, hist
  <2>3. CASE Requests \/ \E c \in Ids : Request("dispatch_id", c, NameOf[c])
    BY <2>3 DEF Requests, Request
  <2>4. CASE RunInsert \/ RunRemove \/ RunLookup \/ RunDispatch \/ RunStop
    BY <2>4 DEF RunInsert, RunRemove, RunLookup, RunDispatch, RunStop, hist
  <2>5. CASE \/ ShutdownStep \/ ShutdownEnd \/ ShutdownClear
             \/ ShutdownReturn \/ Cancel \/ SchedulerStop \/ Reset
    BY <2>5 DEF ShutdownStep, ShutdownEnd, ShutdownClear, ShutdownReturn, Cancel, Leave, SchedulerStop,
                Reset, hist
  <2>. QED
    BY <2>1, <2>2, <2>3, <2>4, <2>5 DEF Next
<1>. QED
  BY <1>1, <1>2, <1>3

\* What registry.h:54 says of shutdown(), "stop all tasks", is true of the first
\* one when no insertion is queued at that time and no data race on list_ hits
\* it: every channel that was open when it began is closed, whatever user code
\* and the strands do meanwhile.  Pending insertions are the only other way to
\* escape it.
THEOREM ShutdownReachesAll ==
    Spec /\ [][NothingToInsert]_vars => [](epoch =< 1 => ShutdownStopsAll)
<1>1. Init => AllListed
  BY DEF Init, AllListed
<1>2. RegInv /\ AllListed /\ [Next]_vars /\ [NothingToInsert]_vars => AllListed'
  BY AllListedNext
<1>3. RegInv /\ AllListed => (epoch =< 1 => ShutdownStopsAll)
  BY DEF RegInv, WalkInv, AllListed, ShutdownStopsAll
<1>. QED
  BY <1>1, <1>2, <1>3, RegInvariant, PTL DEF Spec
============================================================================

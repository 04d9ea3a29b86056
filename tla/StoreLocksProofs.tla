-------------------------- MODULE StoreLocksProofs --------------------------
(***************************************************************************)
(* Proofs about the locks of cyng::store, for any number of threads,       *)
(* tables and calls, and for both kinds of std::shared_mutex.              *)
(***************************************************************************)
EXTENDS StoreLocks, TLAPS

----------------------------------------------------------------------------
(* The inductive invariant: what a position in a call says about the locks *)
(* of the thread.                                                          *)

LocksTables(c) == c.kind \in {"access", "store"}

\* The kind of call a thread is in, by its position.
CallInv ==
    \A t \in Threads :
        /\ pc[t] \in {"inner", "tables", "body"} => LocksTables(call[t])
        /\ pc[t] = "insert" => call[t].kind = "create"
        /\ pc[t] = "create" => call[t].kind = "create"

\* The shared locks on store::m_: store::insert() has one before it calls
\* access(), which takes another.
ShareInv ==
    \A t \in Threads :
        /\ pc[t] \in {"idle", "outer", "create", "insert"} => shared[t] = 0
        /\ pc[t] = "inner" => shared[t] \in 0 .. 1
        /\ pc[t] \in {"tables", "body", "visit"} => shared[t] > 0

\* The exclusive lock on m_ belongs to the one thread in create_table(), and
\* nobody shares m_ meanwhile.
OwnInv ==
    \A t \in Threads :
        /\ t \in excl => pc[t] = "insert"
        /\ pc[t] = "insert" => t \in excl
        /\ t \in excl => excl = {t} /\ \A u \in Threads : shared[u] = 0

\* The table locks a thread has, by its position.
HeldInv ==
    \A t \in Threads :
        /\ pc[t] = "body" => held[t] = call[t].mode
        /\ pc[t] \notin {"body", "visit"} => held[t] = NoTables

\* A table lock held for writing is held by one thread only.
Compatible ==
    \A t, u \in Threads, n \in Names :
        t # u /\ held[t][n] = "write" => held[u][n] = "none"

LockInv == TypeOK /\ CallInv /\ ShareInv /\ OwnInv /\ HeldInv /\ Compatible

----------------------------------------------------------------------------
(* Lemmas about the calls. *)

LEMMA NoTablesType == NoTables \in [Names -> Modes]
BY DEF NoTables, Modes

\* Every call that locks tables has a mode for each of them.
LEMMA ModeType ==
    ASSUME NEW c \in Calls, LocksTables(c)
    PROVE  c.mode \in [Names -> Modes]
<1>1. CASE c \in [kind : {"access"}, mode : [Names -> Modes] \ {NoTables}]
  BY <1>1
<1>2. CASE c \in [kind : {"store"}, mode : {[NoTables EXCEPT ![n] = m] : n \in Names, m \in {"read", "write"}}]
  <2>1. PICK n \in Names, m \in {"read", "write"} : c.mode = [NoTables EXCEPT ![n] = m]
    BY <1>2
  <2>2. QED
    BY <2>1, NoTablesType DEF Modes
<1>3. QED
  BY <1>1, <1>2 DEF Calls, LocksTables

LEMMA NameType ==
    ASSUME NEW c \in Calls, c.kind = "create"
    PROVE  c.name \in Names
BY DEF Calls

LEMMA KindType ==
    ASSUME NEW c \in Calls
    PROVE  c.kind \in {"access", "store", "create", "disconnect"}
BY DEF Calls

----------------------------------------------------------------------------
(* Initial states and steps. *)

LEMMA LockInit == Init => LockInv
<1> SUFFICES ASSUME Init PROVE LockInv
  OBVIOUS
<1> USE DEF Init
<1>1. TypeOK
  BY StoreLocksAssumption, NoTablesType DEF TypeOK, Positions, Calls
<1>2. CallInv /\ ShareInv /\ OwnInv
  BY DEF CallInv, ShareInv, OwnInv
<1>3. HeldInv /\ Compatible
  BY DEF HeldInv, Compatible, NoTables
<1>4. QED
  BY <1>1, <1>2, <1>3 DEF LockInv

LEMMA BeginStep ==
    ASSUME LockInv, NEW t \in Threads, NEW c \in Calls, Begin(t, c)
    PROVE  LockInv'
<1> USE DEF LockInv, Begin, GoTo
<1>1. TypeOK'
  BY KindType, StoreLocksAssumption DEF TypeOK, Positions
<1>2. CallInv'
  BY KindType DEF TypeOK, CallInv, LocksTables
<1>3. ShareInv'
  BY KindType DEF TypeOK, ShareInv
<1>4. OwnInv'
  BY KindType DEF TypeOK, OwnInv
<1>5. HeldInv'
  BY KindType DEF TypeOK, HeldInv
<1>6. Compatible'
  BY DEF TypeOK, Compatible
<1>7. QED
  BY <1>1, <1>2, <1>3, <1>4, <1>5, <1>6

LEMMA LockOuterStep ==
    ASSUME LockInv, NEW t \in Threads, LockOuter(t)
    PROVE  LockInv'
<1> USE DEF LockInv, LockOuter, CanShare, GoTo
<1>1. TypeOK'
  BY DEF TypeOK, Positions, ShareInv
<1>2. CallInv'
  BY DEF TypeOK, CallInv, LocksTables
<1>3. ShareInv'
  BY DEF TypeOK, ShareInv
<1>4. OwnInv'
  BY DEF TypeOK, OwnInv
<1>5. HeldInv'
  BY DEF TypeOK, HeldInv
<1>6. Compatible'
  BY DEF TypeOK, Compatible
<1>7. QED
  BY <1>1, <1>2, <1>3, <1>4, <1>5, <1>6

LEMMA LockInnerStep ==
    ASSUME LockInv, NEW t \in Threads, LockInner(t)
    PROVE  LockInv'
<1> USE DEF LockInv, LockInner, CanShare, GoTo
<1>1. TypeOK'
  BY DEF TypeOK, Positions, ShareInv
<1>2. CallInv'
  BY DEF TypeOK, CallInv
<1>3. ShareInv'
  BY DEF TypeOK, ShareInv
<1>4. OwnInv'
  BY DEF TypeOK, OwnInv
<1>5. HeldInv'
  BY DEF TypeOK, HeldInv
<1>6. Compatible'
  BY DEF TypeOK, Compatible
<1>7. QED
  BY <1>1, <1>2, <1>3, <1>4, <1>5, <1>6

LEMMA LockTablesStep ==
    ASSUME LockInv, NEW t \in Threads, LockTables(t)
    PROVE  LockInv'
<1> USE DEF LockInv, LockTables, CanHave, Wanted, GoTo
<1>1. TypeOK'
  BY ModeType DEF TypeOK, Positions, CallInv
<1>2. CallInv'
  BY DEF TypeOK, CallInv
<1>3. ShareInv'
  BY DEF TypeOK, ShareInv
<1>4. OwnInv'
  BY DEF TypeOK, OwnInv
<1>5. HeldInv'
  BY DEF TypeOK, HeldInv
<1>6. Compatible'
  BY ModeType DEF TypeOK, Compatible, HeldInv, CallInv, Modes, NoTables
<1>7. QED
  BY <1>1, <1>2, <1>3, <1>4, <1>5, <1>6

LEMMA LockThrowsStep ==
    ASSUME LockInv, NEW t \in Threads, LockThrows(t)
    PROVE  LockInv'
<1> USE DEF LockInv, LockThrows, Leave, GoTo
<1>1. TypeOK'
  BY NoTablesType DEF TypeOK, Positions
<1>2. CallInv'
  BY DEF TypeOK, CallInv
<1>3. ShareInv'
  BY DEF TypeOK, ShareInv
<1>4. OwnInv'
  BY DEF TypeOK, OwnInv
<1>5. HeldInv'
  BY DEF TypeOK, HeldInv
<1>6. Compatible'
  BY DEF TypeOK, Compatible, NoTables
<1>7. QED
  BY <1>1, <1>2, <1>3, <1>4, <1>5, <1>6

LEMMA EndAccessStep ==
    ASSUME LockInv, NEW t \in Threads, EndAccess(t)
    PROVE  LockInv'
<1> USE DEF LockInv, EndAccess, Leave, GoTo
<1>1. TypeOK'
  BY NoTablesType DEF TypeOK, Positions
<1>2. CallInv'
  BY DEF TypeOK, CallInv
<1>3. ShareInv'
  BY DEF TypeOK, ShareInv
<1>4. OwnInv'
  BY DEF TypeOK, OwnInv
<1>5. HeldInv'
  BY DEF TypeOK, HeldInv
<1>6. Compatible'
  BY DEF TypeOK, Compatible, NoTables
<1>7. QED
  BY <1>1, <1>2, <1>3, <1>4, <1>5, <1>6

LEMMA EndDisconnectStep ==
    ASSUME LockInv, NEW t \in Threads, EndDisconnect(t)
    PROVE  LockInv'
<1> USE DEF LockInv, EndDisconnect, Leave, GoTo
<1>1. TypeOK'
  BY NoTablesType DEF TypeOK, Positions
<1>2. CallInv'
  BY DEF TypeOK, CallInv
<1>3. ShareInv'
  BY DEF TypeOK, ShareInv
<1>4. OwnInv'
  BY DEF TypeOK, OwnInv
<1>5. HeldInv'
  BY DEF TypeOK, HeldInv
<1>6. Compatible'
  BY DEF TypeOK, Compatible, NoTables
<1>7. QED
  BY <1>1, <1>2, <1>3, <1>4, <1>5, <1>6

LEMMA VisitStep ==
    ASSUME LockInv, NEW t \in Threads, Visit(t)
    PROVE  LockInv'
<1> USE DEF LockInv, Visit, CanHave
<1>1. TypeOK'
  BY NoTablesType DEF TypeOK, Modes
<1>2. CallInv'
  BY DEF TypeOK, CallInv
<1>3. ShareInv'
  BY DEF TypeOK, ShareInv
<1>4. OwnInv'
  BY DEF TypeOK, OwnInv
<1>5. HeldInv'
  BY DEF TypeOK, HeldInv
<1>6. Compatible'
  BY DEF TypeOK, Compatible, NoTables
<1>7. QED
  BY <1>1, <1>2, <1>3, <1>4, <1>5, <1>6

LEMMA EndVisitStep ==
    ASSUME LockInv, NEW t \in Threads, EndVisit(t)
    PROVE  LockInv'
<1> USE DEF LockInv, EndVisit
<1>1. TypeOK'
  BY NoTablesType DEF TypeOK
<1>2. CallInv'
  BY DEF TypeOK, CallInv
<1>3. ShareInv'
  BY DEF TypeOK, ShareInv
<1>4. OwnInv'
  BY DEF TypeOK, OwnInv
<1>5. HeldInv'
  BY DEF TypeOK, HeldInv
<1>6. Compatible'
  BY DEF TypeOK, Compatible, NoTables
<1>7. QED
  BY <1>1, <1>2, <1>3, <1>4, <1>5, <1>6

LEMMA LockExclusiveStep ==
    ASSUME LockInv, NEW t \in Threads, LockExclusive(t)
    PROVE  LockInv'
<1> USE DEF LockInv, LockExclusive, CanOwn, GoTo
<1>1. TypeOK'
  BY DEF TypeOK, Positions
<1>2. CallInv'
  BY DEF TypeOK, CallInv
<1>3. ShareInv'
  BY DEF TypeOK, ShareInv
<1>4. OwnInv'
  BY DEF TypeOK, OwnInv
<1>5. HeldInv'
  BY DEF TypeOK, HeldInv
<1>6. Compatible'
  BY DEF TypeOK, Compatible
<1>7. QED
  BY <1>1, <1>2, <1>3, <1>4, <1>5, <1>6

LEMMA EndCreateStep ==
    ASSUME LockInv, NEW t \in Threads, EndCreate(t)
    PROVE  LockInv'
<1> USE DEF LockInv, EndCreate, GoTo
<1>1. TypeOK'
  BY NameType DEF TypeOK, Positions, CallInv
<1>2. CallInv'
  BY DEF TypeOK, CallInv
<1>3. ShareInv'
  BY DEF TypeOK, ShareInv
<1>4. OwnInv'
  BY DEF TypeOK, OwnInv
<1>5. HeldInv'
  BY DEF TypeOK, HeldInv
<1>6. Compatible'
  BY DEF TypeOK, Compatible
<1>7. QED
  BY <1>1, <1>2, <1>3, <1>4, <1>5, <1>6

LEMMA LockStep == LockInv /\ [Next]_vars => LockInv'
<1> SUFFICES ASSUME LockInv, [Next]_vars PROVE LockInv'
  OBVIOUS
<1>1. ASSUME NEW t \in Threads, NEW c \in Calls, Begin(t, c) PROVE LockInv'
  BY <1>1, BeginStep
<1>2. ASSUME NEW t \in Threads, Continue(t) PROVE LockInv'
  <2>1. CASE LockOuter(t) BY <2>1, LockOuterStep
  <2>2. CASE LockInner(t) BY <2>2, LockInnerStep
  <2>3. CASE LockTables(t) BY <2>3, LockTablesStep
  <2>4. CASE LockThrows(t) BY <2>4, LockThrowsStep
  <2>5. CASE EndAccess(t) BY <2>5, EndAccessStep
  <2>6. CASE Visit(t) BY <2>6, VisitStep
  <2>7. CASE EndVisit(t) BY <2>7, EndVisitStep
  <2>8. CASE EndDisconnect(t) BY <2>8, EndDisconnectStep
  <2>9. CASE LockExclusive(t) BY <2>9, LockExclusiveStep
  <2>10. CASE EndCreate(t) BY <2>10, EndCreateStep
  <2>11. QED
    BY <1>2, <2>1, <2>2, <2>3, <2>4, <2>5, <2>6, <2>7, <2>8, <2>9, <2>10 DEF Continue
<1>3. CASE UNCHANGED vars
  BY <1>3 DEF vars, LockInv, TypeOK, CallInv, ShareInv, OwnInv, HeldInv, Compatible
<1>4. QED
  BY <1>1, <1>2, <1>3 DEF Next

\* The invariant of the locks holds in every behaviour.
LEMMA LockInvariant == Spec => []LockInv
BY LockInit, LockStep, PTL DEF Spec

----------------------------------------------------------------------------
(* The theorems. *)

\* Every variable keeps its type; in particular no thread ever has more than
\* two shared locks on m_, those of store::insert() and of its access().
THEOREM LocksTyped == Spec => []TypeOK
<1>1. LockInv => TypeOK
  BY DEF LockInv
<1>2. QED
  BY <1>1, LockInvariant, PTL

\* access() that writes a table has it for itself, whatever the other calls.
THEOREM WriterExclusion == Spec => []WritersAlone
<1>1. LockInv => WritersAlone
  <2> SUFFICES ASSUME LockInv, NEW t \in Threads, NEW u \in Threads, NEW n \in Names,
                      t # u, pc[t] = "body", call[t].mode[n] = "write"
               PROVE  ~(pc[u] = "body" /\ call[u].mode[n] # "none") /\ held[u][n] # "write"
    BY DEF WritersAlone
  <2>1. held[t][n] = "write"
    BY DEF LockInv, HeldInv
  <2>2. held[u][n] = "none"
    BY <2>1 DEF LockInv, Compatible
  <2>3. QED
    BY <2>2 DEF LockInv, HeldInv
<1>2. QED
  BY <1>1, LockInvariant, PTL

\* create_table() never changes the map of tables under access() or
\* disconnect(): the step that changes it is that of the exclusive owner.
THEOREM MapOwnership == Spec => MapStable
<1>1. LockInv /\ [Next]_vars =>
        [tables' # tables => \A t \in Threads : pc[t] \notin {"tables", "body", "visit"}]_vars
  <2> SUFFICES ASSUME LockInv, Next, tables' # tables, NEW u \in Threads
               PROVE  pc[u] \notin {"tables", "body", "visit"}
    OBVIOUS
  <2>1. PICK t \in Threads : EndCreate(t)
    BY DEF Next, Continue, Begin, LockOuter, LockInner, LockTables, LockThrows, EndAccess,
           Visit, EndVisit, EndDisconnect, LockExclusive
  <2>2. t \in excl
    BY <2>1 DEF EndCreate, LockInv, OwnInv
  <2>3. shared[u] = 0
    BY <2>2 DEF LockInv, OwnInv
  <2>4. QED
    BY <2>3 DEF LockInv, ShareInv
<1>2. QED
  BY <1>1, LockInvariant, PTL DEF Spec, MapStable

\* A thread that has a table lock is in the body of access() or of the loop of
\* disconnect(): it waits for nobody.
LEMMA HolderGoesOn ==
    ASSUME LockInv, NEW t \in Threads, held[t] # NoTables
    PROVE  pc[t] # "idle" /\ CanGoOn(t)
<1>1. pc[t] \in {"body", "visit"}
  BY DEF LockInv, HeldInv
<1>2. QED
  BY <1>1 DEF CanGoOn

\* With no table locked, nobody waits for a table.
LEMMA FreeTables ==
    ASSUME LockInv, \A u \in Threads : held[u] = NoTables,
           NEW t \in Threads, pc[t] \in {"tables", "body", "insert", "visit"}
    PROVE  CanGoOn(t)
<1>1. ASSUME NEW n \in Names, NEW m PROVE CanHave(t, n, m)
  BY DEF CanHave, NoTables
<1>2. CASE pc[t] = "tables"
  BY <1>1, <1>2 DEF CanGoOn, Wanted
<1>3. CASE pc[t] = "visit"
  <2>1. todo[t] \subseteq Names
    BY DEF LockInv, TypeOK
  <2>2. QED
    BY <1>1, <1>3, <2>1 DEF CanGoOn
<1>4. CASE pc[t] \in {"body", "insert"}
  BY <1>4 DEF CanGoOn
<1>5. QED
  BY <1>2, <1>3, <1>4

\* With no table locked and nobody past the locks on m_, the threads that are
\* left ask for m_ alone: one of them gets it, unless it is asked for twice.
LEMMA OnlyTheMap ==
    ASSUME LockInv, excl = {}, NEW w \in Threads, pc[w] # "idle",
           \A u \in Threads : pc[u] \in {"idle", "outer", "inner", "create"}
    PROVE  Relocking \/ \E t \in Threads : pc[t] # "idle" /\ CanGoOn(t)
<1>1. CASE \E t \in Threads : pc[t] = "create"
  <2>1. PICK c \in Threads : pc[c] = "create"
    BY <1>1
  <2>2. CASE \A u \in Threads : shared[u] = 0
    <3>1. CanOwn
      BY <2>2 DEF CanOwn
    <3>2. QED
      BY <2>1, <3>1 DEF CanGoOn
  <2>3. CASE \E u \in Threads : shared[u] # 0
    <3>1. PICK u \in Threads : shared[u] # 0
      BY <2>3
    <3>2. pc[u] = "inner"
      BY <3>1 DEF LockInv, ShareInv
    <3>3. shared[u] = 1
      BY <3>1, <3>2 DEF LockInv, ShareInv
    <3>4. CASE writerFirst
      BY <2>1, <3>2, <3>3, <3>4 DEF Relocking, WriterWaits
    <3>5. CASE ~writerFirst
      <4>1. CanShare
        BY <3>5 DEF CanShare
      <4>2. QED
        BY <3>2, <4>1 DEF CanGoOn
    <3>6. QED
      BY <3>4, <3>5
  <2>4. QED
    BY <2>2, <2>3
<1>2. CASE \A t \in Threads : pc[t] # "create"
  <2>1. CanShare
    BY <1>2 DEF CanShare, WriterWaits
  <2>2. pc[w] \in {"outer", "inner"}
    BY <1>2
  <2>3. QED
    BY <2>1, <2>2 DEF CanGoOn
<1>3. QED
  BY <1>1, <1>2

\* Deadlock freedom of the store, for any number of threads and tables: the
\* owner of m_ and the holders of table locks wait for nobody, so whoever waits
\* waits for one that goes on.  With a mutex that prefers writers the only way to
\* a deadlock is the second shared lock of a store method.
THEOREM DeadlockFree == Spec => []NoDeadlock
<1>1. LockInv => NoDeadlock
  <2> SUFFICES ASSUME LockInv, NEW w \in Threads, pc[w] # "idle"
               PROVE  Relocking \/ \E t \in Threads : pc[t] # "idle" /\ CanGoOn(t)
    BY DEF NoDeadlock
  <2>1. CASE excl # {}
    <3>1. PICK t \in Threads : t \in excl
      BY <2>1 DEF LockInv, TypeOK
    <3>2. pc[t] = "insert"
      BY <3>1 DEF LockInv, OwnInv
    <3>3. QED
      BY <3>2 DEF CanGoOn
  <2>2. CASE \E t \in Threads : held[t] # NoTables
    BY <2>2, HolderGoesOn
  <2>3. CASE \E t \in Threads : pc[t] \in {"tables", "body", "insert", "visit"}
    <3>1. SUFFICES ASSUME \A u \in Threads : held[u] = NoTables
                   PROVE  \E t \in Threads : pc[t] # "idle" /\ CanGoOn(t)
      BY <2>2
    <3>2. QED
      BY <2>3, <3>1, FreeTables
  <2>4. CASE excl = {} /\ \A t \in Threads : pc[t] \notin {"tables", "body", "insert", "visit"}
    <3>1. \A u \in Threads : pc[u] \in {"idle", "outer", "inner", "create"}
      BY <2>4 DEF LockInv, TypeOK, Positions
    <3>2. QED
      BY <2>4, <3>1, OnlyTheMap
  <2>5. QED
    BY <2>1, <2>3, <2>4
<1>2. QED
  BY <1>1, LockInvariant, PTL
============================================================================

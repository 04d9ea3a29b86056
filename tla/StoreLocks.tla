----------------------------- MODULE StoreLocks -----------------------------
(***************************************************************************)
(* The locks of cyng::store.  store::m_ guards the map of tables and every *)
(* table has a shared_mutex of its own:                                    *)
(*                                                                         *)
(*   store::access(f, tables...)   m_ shared, then all table locks by      *)
(*                                 std::lock(), then f;                    *)
(*   store::insert() and the like  m_ shared, then access(), which takes   *)
(*                                 m_ shared a second time;                *)
(*   store::create_table()         m_ exclusive;                           *)
(*   store::disconnect(slot)       m_ shared, then one table after the     *)
(*                                 other, exclusive.                       *)
(*                                                                         *)
(* A std::shared_mutex may let new readers in while a writer waits, or     *)
(* hold them back: writerFirst tells which.                                *)
(***************************************************************************)
EXTENDS Naturals, Sequences, SequencesExt

CONSTANTS
    Threads,
    Names,          \* table names
    Initial,        \* tables that exist at the start
    MaxCalls        \* bound: calls of each thread

ASSUME StoreLocksAssumption ==
    /\ Initial \subseteq Names
    /\ MaxCalls \in Nat

VARIABLES
    writerFirst,    \* a waiting writer holds back new readers
    tables,     \* names in store::tables_
    shared,     \* per thread: number of shared locks it has on m_
    excl,       \* threads with the exclusive lock on m_
    held,       \* per thread: the mode of each table lock it has
    pc, call,   \* per thread: position in a call, and the call
    todo,       \* per thread: tables disconnect() has still to visit
    calls       \* per thread: number of calls so far

vars == <<writerFirst, tables, shared, excl, held, pc, call, todo, calls>>

----------------------------------------------------------------------------
Modes == {"none", "read", "write"}

NoTables == [n \in Names |-> "none"]

\* What a call wants: a mode for every table it locks, or the table to create.
Calls ==
    [kind : {"access"}, mode : [Names -> Modes] \ {NoTables}]
        \cup [kind : {"store"}, mode : {[NoTables EXCEPT ![n] = m] : n \in Names, m \in {"read", "write"}}]
        \cup [kind : {"create"}, name : Names]
        \cup {[kind |-> "disconnect"]}

Positions == {"idle", "outer", "inner", "tables", "body", "create", "insert", "visit"}

TypeOK ==
    /\ writerFirst \in BOOLEAN
    /\ tables \subseteq Names
    /\ shared \in [Threads -> 0 .. 2]
    /\ excl \subseteq Threads
    /\ held \in [Threads -> [Names -> Modes]]
    /\ pc \in [Threads -> Positions]
    /\ call \in [Threads -> Calls]
    /\ todo \in [Threads -> SUBSET Names]
    /\ calls \in [Threads -> 0 .. MaxCalls]

\* The tables a call asks for.
Wanted(c) == {n \in Names : c.mode[n] # "none"}

----------------------------------------------------------------------------
(* std::shared_mutex and std::lock() *)

WriterWaits == \E t \in Threads : pc[t] = "create"

\* m_ can be locked shared / exclusively.
CanShare == excl = {} /\ ~(writerFirst /\ WriterWaits)

\* Mutant: the writer does not wait for the readers.
CanOwnDespiteReaders == excl = {}

CanOwn == excl = {} /\ \A t \in Threads : shared[t] = 0

\* Thread t can have table n in the given mode.
CanHave(t, n, mode) ==
    \A u \in Threads \ {t} :
        /\ mode = "write" => held[u][n] = "none"
        /\ mode = "read" => held[u][n] # "write"

GoTo(t, p) == pc' = [pc EXCEPT ![t] = p]

\* Mutant: the shared locks on m_ are kept.
LeaveKeepsShared(t) ==
    /\ GoTo(t, "idle")
    /\ UNCHANGED shared
    /\ held' = [held EXCEPT ![t] = NoTables]

\* All locks of thread t are released as its guards go out of scope.
Leave(t) ==
    /\ GoTo(t, "idle")
    /\ shared' = [shared EXCEPT ![t] = 0]
    /\ held' = [held EXCEPT ![t] = NoTables]

----------------------------------------------------------------------------
Begin(t, c) ==
    /\ pc[t] = "idle"
    /\ calls[t] < MaxCalls
    /\ calls' = [calls EXCEPT ![t] = @ + 1]
    /\ call' = [call EXCEPT ![t] = c]
    /\ GoTo(t, CASE c.kind = "access" -> "inner"
                 [] c.kind = "create" -> "create"
                 [] OTHER -> "outer")
    /\ UNCHANGED <<writerFirst, tables, shared, excl, held, todo>>

\* The shared lock of store::insert() and of disconnect().
LockOuter(t) ==
    /\ pc[t] = "outer"
    /\ CanShare
    /\ shared' = [shared EXCEPT ![t] = @ + 1]
    /\ GoTo(t, IF call[t].kind = "store" THEN "inner" ELSE "visit")
    /\ todo' = [todo EXCEPT ![t] = tables]
    /\ UNCHANGED <<writerFirst, tables, excl, held, call, calls>>

\* The shared lock of access().
LockInner(t) ==
    /\ pc[t] = "inner"
    /\ CanShare
    /\ shared' = [shared EXCEPT ![t] = @ + 1]
    /\ GoTo(t, "tables")
    /\ UNCHANGED <<writerFirst, tables, excl, held, call, todo, calls>>

\* Mutant: the locks are taken one by one, in the order of the arguments.
LockTablesInTurn(t) ==
    /\ pc[t] = "tables"
    /\ Wanted(call[t]) \subseteq tables
    /\ \E n \in Wanted(call[t]) :
        /\ held[t][n] = "none"
        /\ CanHave(t, n, call[t].mode[n])
        /\ held' = [held EXCEPT ![t][n] = call[t].mode[n]]
        /\ GoTo(t, IF held'[t] = call[t].mode THEN "body" ELSE "tables")
    /\ UNCHANGED <<writerFirst, tables, shared, excl, call, todo, calls>>

\* Mutant: every table is locked shared, as get_lock_type< read > does.
LockTablesShared(t) ==
    /\ pc[t] = "tables"
    /\ Wanted(call[t]) \subseteq tables
    /\ \A n \in Wanted(call[t]) : CanHave(t, n, "read")
    /\ held' = [held EXCEPT ![t] = [n \in Names |-> IF call[t].mode[n] = "none" THEN "none"
                                                    ELSE "read"]]
    /\ GoTo(t, "body")
    /\ UNCHANGED <<writerFirst, tables, shared, excl, call, todo, calls>>

\* std::lock() gets all locks or keeps none.
LockTables(t) ==
    /\ pc[t] = "tables"
    /\ Wanted(call[t]) \subseteq tables
    /\ \A n \in Wanted(call[t]) : CanHave(t, n, call[t].mode[n])
    /\ held' = [held EXCEPT ![t] = call[t].mode]
    /\ GoTo(t, "body")
    /\ UNCHANGED <<writerFirst, tables, shared, excl, call, todo, calls>>

\* An unknown table has no mutex: lock() throws, the guards unwind.
LockThrows(t) ==
    /\ pc[t] = "tables"
    /\ ~(Wanted(call[t]) \subseteq tables)
    /\ Leave(t)
    /\ UNCHANGED <<writerFirst, tables, excl, call, todo, calls>>

EndAccess(t) ==
    /\ pc[t] = "body"
    /\ Leave(t)
    /\ UNCHANGED <<writerFirst, tables, excl, call, todo, calls>>

\* disconnect(slot): the exclusive lock of one table at a time.
Visit(t) ==
    /\ pc[t] = "visit"
    /\ held[t] = NoTables
    /\ \E n \in todo[t] :
        /\ CanHave(t, n, "write")
        /\ held' = [held EXCEPT ![t] = [NoTables EXCEPT ![n] = "write"]]
        /\ todo' = [todo EXCEPT ![t] = @ \ {n}]
    /\ UNCHANGED <<writerFirst, tables, shared, excl, pc, call, calls>>

\* The table's guard goes out of scope at the end of the loop's body.
EndVisit(t) ==
    /\ pc[t] = "visit"
    /\ held[t] # NoTables
    /\ held' = [held EXCEPT ![t] = NoTables]
    /\ UNCHANGED <<writerFirst, tables, shared, excl, pc, call, todo, calls>>

EndDisconnect(t) ==
    /\ pc[t] = "visit"
    /\ todo[t] = {}
    /\ held[t] = NoTables
    /\ Leave(t)
    /\ UNCHANGED <<writerFirst, tables, excl, call, todo, calls>>

LockExclusive(t) ==
    /\ pc[t] = "create"
    /\ CanOwn
    /\ excl' = excl \cup {t}
    /\ GoTo(t, "insert")
    /\ UNCHANGED <<writerFirst, tables, shared, held, call, todo, calls>>

EndCreate(t) ==
    /\ pc[t] = "insert"
    /\ tables' = tables \cup {call[t].name}
    /\ excl' = excl \ {t}
    /\ GoTo(t, "idle")
    /\ UNCHANGED <<writerFirst, shared, held, call, todo, calls>>

----------------------------------------------------------------------------
Init ==
    /\ writerFirst \in BOOLEAN
    /\ tables = Initial
    /\ shared = [t \in Threads |-> 0]
    /\ excl = {}
    /\ held = [t \in Threads |-> NoTables]
    /\ pc = [t \in Threads |-> "idle"]
    /\ call = [t \in Threads |-> [kind |-> "disconnect"]]
    /\ todo = [t \in Threads |-> {}]
    /\ calls = [t \in Threads |-> 0]

Continue(t) ==
    \/ LockOuter(t) \/ LockInner(t)
    \/ LockTables(t) \/ LockThrows(t) \/ EndAccess(t)
    \/ Visit(t) \/ EndVisit(t) \/ EndDisconnect(t)
    \/ LockExclusive(t) \/ EndCreate(t)

Next == \E t \in Threads : (\E c \in Calls : Begin(t, c)) \/ Continue(t)

Spec == Init /\ [][Next]_vars

\* A thread inside a call goes on: callbacks return, and a lock that stays
\* available is granted.
FairSpec == Spec /\ \A t \in Threads : WF_vars(Continue(t))

----------------------------------------------------------------------------
(* Properties. *)

\* While access() runs f on a table for writing, no other thread is inside f,
\* or in the loop of disconnect(), with the same table.
WritersAlone ==
    \A t, u \in Threads, n \in Names :
        /\ t # u
        /\ pc[t] = "body" /\ call[t].mode[n] = "write"
        => ~(pc[u] = "body" /\ call[u].mode[n] # "none") /\ held[u][n] # "write"

\* create_table() changes the map of tables only while no access() and no
\* disconnect() uses it.
MapStable ==
    [][tables' # tables =>
        \A t \in Threads : pc[t] \notin {"tables", "body", "visit"}]_vars

\* Thread t does not wait for another one.  disconnect() goes through the map in
\* an order of its own, so any table it has still to visit may be the next.
CanGoOn(t) ==
    CASE pc[t] \in {"outer", "inner"} -> CanShare
      [] pc[t] = "create" -> CanOwn
      [] pc[t] = "tables" ->
            Wanted(call[t]) \subseteq tables =>
                \A n \in Wanted(call[t]) : CanHave(t, n, call[t].mode[n])
      [] pc[t] = "visit" /\ held[t] = NoTables -> \A n \in todo[t] : CanHave(t, n, "write")
      [] OTHER -> TRUE

\* A thread in store::insert() or the like that has m_ once and asks for it a
\* second time in access(), while create_table() waits for it to go.
Relocking ==
    /\ writerFirst /\ WriterWaits
    /\ \E t \in Threads : pc[t] = "inner" /\ shared[t] = 1

\* Calls never wait for each other in a circle: among the threads inside a call
\* there is one that can go on.  The one exception is a shared mutex that holds
\* new readers back behind a waiting writer, and it takes the second shared lock
\* of a store method to get there.
NoDeadlock ==
    (\E t \in Threads : pc[t] # "idle") =>
        Relocking \/ \E t \in Threads : pc[t] # "idle" /\ CanGoOn(t)

\* With a shared mutex that lets readers in, threads never block each other for
\* good: every call returns.
CallsReturn == \A t \in Threads : ~writerFirst /\ pc[t] # "idle" ~> pc[t] = "idle"
============================================================================

------------------------------ MODULE Registry ------------------------------
(***************************************************************************)
(* cyng::controller, cyng::registry and cyng::scheduler with the channels  *)
(* they create.                                                            *)
(*                                                                         *)
(* controller::create_*channel() gives a channel the next id and posts its *)
(* insertion to the registry's strand.  The registry keeps weak pointers:  *)
(* a channel lives as long as user code or a queued handler refers to it,  *)
(* and its deleter, auto_remove, posts the removal of the entry.  Lookups, *)
(* dispatch by id or name and stop(name) are handlers on the same strand.  *)
(* registry::shutdown() walks and clears the list on the caller's thread,  *)
(* controller::shutdown() then stops the io_context under all strands.     *)
(*                                                                         *)
(* A channel is what module Channel describes, cut down to its pending     *)
(* handlers; registry and channels are those of the release build.         *)
(***************************************************************************)
EXTENDS Integers, Sequences, FiniteSets

CONSTANTS
    MaxTasks,       \* bound: channels created in one behaviour
    NameOf,         \* the (not unique) name a channel is created with
    MaxOps,         \* bound: registry requests and direct dispatch() calls
    MaxShutdowns    \* bound: calls of registry::shutdown() that do something

Ids == 1 .. MaxTasks
Names == {NameOf[c] : c \in Ids}

ASSUME RegistryAssumption ==
    /\ MaxTasks \in Nat
    /\ DOMAIN NameOf = Ids
    /\ MaxOps \in Nat
    /\ MaxShutdowns \in Nat

VARIABLES
    nextId,     \* controller::id_
    user,       \* channels user code holds a channel_ptr of
    open,       \* channels with a task
    alive,      \* channels that are not destroyed
    creating,   \* those a thread is about to post the insertion of
    strand,     \* per channel: "msg" and "stop" handlers in its strand
    eod,        \* tasks whose eod slot was called
    list,       \* registry::list_, the weak pointers by id
    queue,      \* handlers in the registry's strand
    shutdown,   \* registry::shutdown_
    sd,         \* progress of a shutdown() call
    cursor,     \* its iterator into list_: keys from here upwards are done
    ctx,        \* "run", "stopped" or "joined": the io_context and its pool
    fault,      \* "race": a data race on list_ had a consequence
    ops,        \* number of requests so far
    epoch,      \* history: number of shutdowns
    before,     \* history: open channels when the running shutdown began
    snap,       \* history: those of them that were in list_
    missed,     \* history: channels a request should have found and did not
    late        \* history: channels that were closed when their insertion ran

chans == <<nextId, user, open, alive, creating, strand, eod>>
hist == <<ops, epoch, before, snap, missed, late>>
vars == <<chans, list, queue, shutdown, sd, cursor, ctx, fault, hist>>

----------------------------------------------------------------------------
\* A handler of the registry's strand: what it does, the channel or name it is
\* about, and (history) the open channels it should reach when it was posted.
Ops == {"insert", "remove", "lookup", "dispatch", "dispatch_id", "exclude", "stop"}

Handler == [op : Ops, id : Ids, name : Names, known : SUBSET Ids]

Insert(c) == [op |-> "insert", id |-> c, name |-> NameOf[c], known |-> {}]
Remove(c) == [op |-> "remove", id |-> c, name |-> NameOf[c], known |-> {}]

Queued(h, q) == \E i \in 1 .. Len(q) : q[i] = h

EmptyList == [k \in {} |-> 0]

TypeOK ==
    /\ nextId \in 0 .. MaxTasks
    /\ user \subseteq alive
    /\ creating \subseteq alive
    /\ open \subseteq alive
    /\ alive \subseteq 1 .. nextId
    /\ strand \in [Ids -> Seq({"msg", "stop"})]
    /\ eod \subseteq Ids \ open
    /\ DOMAIN list \subseteq 0 .. MaxTasks
    /\ \A k \in DOMAIN list : list[k] \in Ids
    /\ queue \in Seq(Handler)
    /\ shutdown \in BOOLEAN
    /\ sd \in {"idle", "iter", "clear", "cleared"}
    /\ cursor \in 0 .. MaxTasks + 1
    /\ ctx \in {"run", "stopped", "joined"}
    /\ fault \in {"none", "race"}
    /\ ops \in 0 .. MaxOps
    /\ epoch \in 0 .. MaxShutdowns
    /\ before \subseteq Ids
    /\ snap \subseteq before
    /\ missed \subseteq Ids
    /\ late \subseteq Ids

----------------------------------------------------------------------------
(* Lifetime of a channel. *)

\* Somebody has a shared pointer to c: user code, insert(), a handler in its
\* strand, or its insert handler.
Held(c, u, st, q) ==
    \/ c \in u \cup creating
    \/ st[c] # <<>>
    \/ Queued(Insert(c), q)

\* Mutant: the deleter does not tell the registry.
AutoRemoveSilent(c, q) == q

\* auto_remove posts the removal unless the registry is shut down.
AutoRemove(c, q) == IF shutdown THEN q ELSE Append(q, Remove(c))

\* A step that leaves the handles u, st, q gives up a reference to c: the last
\* one destroys the channel, and a task it still owns.
Release(c, u, st, q) ==
    /\ user' = u
    /\ strand' = st
    /\ IF Held(c, u, st, q)
       THEN queue' = q /\ UNCHANGED <<alive, open>>
       ELSE /\ queue' = AutoRemove(c, q)
            /\ alive' = alive \ {c}
            /\ open' = open \ {c}

\* Mutant: the handler that ends the task is never posted.
StopAllForgets(S) ==
    /\ open' = open \ S
    /\ UNCHANGED strand

\* channel::stop() of each channel in S.
StopAll(S) ==
    /\ open' = open \ S
    /\ strand' = [c \in Ids |-> IF c \in S \cap open THEN Append(strand[c], "stop")
                                ELSE strand[c]]

\* channel::dispatch() of each channel in S.
DispatchAll(S) ==
    strand' = [c \in Ids |-> IF c \in S \cap open THEN Append(strand[c], "msg")
                             ELSE strand[c]]

----------------------------------------------------------------------------
(* User code. *)

CanRun == fault = "none" /\ ctx # "joined"

\* create_named_channel_annotated(): id, channel, task, then registry::insert(),
\* which returns at once when it finds the registry shut down ...
Create ==
    LET c == nextId + 1 IN
    /\ CanRun
    /\ nextId < MaxTasks
    /\ nextId' = c
    /\ open' = open \cup {c}
    /\ alive' = alive \cup {c}
    /\ user' = IF shutdown THEN user \cup {c} ELSE user
    /\ creating' = IF shutdown THEN creating ELSE creating \cup {c}
    /\ UNCHANGED <<strand, eod, list, queue, shutdown, sd, cursor, ctx, fault, hist>>

\* ... and otherwise posts the insertion, shut down meanwhile or not.
PostInsert(c) ==
    /\ CanRun
    /\ c \in creating
    /\ creating' = creating \ {c}
    /\ user' = user \cup {c}
    /\ queue' = Append(queue, Insert(c))
    /\ UNCHANGED <<nextId, open, alive, strand, eod, list, shutdown, sd, cursor, ctx, fault, hist>>

UserStop(c) ==
    /\ CanRun
    /\ c \in user
    /\ StopAll({c})
    /\ UNCHANGED <<nextId, user, alive, creating, eod, list, queue, shutdown, sd, cursor, ctx,
                   fault, hist>>

UserDispatch(c) ==
    /\ CanRun
    /\ c \in user
    /\ ops < MaxOps
    /\ ops' = ops + 1
    /\ DispatchAll({c})
    /\ UNCHANGED <<nextId, user, open, alive, creating, eod, list, queue, shutdown, sd, cursor,
                   ctx, fault, epoch, before, snap, missed, late>>

UserDrop(c) ==
    /\ CanRun
    /\ c \in user
    /\ Release(c, user \ {c}, strand, queue)
    /\ UNCHANGED <<nextId, creating, eod, list, shutdown, sd, cursor, ctx, fault, hist>>

\* The channels a request is meant for.
Addressed(op, c, n) ==
    CASE op = "dispatch_id" -> {c}
      [] op = "exclude" -> {d \in Ids : NameOf[d] = n} \ {c}
      [] OTHER -> {d \in Ids : NameOf[d] = n}

\* Mutant: the request runs ahead of queued insertions.
PostAhead(h) == queue' = <<h>> \o queue

Post(h) == queue' = Append(queue, h)

\* lookup(), dispatch(), dispatch_exclude() and stop(name); only dispatch()
\* looks at shutdown_.
Request(op, c, n) ==
    /\ CanRun
    /\ ops < MaxOps
    /\ ops' = ops + 1
    /\ op \in {"dispatch", "dispatch_id"} => ~shutdown
    /\ Post([op |-> op, id |-> c, name |-> n,
             known |-> (Addressed(op, c, n) \cap open) \ creating])
    /\ UNCHANGED <<chans, list, shutdown, sd, cursor, ctx, fault, epoch, before, snap, missed,
                   late>>

----------------------------------------------------------------------------
(* Handlers. *)

\* Mutant: weak pointers are used without lock().
FoundDangling(h) == {list[k] : k \in DOMAIN list} \cap Addressed(h.op, h.id, h.name)

\* lookup_sync() and the find() calls: channels by key or by name.
Found(h) ==
    IF h.op = "dispatch_id"
    THEN {list[k] : k \in DOMAIN list \cap {h.id}} \cap alive
    ELSE {list[k] : k \in DOMAIN list} \cap alive \cap Addressed(h.op, h.id, h.name)

\* A closed channel has no id left: get_id() returns 0.
GetId(c) == IF c \in open THEN c ELSE 0

\* map::emplace() keeps an existing entry.
Emplace(k, c) ==
    IF k \in DOMAIN list THEN list
    ELSE [x \in DOMAIN list \cup {k} |-> IF x = k THEN c ELSE list[x]]

Erase(k) == [x \in DOMAIN list \ {k} |-> list[x]]

\* The handler and a shutdown() call on another thread meet in list_.
Races(h) ==
    \/ sd = "iter" /\ h.op \in {"insert", "remove"}
    \/ sd = "clear"

MayRace(h) == fault' \in IF Races(h) THEN {"none", "race"} ELSE {"none"}

CanTake(op) ==
    /\ fault = "none"
    /\ ctx = "run"
    /\ queue # <<>>
    /\ Head(queue).op \in op
    /\ MayRace(Head(queue))

RunInsert ==
    /\ CanTake({"insert"})
    /\ LET c == Head(queue).id IN
       /\ list' = Emplace(GetId(c), c)
       /\ Release(c, user, strand, Tail(queue))
       /\ late' = IF c \in open THEN late ELSE late \cup {c}
    /\ UNCHANGED <<nextId, creating, eod, shutdown, sd, cursor, ctx, ops, epoch, before, snap, missed>>

RunRemove ==
    /\ CanTake({"remove"})
    /\ queue' = Tail(queue)
    /\ list' = Erase(Head(queue).id)
    /\ UNCHANGED <<chans, shutdown, sd, cursor, ctx, hist>>

Misses(h) == missed' = missed \cup ((h.known \cap open) \ Found(h))

\* The callback of lookup() keeps the channels it gets.
RunLookup ==
    /\ CanTake({"lookup"})
    /\ queue' = Tail(queue)
    /\ user' = user \cup Found(Head(queue))
    /\ Misses(Head(queue))
    /\ UNCHANGED <<nextId, open, alive, creating, strand, eod, list, shutdown, sd, cursor, ctx,
                   ops, epoch, before, snap, late>>

RunDispatch ==
    /\ CanTake({"dispatch", "dispatch_id", "exclude"})
    /\ queue' = Tail(queue)
    /\ DispatchAll(Found(Head(queue)))
    /\ Misses(Head(queue))
    /\ UNCHANGED <<nextId, user, open, alive, creating, eod, list, shutdown, sd, cursor, ctx,
                   ops, epoch, before, snap, late>>

RunStop ==
    /\ CanTake({"stop"})
    /\ queue' = Tail(queue)
    /\ StopAll(Found(Head(queue)))
    /\ Misses(Head(queue))
    /\ UNCHANGED <<nextId, user, alive, creating, eod, list, shutdown, sd, cursor, ctx, ops,
                   epoch, before, snap, late>>

\* The next handler in the strand of channel c: a slot of the task, or task::stop().
RunChannel(c) ==
    /\ fault = "none"
    /\ ctx = "run"
    /\ strand[c] # <<>>
    /\ eod' = IF Head(strand[c]) = "stop" THEN eod \cup {c} ELSE eod
    /\ Release(c, user, [strand EXCEPT ![c] = Tail(@)], queue)
    /\ UNCHANGED <<nextId, creating, list, shutdown, sd, cursor, ctx, fault, hist>>

----------------------------------------------------------------------------
(* registry::shutdown(), reset(), controller::shutdown(), scheduler::stop(). *)

ShutdownBegin ==
    /\ CanRun
    /\ sd = "idle"
    /\ ~shutdown
    /\ epoch < MaxShutdowns
    /\ epoch' = epoch + 1
    /\ shutdown' = TRUE
    /\ sd' = "iter"
    /\ cursor' = MaxTasks + 1
    /\ before' = open
    /\ snap' = {list[k] : k \in DOMAIN list} \cap open
    /\ UNCHANGED <<chans, list, queue, ctx, fault, ops, missed, late>>

\* Keys the reverse iteration still has in front of it.
ToDo == {k \in DOMAIN list : k < cursor}

\* Mutant: the reverse iteration ends one entry early.
ShutdownDoneEarly == Cardinality(ToDo) <= 1

ShutdownDone == ToDo = {}

ShutdownStep ==
    /\ fault = "none"
    /\ sd = "iter"
    /\ ~ShutdownDone
    /\ LET k == CHOOSE x \in ToDo : \A y \in ToDo : y <= x IN
       /\ cursor' = k
       /\ StopAll({list[k]} \cap alive)
    /\ UNCHANGED <<nextId, user, alive, creating, eod, list, queue, shutdown, sd, ctx, fault, hist>>

ShutdownEnd ==
    /\ fault = "none"
    /\ sd = "iter"
    /\ ShutdownDone
    /\ sd' = "clear"
    /\ cursor' = 0
    /\ UNCHANGED <<chans, list, queue, shutdown, ctx, fault, hist>>

ShutdownClear ==
    /\ fault = "none"
    /\ sd = "clear"
    /\ list' = EmptyList
    /\ sd' = "cleared"
    /\ UNCHANGED <<chans, queue, shutdown, cursor, ctx, fault, hist>>

Leave ==
    /\ fault = "none"
    /\ sd = "cleared"
    /\ sd' = "idle"
    /\ before' = {}
    /\ snap' = {}
    /\ UNCHANGED <<chans, list, queue, shutdown, cursor, fault, ops, epoch, missed, late>>

\* registry::shutdown() returns to user code ...
ShutdownReturn == Leave /\ UNCHANGED ctx

\* ... or to controller::shutdown(), which calls scheduler::cancel().
Cancel == Leave /\ ctx' = "stopped"

\* scheduler::stop(): ctx_.run() returns 0 once the context is stopped (before,
\* the work guard keeps it from returning), and the pool threads are joined.
SchedulerStop ==
    /\ fault = "none"
    /\ ctx = "stopped"
    /\ ctx' = "joined"
    /\ UNCHANGED <<chans, list, queue, shutdown, sd, cursor, fault, hist>>

Reset ==
    /\ CanRun
    /\ sd = "idle"
    /\ shutdown' = FALSE
    /\ UNCHANGED <<chans, list, queue, sd, cursor, ctx, fault, hist>>

----------------------------------------------------------------------------
Init ==
    /\ nextId = 0
    /\ user = {}
    /\ open = {}
    /\ alive = {}
    /\ creating = {}
    /\ strand = [c \in Ids |-> <<>>]
    /\ eod = {}
    /\ list = EmptyList
    /\ queue = <<>>
    /\ shutdown = FALSE
    /\ sd = "idle"
    /\ cursor = 0
    /\ ctx = "run"
    /\ fault = "none"
    /\ ops = 0
    /\ epoch = 0
    /\ before = {}
    /\ snap = {}
    /\ missed = {}
    /\ late = {}

Requests ==
    \E n \in Names :
        \/ Request("lookup", 1, n)
        \/ Request("dispatch", 1, n)
        \/ Request("stop", 1, n)
        \/ \E c \in 1 .. nextId : Request("exclude", c, n)

Next ==
    \/ Create
    \/ \E c \in Ids :
        PostInsert(c) \/ UserStop(c) \/ UserDispatch(c) \/ UserDrop(c) \/ RunChannel(c)
    \/ Requests
    \/ \E c \in Ids : Request("dispatch_id", c, NameOf[c])
    \/ RunInsert \/ RunRemove \/ RunLookup \/ RunDispatch \/ RunStop
    \/ ShutdownBegin \/ ShutdownStep \/ ShutdownEnd \/ ShutdownClear
    \/ ShutdownReturn \/ Cancel \/ SchedulerStop \/ Reset

\* The pool runs the handlers of every strand while the context runs, and a
\* shutdown() call does not block.
Fairness ==
    /\ WF_vars(RunInsert \/ RunRemove \/ RunLookup \/ RunDispatch \/ RunStop)
    /\ \A c \in Ids : WF_vars(RunChannel(c))
    /\ WF_vars(ShutdownStep \/ ShutdownEnd \/ ShutdownClear)

Spec == Init /\ [][Next]_vars

FairSpec == Spec /\ Fairness

----------------------------------------------------------------------------
(* Properties. *)

Ended == fault # "none" \/ ctx # "run"

\* The entry of a destroyed channel is about to be removed: whichever of user
\* code, a queued message, stop() or the insert handler itself held the last
\* reference, the removal is queued behind the insertion.  The one entry that
\* stays is that of a channel that was stopped before its insertion ran: it
\* has lost its id (against the assertion registry.cpp:37) and is listed
\* under 0, which no removal names.
NoStaleEntry ==
    epoch = 0 =>
        \A k \in DOMAIN list :
            list[k] \notin alive =>
                IF k = 0 THEN list[k] \in late ELSE Queued(Remove(k), queue)

\* A request posted after create_channel() returned reaches the new channel,
\* although its insertion is asynchronous.
NoneMissed == epoch = 0 => missed = {}

\* shutdown() stops every channel that was in the list when it began, whatever
\* the strands and user code do meanwhile.
ShutdownStopsListed ==
    sd \in {"clear", "cleared"} /\ fault = "none" => snap \cap open = {}

\* A channel that was stopped gets its eod, even after the last channel_ptr of
\* user code is gone.
EodReached ==
    \A c \in Ids : c \in alive \ open ~> (c \in eod \/ Ended)

\* The registry forgets destroyed channels, under whatever key they are listed,
\* unless they were stopped before their insertion ran.
EntryRemoved ==
    \A c \in Ids :
        c \in 1 .. nextId \ alive
            ~> \/ \A k \in DOMAIN list : list[k] # c
               \/ c \in late \/ epoch > 0 \/ Ended

\* What registry.h:54 ("stop all tasks") says of shutdown().
ShutdownStopsAll ==
    sd = "cleared" /\ fault = "none" => before \cap open = {}

\* What scheduler.cpp:55 says of stop(): it blocks until "there are no more
\* handlers to be dispatched".
StopRunsHandlers == ctx = "joined" => \A c \in Ids : strand[c] = <<>>
============================================================================

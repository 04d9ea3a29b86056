------------------------------- MODULE Table -------------------------------
(***************************************************************************)
(* One in-memory table of cyng::store: the rows, the publisher (pub) with  *)
(* its slot lists, the slots, and the subscribers behind them.             *)
(*                                                                         *)
(* A table operation runs under the table's lock (store::access), changes  *)
(* the rows and forwards one event per change to the connected slots.  A   *)
(* slot holds a weak pointer to a channel and dispatches the event to it;  *)
(* the channel's strand hands the events to the subscriber one at a time,  *)
(* possibly long after the table has moved on.  A subscriber keeps a copy  *)
(* of the table and starts it afresh at a "db.trx" that opens a full load. *)
(*                                                                         *)
(* Rows are numbered columns, keys are numbers so that an auto_table can   *)
(* count them up.  Column 0 is what an unknown column name looks up to.    *)
(***************************************************************************)
EXTENDS Naturals, Sequences, FiniteSets, SequencesExt

CONSTANTS
    NKeys,      \* keys are 1 .. NKeys
    NCols,      \* columns of the body, 1 .. NCols
    Values,     \* what a column can hold
    Subs,       \* subscribers, each with a channel and a slot
    MaxOps      \* bound: table operations and connections in one behaviour

Keys == 1 .. NKeys
Cols == 1 .. NCols

ASSUME TableAssumption ==
    /\ NKeys \in Nat
    /\ NCols \in Nat \ {0}
    /\ MaxOps \in Nat

VARIABLES
    data,       \* table::data_, an empty record where there is no row
    autoKey,    \* auto_table::current_key_
    ins, mod,   \* pub::slots_insert_, slots_modify_
    rem, clr,   \* pub::slots_remove_, slots_clear_
    chan,       \* per subscriber: its channel is open, closed or destroyed
    inbox,      \* per subscriber: events waiting in the channel's strand
    replica,    \* per subscriber: its copy of the rows
    ops,        \* number of operations so far
    synced      \* history: subscribers listed ever since a full load

lists == <<ins, mod, rem, clr>>
vars == <<data, autoKey, lists, chan, inbox, replica, ops, synced>>

----------------------------------------------------------------------------
Bodies == [Cols -> Values]
NoBody == <<>>
NoRow == [body |-> NoBody, gen |-> 0]
Rows == [body : Bodies, gen : 1 .. 1 + NCols * MaxOps]

Exists(k) == data[k] # NoRow
Body(d) == [k \in Keys |-> d[k].body]
EmptyCopy == [k \in Keys |-> NoBody]

\* The n-th smallest number in S.
Nth(S, n) == CHOOSE x \in S : Cardinality({y \in S : y < x}) = n - 1

Events ==
    [type : {"insert"}, key : Keys, body : Bodies, gen : Nat]
        \cup [type : {"modify"}, key : Keys, col : Cols, val : Values, gen : Nat]
        \cup [type : {"remove"}, key : Keys]
        \cup [type : {"clear"}]
        \cup [type : {"trx"}, begin : BOOLEAN]

TypeOK ==
    /\ data \in [Keys -> Rows \cup {NoRow}]
    /\ autoKey \in 0 .. NKeys
    /\ {ins, mod, rem, clr} \subseteq Seq(Subs)
    /\ chan \in [Subs -> {"open", "closed", "gone"}]
    /\ inbox \in [Subs -> Seq(Events)]
    /\ replica \in [Subs -> [Keys -> Bodies \cup {NoBody}]]
    /\ ops \in 0 .. MaxOps
    /\ synced \subseteq Subs

----------------------------------------------------------------------------
(* pub and slot *)

\* slot::forward() to every slot in the list, for each of the events es: s gets
\* each of them once for every time it is listed.
Places(s) == {i \in 1 .. Len(ins) : ins[i] = s}

Repeated(es, n) == [i \in 1 .. n * Len(es) |-> es[(i - 1) \div n + 1]]

Forwarded(s, es) ==
    IF chan[s] = "open" THEN Repeated(es, Cardinality(Places(s))) ELSE <<>>

\* tidy() of slots_insert_.
Tidied ==
    LET left == {i \in 1 .. Len(ins) : chan[ins[i]] # "gone"} IN
    [n \in 1 .. Cardinality(left) |-> ins[Nth(left, n)]]

\* pub::forward(): all four kinds of events go to slots_insert_, and the slots
\* whose channel no longer exists leave that list.
Forward(es) ==
    /\ inbox' = [s \in Subs |-> inbox[s] \o Forwarded(s, es)]
    /\ ins' = IF es = <<>> THEN ins ELSE Tidied

\* An operation replaces the rows by d and publishes es.
Step(d, es) ==
    /\ ops < MaxOps
    /\ ops' = ops + 1
    /\ data' = d
    /\ Forward(es)
    /\ UNCHANGED <<mod, rem, clr, chan, replica, synced>>

----------------------------------------------------------------------------
(* Table operations. *)

InsertEvent(k, row) == [type |-> "insert", key |-> k, body |-> row.body, gen |-> row.gen]

\* Mutant: unordered_map::operator[] in the place of emplace().
InsertRowOver(k, body) ==
    LET row == [body |-> body, gen |-> 1] IN
    IF body = NoBody
    THEN Step(data, <<>>)
    ELSE Step([data EXCEPT ![k] = row], <<>>)

\* table::insert(); a body that fails check_integrity() is NoBody.
InsertRow(k, body) ==
    LET row == [body |-> body, gen |-> 1] IN
    IF body = NoBody \/ Exists(k)
    THEN Step(data, <<>>)
    ELSE Step([data EXCEPT ![k] = row], <<InsertEvent(k, row)>>)

Insert(k, body) == InsertRow(k, body) /\ UNCHANGED autoKey

\* auto_table::insert(): the key is used up even when the insertion fails.
InsertAuto(body) ==
    /\ autoKey < NKeys
    /\ autoKey' = autoKey + 1
    /\ InsertRow(autoKey + 1, body)

\* Columns the attributes am really change.
ChangedCols(k, am) == {c \in Cols \cap DOMAIN am : data[k].body[c] # am[c]}

\* Mutant: the generation counts calls, not columns.
UpdatedByOne(k, am) ==
    [body |-> [c \in Cols |-> IF c \in DOMAIN am THEN am[c] ELSE data[k].body[c]],
     gen  |-> data[k].gen + 1]

Updated(k, am) ==
    [body |-> [c \in Cols |-> IF c \in DOMAIN am THEN am[c] ELSE data[k].body[c]],
     gen  |-> data[k].gen + Cardinality(ChangedCols(k, am))]

\* Mutant: only the first changed column is published.
ModifyEventsFirst(k, am, lag) ==
    [i \in 1 .. IF ChangedCols(k, am) = {} THEN 0 ELSE 1 |->
        LET c == Nth(ChangedCols(k, am), 1) IN
        [type |-> "modify", key |-> k, col |-> c, val |-> am[c], gen |-> data[k].gen]]

\* One event per changed column, in ascending order.  update() publishes behind
\* ++generation_, modify() in front of it (lag 1).
ModifyEvents(k, am, lag) ==
    [i \in 1 .. Cardinality(ChangedCols(k, am)) |->
        LET c == Nth(ChangedCols(k, am), i) IN
        [type |-> "modify", key |-> k, col |-> c, val |-> am[c],
         gen |-> data[k].gen + i - lag]]

\* table::update()
Update(k, body) ==
    Step([data EXCEPT ![k] = Updated(k, body)], ModifyEvents(k, body, 0))

Merge(k, body) ==
    /\ UNCHANGED autoKey
    /\ IF Exists(k) /\ body # NoBody THEN Update(k, body) ELSE InsertRow(k, body)

\* Mutant: the event is published although nothing is written.
ModifyLost(k, c, v) ==
    /\ UNCHANGED autoKey
    /\ IF c # 0 /\ Exists(k) /\ data[k].body[c] # v
       THEN Step(data, ModifyEvents(k, [x \in {c} |-> v], 1))
       ELSE Step(data, <<>>)

\* table::modify() of one attribute; an unknown column ends in an exception.
Modify(k, c, v) ==
    /\ UNCHANGED autoKey
    /\ IF c # 0 /\ Exists(k) /\ data[k].body[c] # v
       THEN Step([data EXCEPT ![k] = Updated(k, [x \in {c} |-> v])],
                 ModifyEvents(k, [x \in {c} |-> v], 1))
       ELSE Step(data, <<>>)

\* table::compute(): modify() with a value computed from the old one.
Compute(k, c, calc) ==
    IF c # 0 /\ Exists(k)
    THEN Modify(k, c, calc[data[k].body[c]])
    ELSE Step(data, <<>>) /\ UNCHANGED autoKey

\* table::modify() of several attributes; unknown columns are skipped.
ModifyMap(k, am) ==
    /\ UNCHANGED autoKey
    /\ IF Exists(k)
       THEN Step([data EXCEPT ![k] = Updated(k, am)],
                 ModifyEvents(k, am, 1))
       ELSE Step(data, <<>>)

RemoveEvents(S) == [i \in DOMAIN SetToSeq(S) |-> [type |-> "remove", key |-> SetToSeq(S)[i]]]

Without(S) == [k \in Keys |-> IF k \in S THEN NoRow ELSE data[k]]

Erase(k) ==
    /\ UNCHANGED autoKey
    /\ LET S == {x \in {k} : Exists(x)} IN
       Step(Without(S), RemoveEvents(S))

\* table::erase_if() with a predicate that selects the rows of S.
EraseIf(S) ==
    /\ UNCHANGED autoKey
    /\ \A k \in S : Exists(k)
    /\ Step(Without(S), RemoveEvents(S))

Clear ==
    /\ UNCHANGED autoKey
    /\ Step(Without(Keys), <<[type |-> "clear"]>>)

----------------------------------------------------------------------------
(* Connections. *)

\* table::charge(): all rows, in the order of the hash table, between db.trx.
Charge ==
    LET ks == SetToSeq({k \in Keys : Exists(k)}) IN
    <<[type |-> "trx", begin |-> TRUE]>>
        \o [i \in 1 .. Len(ks) |-> InsertEvent(ks[i], data[ks[i]])]
        \o <<[type |-> "trx", begin |-> FALSE]>>

CanConnect(s) == chan[s] # "gone" /\ ops < MaxOps

Connect(s) ==
    /\ CanConnect(s)
    /\ ops' = ops + 1
    /\ ins' = Append(ins, s)
    /\ mod' = Append(mod, s)
    /\ rem' = Append(rem, s)
    /\ clr' = Append(clr, s)
    /\ inbox' = [inbox EXCEPT ![s] = IF chan[s] = "open" THEN @ \o Charge ELSE @]
    /\ synced' = synced \cup {s}
    /\ UNCHANGED <<data, autoKey, chan, replica>>

\* Without the initial load.
ConnectOnly(s) ==
    /\ CanConnect(s)
    /\ ops' = ops + 1
    /\ ins' = Append(ins, s)
    /\ mod' = Append(mod, s)
    /\ rem' = Append(rem, s)
    /\ clr' = Append(clr, s)
    /\ UNCHANGED <<data, autoKey, chan, inbox, replica, synced>>

\* Nothing reads the lists of the next three; to be in slots_insert_ alone
\* means to get everything.
ConnectInsert(s) ==
    /\ CanConnect(s)
    /\ ops' = ops + 1
    /\ ins' = Append(ins, s)
    /\ UNCHANGED <<data, autoKey, mod, rem, clr, chan, inbox, replica, synced>>

ConnectModify(s) ==
    /\ CanConnect(s)
    /\ ops' = ops + 1
    /\ mod' = Append(mod, s)
    /\ UNCHANGED <<data, autoKey, ins, rem, clr, chan, inbox, replica, synced>>

ConnectRemove(s) ==
    /\ CanConnect(s)
    /\ ops' = ops + 1
    /\ rem' = Append(rem, s)
    /\ UNCHANGED <<data, autoKey, ins, mod, clr, chan, inbox, replica, synced>>

ConnectClear(s) ==
    /\ CanConnect(s)
    /\ ops' = ops + 1
    /\ clr' = Append(clr, s)
    /\ UNCHANGED <<data, autoKey, ins, mod, rem, chan, inbox, replica, synced>>

\* disconnect(vec, s) removes the first occurrence.
DropFirst(l, s) ==
    LET hits == {i \in 1 .. Len(l) : l[i] = s} IN
    IF hits = {} THEN l ELSE RemoveAt(l, CHOOSE i \in hits : \A j \in hits : i <= j)

Disconnect(s) ==
    /\ ins' = DropFirst(ins, s)
    /\ mod' = DropFirst(mod, s)
    /\ rem' = DropFirst(rem, s)
    /\ clr' = DropFirst(clr, s)
    /\ synced' = IF Contains(DropFirst(ins, s), s) THEN synced ELSE synced \ {s}
    /\ UNCHANGED <<data, autoKey, chan, inbox, replica, ops>>

----------------------------------------------------------------------------
(* Subscribers. *)

\* What the subscriber does with an event to keep its copy.
Apply(copy, e) ==
    CASE e.type = "insert" -> [copy EXCEPT ![e.key] = e.body]
      [] e.type = "modify" ->
            IF copy[e.key] = NoBody THEN copy ELSE [copy EXCEPT ![e.key][e.col] = e.val]
      [] e.type = "remove" -> [copy EXCEPT ![e.key] = NoBody]
      [] e.type = "clear" -> EmptyCopy
      [] e.type = "trx" -> IF e.begin THEN EmptyCopy ELSE copy

Receive(s) ==
    /\ inbox[s] # <<>>
    /\ replica' = [replica EXCEPT ![s] = Apply(@, Head(inbox[s]))]
    /\ inbox' = [inbox EXCEPT ![s] = Tail(@)]
    /\ UNCHANGED <<data, autoKey, lists, chan, ops, synced>>

\* channel::stop(): the handlers still queued find the channel closed.
CloseChannel(s) ==
    /\ chan[s] = "open"
    /\ chan' = [chan EXCEPT ![s] = "closed"]
    /\ inbox' = [inbox EXCEPT ![s] = <<>>]
    /\ UNCHANGED <<data, autoKey, lists, replica, ops, synced>>

\* The last reference to the channel is gone.
DestroyChannel(s) ==
    /\ chan[s] = "closed"
    /\ chan' = [chan EXCEPT ![s] = "gone"]
    /\ UNCHANGED <<data, autoKey, lists, inbox, replica, ops, synced>>

----------------------------------------------------------------------------
Init ==
    /\ data = [k \in Keys |-> NoRow]
    /\ autoKey = 0
    /\ ins = <<>>
    /\ mod = <<>>
    /\ rem = <<>>
    /\ clr = <<>>
    /\ chan = [s \in Subs |-> "open"]
    /\ inbox = [s \in Subs |-> <<>>]
    /\ replica = [s \in Subs |-> EmptyCopy]
    /\ ops = 0
    /\ synced = {}

Write ==
    \/ \E k \in Keys, body \in Bodies \cup {NoBody} : Insert(k, body) \/ Merge(k, body)
    \/ \E body \in Bodies \cup {NoBody} : InsertAuto(body)
    \/ \E k \in Keys, c \in Cols \cup {0}, v \in Values : Modify(k, c, v)
    \/ \E k \in Keys, c \in Cols \cup {0}, calc \in [Values -> Values] : Compute(k, c, calc)
    \/ \E k \in Keys, C \in SUBSET (Cols \cup {0}) : \E am \in [C -> Values] : ModifyMap(k, am)
    \/ \E k \in Keys : Erase(k)
    \/ \E S \in SUBSET Keys : EraseIf(S)
    \/ Clear

Next ==
    \/ Write
    \/ \E s \in Subs :
        \/ Connect(s) \/ Disconnect(s)
        \/ ConnectOnly(s) \/ ConnectInsert(s)
        \/ ConnectModify(s) \/ ConnectRemove(s) \/ ConnectClear(s)
        \/ Receive(s) \/ CloseChannel(s) \/ DestroyChannel(s)

Spec == Init /\ [][Next]_vars

FairSpec == Spec /\ \A s \in Subs : WF_vars(Receive(s))

----------------------------------------------------------------------------
(* Properties. *)

\* The copy of a subscriber that has taken the events es.
Replayed(copy, es) ==
    LET after[i \in 0 .. Len(es)] == IF i = 0 THEN copy ELSE Apply(after[i - 1], es[i])
    IN  after[Len(es)]

\* A subscriber that was connected with connect() and is still listed has, once
\* it has taken the events already in its strand, exactly the table's rows:
\* no change is lost, published twice with effect, or published out of order.
ReplicaFollows ==
    \A s \in synced : chan[s] = "open" => Replayed(replica[s], inbox[s]) = Body(data)

\* A subscriber does not see the generation of a record fall while the record
\* lives, although modify() publishes it in front of its ++generation_ and
\* update(), with one event per column, behind it.
EventsAscend ==
    \A s \in Subs : \A j \in 1 .. Len(inbox[s]) :
        LET e == inbox[s][j]
            about == {i \in 1 .. j - 1 : inbox[s][i].type \in {"insert", "modify"}
                                            /\ inbox[s][i].key = e.key}
        IN  e.type = "modify" =>
                \A i \in about : (\A n \in about : n <= i) => inbox[s][i].gen <= e.gen

\* Every change is published: a subscriber that is listed and open sees an event
\* in the step that changes the rows.
NoSilentChange ==
    [][Body(data') # Body(data) =>
        \A s \in Subs : Contains(ins, s) /\ chan[s] = "open" => inbox'[s] # inbox[s]]_vars

\* A subscriber that was connected with connect() has the table's rows at some
\* later time, unless its channel is closed or it is disconnected.
CatchesUp ==
    \A s \in Subs :
        s \in synced ~> (replica[s] = Body(data) \/ s \notin synced \/ chan[s] # "open")
============================================================================

# TLA+ specifications of cyng

cyng is a C++ library: dynamically typed objects, an active-object task system
on top of boost::asio, an in-memory table store with publish/subscribe, a small
virtual machine, TCP client and server tasks, parsers, serializers, a logger
and an SQL/database layer.  This project models the parts of it where steps of
several threads meet, and the formats that have to survive being cut, mixed
and read back.  TLC checks the models on small instances, and TLAPS
proves the central results for every value of the constants.

Paths below are relative to the repository.

## 1. Inventory

| Component | State it keeps | Operations | What is hard about it |
|---|---|---|---|
| `task`: `channel`, `task` (`src/task/src/channel.cpp`, `include/cyng/task/channel.h`, `task.hpp`) | `task_` (a plain `unique_ptr`, null when closed), strand `dispatcher_`, `timer_` | `dispatch`, `next`, `suspend`, `cancel_timer`, `stop`, `is_open`, `defer` | `stop()` clears `task_` on the caller's thread while other threads test and use it; the task is deleted by a handler queued on the strand; timers that fire while they are being cancelled |
| `task`: `registry`, `controller`, `scheduler` | map id to `weak_ptr`, `shutdown_` flag, id counter, io_context and thread pool | create a channel, `lookup`, `dispatch` by id or name, `dispatch_exclude`, `stop(name)`, `shutdown`, `reset`, `cancel`, `stop`, `join` | insertion and removal are queued handlers; the deleter of a channel may run anywhere; `shutdown()` bypasses the strand; the context is stopped with handlers pending |
| `task`: `stash` | map id to `shared_ptr` | `lock`, `unlock`, `stop`, `clear` | same shape as the registry, with strong references |
| `store`: `table`, `auto_table`, `pub`, `slot` | rows with a generation, current key, four slot lists | `insert`, `merge`, `modify`, `compute`, `erase`, `erase_if`, `clear`, `connect*`, `disconnect` | subscribers see changes later, through channels that may close or vanish |
| `store`: `store` | map of tables, one shared mutex for the map, one per table | `access` to several tables, methods on one table, `create_table`, `disconnect` | lock order, recursive shared locks |
| `store`: `record`, `key`, `meta` | column descriptions | `to_sql`, `to_mem`, lookups | conversions |
| `vm` | stack with frames, program, program counter | op codes, `load`, `run`, `invoke`, `forward` | programs of several machines interleave through channels |
| `net`: `client`, `server`, `resolver` | socket, write queue, reconnect timer | `connect`, `send`, `do_read`, `do_write`, accept loop | completions that arrive after a reset, reconnect against stop |
| `io`, `parse` | parser states, token buffer, stack of open containers | binary serializers and TLV parser, UTF-8 both ways, JSON writer, tokenizer and parser, CSV tokenizer | boundaries of length fields, input cut at any place, state left over between documents |
| `db`, `sql` | session pool with a timer, transaction flags, statement builder | `get_session`, `start`, `stop`, `on_timer`, `begin`, `commit`, `rollback` | pool at its limit, timer against stop |
| `log` | list of appenders, rolling file | `push`, `write`, rotation | rotation |
| `obj`, `xml`, `rnd`, `sys`, `scm`, `3party` | - | casts, conversions, operating system queries | template code and I/O |

**How they interact.**  Everything asynchronous goes through `channel`: the
registry hands out channels, a table slot dispatches events to one, the
virtual machine, logger, client, server and resolver are tasks behind one.
All strands run on the threads of one `scheduler`.  The store is called
directly, under its locks, from any thread.

**What makes each part correct.**

* channel: a slot function never runs on a deleted task; the task ends once,
  its `eod` slot is its last; messages of one thread arrive in order, each at
  most once; a wait that was cancelled stays silent; a stopped task is deleted.
* registry: an entry does not outlive its channel by more than the queued
  removal; a request finds every channel created before it; `shutdown()`
  stops the listed channels; a stopped task gets its `eod`.
* table: a subscriber's copy equals the table once it has read its events;
  the generation of a record never falls in its events; no change goes
  unpublished.
* store: writers are alone, the map of tables is stable while it is read,
  threads never wait in a circle, calls return.
* client: messages reach the wire in the order of the calls and once, the write
  queue never stalls, a loss is reported, a connect is answered.
* session pool: a session has one owner, the pool stays within its size and
  fills up again after connects failed.
* binary format: the parser hands out what was written, object by object.
* virtual machine: calls are made in order, with the arguments written, whatever
  else is loaded in between, and leave nothing on the stack.
* JSON: every document gives one object, however the stream is cut, equal to the
  one written for exactly the values that survive; one document leaves nothing
  behind for the next.

## 2. Modules

| Module | Models | Kind |
|---|---|---|
| `Channel` | one channel, its strand, timer, task and calling threads | specification |
| `ChannelProofs` | theorems about `Channel`: its end; order, repetition and cancelling | proofs |
| `Registry` | controller, registry, scheduler with several channels | specification |
| `Table` | one table (or auto_table), publisher, slots, subscribers | specification |
| `StoreLocks` | the mutexes of the store | specification |
| `Mailbox` | what a channel promises, without strands and pointers | abstract specification |
| `ChannelMailbox` | the mapping from `Channel` to `Mailbox` | refinement |
| `ChannelMailboxProofs` | `Channel` implements `Mailbox` | proofs |
| `NetClient` | a TCP client task and the resolver tasks it creates | specification |
| `SessionPool` | the pool of database sessions with its timer | specification |
| `Stack`, `Wire` | stack instructions of the VM; binary format and its parser | operators |
| `Vm` | virtual machines behind channels, a connection and other threads | specification, uses `Stack` and `Wire` |
| `Programs` | the programs that serializers and generators write for `Vm` | operators |
| `JsonText` | UTF-8 and the JSON writer | operators |
| `Json` | JSON parser: read, sanitizer, tokenizer, parser | specification, uses `JsonText` |
| `RegistryProofs`, `TableProofs`, `StoreLocksProofs`, `NetClientProofs`, `SessionPoolProofs`, `VmProofs` | theorems about the module they are named after | proofs |
| `MCChannel`, `MCRegistry`, `MCTable`, `MCStoreLocks`, `MCNetClient`, `MCSessionPool`, `MCVm`, `MCJson` | constants for TLC | instances |

A definition whose comment begins with "Mutant:" is a plausible mistake in the
definition below it.  Each property of a passing run has one that breaks it.

### Channel

`open` is `task_ != nullptr`; `obj` is the task object; `strand` the handlers
posted to `dispatcher_`; `waits` the handlers waiting on `timer_`; `run` the
handler the pool thread `Worker` executes.  Other threads are `Users`; a slot
function that calls its own channel is a call by `Worker`.

| Action | Code |
|---|---|
| `Call`, `Proceed` | `dispatch`, `next`, `suspend`: the `is_open(slot)` test, then the post |
| `AsyncWait` | the second half of `suspend` |
| `CancelTimer` | `cancel_timer` |
| `StopLoad`, `StopCommit` | the read and the write inside `task_.release()`, and what `stop()` does with the pointer |
| `TimerFires` | the timer expires |
| `RunTake`, `RunCall`, `RunReturn` | a handler tests `is_open`, calls the slot, returns; `task::stop()` deletes the task; `task::next()` dispatches the consumer |

`task_` is not atomic.  A test and the use behind it are two steps.  When the
pointer was cleared in between, the use may meet the null pointer or the value
read before (the compiler may keep it in a register): `PointerUse`.  A use of a
null or deleted object sets `fault` and ends the behaviour.  `release()` is a
read and a write, also two steps.  The release build is modelled
(`BOOST_ASSERT` does nothing).  `dispatch_r` has the control flow of
`dispatch`; `channel::result` on top of it is not modelled.  The overloads of
`next()` that capture the consumer slot by reference (`channel.cpp:86`, `:98`)
are modelled as if they captured it by value, as the string overload does.

`timer_` is used by every thread without a lock.  `CancelWaits` therefore either
cancels all waits (`CancelAll`) or misses them (`CancelMisses`): a `cancel()` that
overlaps the `async_wait()` of another thread can leave asio's mark for pending
waits cleared.  A suspended message that was missed is still delivered once, or
discarded behind `stop()`.

`StopsInTurn` says that no two threads are inside `stop()` at the same time; any
number of threads may call it one behind the other.  `FairTurnSpec` is the channel
under such callers with a fair pool; `Spec` has no such restriction.

### Registry

A channel is its id (`1 .. MaxTasks`), reduced to whether it is open, alive and
which handlers wait in its strand.  `user` is the set of channels user code
holds a pointer to.  `Release` is reference counting: the step that gives up
the last reference destroys the channel and runs `auto_remove`.
`registry::shutdown()` runs on the caller's thread and is split into
`ShutdownBegin`, one `ShutdownStep` per entry, `ShutdownEnd`, `ShutdownClear`
and then either `ShutdownReturn` or `Cancel` (called from
`controller::shutdown()`).  A handler that meets it in `list_` is a data race:
`MayRace` lets the process end (`fault`) or go on.  `dispatch` to a vector of ids
is the sequence of the dispatches to each id.

`create_channel()` is two steps: `Create` tests `shutdown_`, `PostInsert` posts the
insertion, with anything in between.  A channel that is stopped before its
insertion runs has lost its id and is in `late`.  `StopAll` closes a set of channels
in one step.  What happens inside a `stop()` is the matter of `Channel`, which shows
(`ChannelIsMailbox`) that a channel whose stops come in turn is a mailbox with one
atomic `Close`; the race of two stops is recorded there and not repeated here.

### Table

A table operation is one step: it runs under the table's exclusive lock.
`data[k]` is a row (body and generation) or `NoRow`; a body that fails
`check_integrity` is `NoBody`; column 0 is a name that is not found.  `ins`, `mod`, `rem`,
`clr` are the four slot lists.  `Forward` sends events to `ins` only, as
`pub.cpp` does: a slot that is listed several times gets every event as often
(`Repeated`), and slots without a channel leave the list (`Tidied`).  The order in
which `charge()` and `erase_if()` walk the hash table is fixed by `SetToSeq`; no
property depends on it.  `Apply` and `Receive` are the subscriber, which is not part of the library: the smallest task that
keeps a copy from the five `db.*` slots.

### StoreLocks

Every thread is at a position of one call: `access` on any set of tables in any
modes, a method on one table (which holds `m_` shared when it calls `access`),
`create_table`, or `disconnect(slot)`.  `LockTables` is `std::lock`: all locks
or none.  `writerFirst` says whether the `shared_mutex` holds back new readers
behind a waiting writer; the C++ standard leaves that open and platforms differ,
so it is a variable that the first state chooses and no step changes.  `CanGoOn`
is what a thread needs for its next step: the lock it asks for, or nothing.

### Mailbox and the refinement

A mailbox holds accepted messages.  The task takes one, then handles it;
messages of one sender are taken in order, a consumer of `next()` only behind
its producer; timer messages can be called back; `Close` ends taking, what is in
the hand is still handled, the rest is lost, and then the task ends.  A crash is
possible only behind `Close`.  The mapping (`Box` in `ChannelMailbox`):
`waiting` is what can still call a slot (handlers on the strand, waits on the
timer, without aborted waits and the stop handler); `hand` is the handler that
has passed `is_open()`; `delivered` is the log; `closed` is `~open`; `crashed`
is `fault`.  `IsMailbox` and `IsFairMailbox` say that `Channel` implements it,
with the pool's fairness mapped to the mailbox's.

### NetClient

`strand` holds slot calls and completions of the client; `writes` and `reads`
are the operations the operating system has; `res` is how far each resolver is;
`resolver` is `resolver_`.  `HandleWrite` and `HandleRead` are the whole
handlers, with `reset()` and the dispatch of `on_disconnect`.  The lambda that
`connect()` hands to the resolver is two steps (`ConnectSucceeds` or
`CallBackFailed`, then `Leave`): it runs on the resolver's thread while the
client's strand goes on.  Completions are bound to the object and keep only the
channel alive, so `OnFreed`, `OnConnectFreed`, `Leave` through an empty
`resolver_` and `pop_front()` of an empty queue set `fault`.  The network is
external: `Outcomes` says how an operation may end.  On a healthy connection it
succeeds; on one that was lost, closed or replaced it fails, or it had succeeded
and its completion is late, or the peer has closed only its own side and still
takes what is written.  `reads` counts the reads of each connection.  A late
completion pops whatever is at the head of `snd_`; when that message is itself
being written (`InFlight`), its buffer is freed under the write: `fault = "freed"`.
`remote_endpoint()` of a peer that has gone throws out of the lambda
(`ConnectThrows`, `fault = "thrown"`).  `killed` are the resolvers that the lambda of
an earlier connect stopped in the place of its own.

### SessionPool

One step per critical section of `mutex_`; what `start()` and `stop()` do in
front of the lock is a step of its own.  `due` counts posted `on_timer()`
handlers, which `timer_.cancel()` no longer reaches.  The difference of the
sizes in `on_timer()` is unsigned: a pool that is too large connects without
end (`spin`).  `start()` and `stop()` may be called at any time, `start()` also on a
running pool, as the code tests nothing; `OrderlySpec` is the pool under a user who
starts it again only behind `stop()`.  A connect fails when the database is down
or has no connection left.

### Stack, Wire, Vm

An object is a leaf, a pair or a container.  `Linear` (in `Programs`) is what the
binary serializers write for it: leaves and the op codes that build it again.
`Put` is the parser, byte by byte, `Read` what it does with the bytes at hand up
to the next callback, `ExecStack` the op codes that need the stack only.
Recursion in `Wire` is by recursive functions, so that theorems can be stated
about it; the two recursive operators are in `Programs`, which only TLC uses.
A byte has `Base` values in the place of 256, and the marks and limits of the
length field scale with it, so that all three forms occur with short strings.
In `Vm` a connection feeds bytes to the parser, whose callback dispatches every
object to the VM and a `run()` behind every op code; other threads dispatch a
whole program and then `run()`.  `Run` is one turn of `vm_base::run()`.  A
program carries the calls its author expects; containers in them are `Rebuilt`,
as sequences come back reversed (see below).  A function in `Voids` returns nothing,
and a direct call of it pushes nothing (`PushResult`, `vm.h:47`).  `astray` names what
a program leaves on the stack against its author's intention: the arguments of a
direct call of an unknown function.  `StackBalanced` is about a build without
assertions; with them the first `REBA` ends the process (`stack.cpp:56`).

### JsonText, Json

A character is named by a string (`"["`, `"LF"`, `"U+E9"`), a byte is an ASCII
character or two hex digits.  Six characters stand for the lengths UTF-8 has and
the lead bytes the code takes for something else.  A number is denoted by its
text; 64 bit limits are left out.  `ToJson` is the writer.  `ReadByte` is one byte in
`read()` (byte order mark, sanitizer), `NewRead` a new call of `read()`, whose
locals start anew, and the `State*` actions are the states of the tokenizer with
the parser's `process_*` and `build_*` calls.  A string is converted from code points
to UTF-8; beyond Unicode the conversion throws (`StringThrows`), the exception leaves
`read()` with the tokenizer inside the string and the rest of the input unread.

`Survives` is the exact list of values that come back as they were written, `Framed`
the values whose text is JSON at all.  `Delivered` says *if and only if*: a value that
`Survives` lists must come back, and one that it does not list must not.

## 3. Runs

All runs set `CHECK_DEADLOCK FALSE`: calls, documents and programs are bounded,
and a behaviour that hit undefined behaviour ends.

| Run | Bounds | Result |
|---|---|---|
| `Channel` | 1 user and the worker, both may stop; slot 0 and an invalid slot; 3 messages, fairness | `TypeOK`, `StrandOwnsTask`, `StopOnce`, `SilentAfterStop`, `CallerFIFO`, `AtMostOnce`, `CancelledNeverRuns`, `IsMailbox`, `StopCompletes`, `Delivery`, `IsFairMailbox` hold |
| `Registry` | 2 channels of one name, 1 request, 1 shutdown, fairness | `TypeOK`, `NoStaleEntry`, `NoneMissed`, `ShutdownStopsListed`, `EodReached`, `EntryRemoved` hold |
| `Table` | 2 keys, 2 columns, 2 values, 1 subscriber, 4 operations, fairness | `ReplicaFollows`, `EventsAscend`, `NoSilentChange`, `CatchesUp` hold |
| `StoreLocks` | 2 threads, 2 tables (1 at the start), 2 calls each, fairness | both kinds of shared mutex: `TypeOK`, `WritersAlone`, `MapStable`, `NoDeadlock`, `CallsReturn` hold |
| `NetClient` | 2 messages, 2 connects (user or timer), 1 packet, 2 endpoints, fairness | `NoStall`, `WireOrder`, `LossReported`, `ConnectAnswered` hold |
| `SessionPool` | 2 users, 5 connections, pool of 2 or 3, 2 starts, fairness | `OneOwner`, `PoolRecovers`, `IdleRenewed` hold |
| `Vm` | 2 VMs, 19 workloads, `Base` 8, 3 messages queued, fairness | `FramesAligned`, `CallsAsWritten`, `StackBalanced`, `AllCallsMade` hold |
| `Json` | all pairs of the documents of `MCJson`, with and without a mark, cut at any byte | `Delivered`, `CleanBetween` hold |
| `ChannelRace` | 1 user stops, others send | `ThreadSafeAccess` violated |
| `ChannelStops` | 2 users stop | `StopOnce` violated |
| `NetClientLate` | 1 message, 1 connect | `WrittenIsQueued` violated |
| `SessionPoolRestart` | 1 user, 2 starts, the second behind `stop()` | `PoolBounded` violated |

**Why the bounds are enough.**  Three messages let one thread send two (order)
while another sends one, or a timer be set, replaced and cancelled with a
message in between.  Two channels of one name are what `lookup`, `stop(name)`
and `dispatch_exclude` tell apart; one shutdown meets every position of an
insertion, a removal and a drop.  Four table operations reach: connect, insert,
erase while disconnected, connect again.  One subscriber is enough: the others see
the table only through their own events (`CopiesFollow` is for any number).  Two threads with two
tables are enough for every pair of calls to wait for each other; a cycle of
three threads would need a third table lock taken in a second step, and no call
takes table locks in two steps while holding one.

Two connects are the least for a reconnect and for a connection that replaces
another, two messages for a queue behind a write in flight.  Two users and a
pool of two or three meet every position of the timer; five connections let the
pool be full and the database run out; two starts let a late handler meet a
restarted pool.  The workloads of `Vm` have strings at
every border of the length field, every kind of op code, nested containers, functions
with and without a result, an unknown function, and calls on another and on an
unknown VM; `MaxQueue` only keeps loaders from running
ahead of the strand.  A second JSON document meets whatever the first one left; the
documents have every kind of value, those that are lost on the way included, and
malformed texts.

**Fairness.**  Weak fairness on the steps of a thread inside a call (threads are
scheduled, calls do not block), on the timer, on handlers of a non-empty strand
while the context runs, and on a subscriber with events.  `RunReturn` has strong
fairness: a slot function that calls its channel a bounded number of times does
return.  In `StoreLocks`, weak fairness per thread says that a lock that stays
free is granted.  In `NetClient` the pool runs the strand and the resolvers, the timer expires, and
what was started on the socket completes; packets, losses and calls are not
fair.  In `SessionPool` the calls of `start()` and `stop()` end and the timer
expires; `PoolRecovers` and `IdleRenewed` speak of times when the database is
up.  In `Vm` the bytes arrive, threads finish their calls and strands run.  User
calls (create, connect, send, stop, shutdown) are not fair.

### What the violations show

* `ChannelRace`: a thread finds `is_open()` true (`channel.cpp:137`), another one
  calls `stop()`, and the first one uses the null pointer (`:138`, `:43`, `:118`).
  The comment at `channel.cpp:37` calls this "thread safe access to task".
* `ChannelStops`: two threads in `task_.release()` (`channel.cpp:151`) both get the
  pointer, both post `task::stop()`, and the task is deleted twice, although
  `channel.h:134` says the second one gets `false` and `channel.cpp:154` "this is safe".
* `NetClientLate`: a read error resets the queue while the handler of a successful
  write is queued; that handler then pops an empty queue, against the assertion
  `client.hpp:164`.
* `SessionPoolRestart`: an `on_timer()` that is already posted fills the pool behind
  `stop()`, and the next `start()` fills it once more, against the assertion
  `session_pool.cpp:126`.  Without the assertion `on_timer()` never ends, because the
  difference is unsigned (`:143`).

### Further divergences

What the models show and no run of its own records.  Where a definition is
named, checking it as an invariant (or with the constants given) reproduces it.

Task system and store:

* a channel whose insertion is still queued is not stopped by `shutdown()`, which
  `registry.h:54` says stops all tasks: `ShutdownStopsAll` in `Registry`;
* `controller::shutdown()` posts the `eod` handlers and stops the context;
  `scheduler::stop()` then returns with the handlers left, against its comment
  (`scheduler.cpp:55`): `StopRunsHandlers` in `Registry`;
* `store::insert` and the other methods lock `m_` shared twice (`db.cpp:70`,
  `db.h:223`); with a writer-first mutex a `create_table()` in between blocks both
  threads for good (README.md:27 "Threadsafe"): `Relocking` in `StoreLocks`, the
  one way out of `NoDeadlock`, and the reason for `~writerFirst` in `CallsReturn`;
* the insert handler reads the id of a channel that may have been stopped
  meanwhile; the assertion `registry.cpp:37` fails, and without it the entry is
  stored under key 0, where nothing removes it: the members of `late`, which
  `NoStaleEntry` and `EntryRemoved` name as the only entries that stay;
* an insert handler queued before `shutdown()` fills the cleared list, against
  the assertion `registry.cpp:146`;
* `shutdown()` and the strand race on `list_`, against `registry.h:49`
  ("Collecting the channels is thread safe"): `fault = "race"`;
* `forward` of every kind of event walks `slots_insert_` (`pub.cpp:87`, `:107`, `:125`),
  so a slot connected with `connect_modify()` hears nothing, although `pub.cpp:86` says
  "signal an modify event": `Forward` in `Table`, and the reason why `NoSilentChange`
  speaks of slots in `ins`;
* `merge()` of an existing record returns false (`table.h:84` says true), and
  `modify()` of several attributes returns true when nothing changed
  (`table.h:94`); read in the code, results of calls are not part of `Table`;
* in a debug build `is_open(slot)` of a closed channel ends in its assertion
  (`channel.cpp:135`) in place of returning false (`channel.h:101`).

Client (`NetClient`):

* a completion that is late for another reason (its connection was replaced) pops a
  message that was not sent, or one that is being written;
* every `stop()` of a connected client runs the aborted read's handler on the
  deleted task (`client.hpp:209` says "test if channel was stopped" and tests the
  pointer of the channel, which the handler itself keeps): `fault = "freed"`;
* a second `connect()` before the first is answered replaces `resolver_` and so
  frees the resolver that is connecting (`client.hpp:96`): `fault = "freed"`, and
  with both done `resolver_->stop()` meets a null pointer (`:114`);
* a reconnect, by the timer or by the user, that runs before the lambda of the connect
  before it has left puts its resolver into `resolver_`, and `resolver_->stop()`
  (`:114`) stops that one: its connect is never answered (`killed` in
  `ConnectAnswered`);
* a connection that breaks with a read and a write in flight is reported twice,
  and the late error of an old connection resets the new one.

Session pool (`SessionPool`):

* an `on_timer()` that is already posted fills the pool behind `stop()`
  (`session_pool.h:74` "closes all idle connections"): `StopIsFinal`;
* `start()` of a running pool adds its sessions to those that are there
  (`session_pool.cpp:74` tests nothing), with the same end as a late handler;
* a pool of size 1 lends one connection to all its users, so the transaction of
  one (`session.cpp:106`) commits what another has begun; the life time is tested
  before it is set (`session_pool.cpp:86`).

Virtual machine (`Vm`):

* tuples, vectors, deques and programs come back reversed when they are
  serialized, parsed and built again (`stack.cpp:165`): `ContainersKeepOrder`;
* `RESOLVE` and `INVOKE_R` of an unknown name end at slot 0, which is `load()`
  (`stack.cpp:305` is an assertion only, `vm.h:63`), and the argument comes back as an
  instruction: `ExecInvokeR`, `astray` in `StackBalanced`;
* a direct call of a function without a result pushes nothing (`vm.h:47`), while slot 0
  pushes null for it ("void => null", `vm.h:73`);
* two connections that load into one VM object by object mix their operands on
  its stack; one connection and whole programs do not (`CallsAsWritten`);
* `TIDY` does nothing (`context.cpp:39`), although `op.h:86` says "free unused
  memory": the memory of a VM only grows; the first assertion of `reba()`
  (`stack.cpp:56`) compares the wrong way round.

JSON (the values that `Survives` does not list; README.md:24 "Smooth integration of
parsing and serialization"):

* 0 is read as an empty string, and 0.5 as two values, an empty string and the
  text ".50", because `state_start` drops the zero and goes to `EXPONENT`
  (`json_tokenizer.cpp:89`);
* an apostrophe and the bell are written as escapes that the tokenizer drops
  (`json.cpp:268`, `:276`, `json_tokenizer.cpp:213`);
* code points above U+FFFF are written with five hexadecimal digits, and the
  tokenizer takes four (`json.cpp:283`, `json_tokenizer.cpp:247`);
* lead bytes 0xD0 to 0xDF count as one byte, because `utf8_byte_count` looks at
  four bits of three (`utf-8.hpp:265`, comment "110x_xxxx"): Cyrillic is lost;
* an empty vector is written as null (`json.cpp:33`), names of maps are not
  escaped (`json.cpp:153`);
* a byte order mark that two calls of `read()` share is read as text
  (`json_parser.h:59`) and leaves a string on the stack, against the assertion
  `json_parser.cpp:294`: the history `cut` in `CleanBetween`;
* a string with a character beyond Unicode makes the parser useless: the exception
  leaves it inside the string (`json_tokenizer.cpp:119`).

## 4. Proofs

Every theorem holds for every value of the constants: any number of threads,
messages, channels, tables, rows, connections and operations.  The constants
are assumed to have their types (the named `ASSUME`s), nothing else.

| Module | Theorem | Statement | Hypothesis |
|---|---|---|---|
| `ChannelProofs` | `TypeCorrect` | `Spec => []TypeOK` | none |
| | `StrandOwnership` | `Spec => []StrandOwnsTask` | `[]StopsInTurn` |
| | `StoppedOnce` | `Spec => []StopOnce` | `[]StopsInTurn` |
| | `SilenceAfterStop` | `Spec => []SilentAfterStop` | `[]StopsInTurn` |
| | `CallerOrder` | `Spec => []CallerFIFO` | none |
| | `CancelledSilent` | `Spec => []CancelledNeverRuns` | none |
| | `HandledOnce` | `Spec => []AtMostOnce` | `[]StopsInTurn` |
| `ChannelMailboxProofs` | `ChannelIsMailbox` | `Spec => IsMailbox` | `[]StopsInTurn` |
| `RegistryProofs` | `RegistryTyped` | `Spec => []TypeOK` | none |
| | `StaleEntriesLeave` | `Spec => []NoStaleEntry` | none |
| | `RequestsFind` | `Spec => []NoneMissed` | none |
| | `ShutdownReachesListed` | `Spec => []ShutdownStopsListed` | none |
| | `ShutdownReachesAll` | `Spec => [](epoch =< 1 => ShutdownStopsAll)` | `[][NothingToInsert]_vars` |
| `StoreLocksProofs` | `LocksTyped` | `Spec => []TypeOK` | none |
| | `WriterExclusion` | `Spec => []WritersAlone` | none |
| | `MapOwnership` | `Spec => MapStable` | none |
| | `DeadlockFree` | `Spec => []NoDeadlock` | none |
| `TableProofs` | `CopiesFollow` | `Spec => []ReplicaFollows` | none |
| | `ChangesPublished` | `Spec => NoSilentChange` | none |
| `NetClientProofs` | `QueueFlows` | `Spec => []NoStall` | none |
| | `SendOrder` | `Spec => []WireOrder` | none |
| | `WrittenStaysQueued` | `Spec => []WrittenIsQueued` | `[][NoneOvertaken]_vars` |
| `SessionPoolProofs` | `SessionsOwned` | `Spec => []OneOwner` | `NotSingle` |
| | `BoundedUntilRestart` | `Spec => [](starts =< 1 => PoolBounded)` | none |
| | `BoundedThroughRestarts` | `Spec => [](PoolBounded /\ StopIsFinal /\ ~spin)` | `[][CleanRestarts]_vars` |
| `VmProofs` | `ReadsWhatWasWritten` | `Read` of `Serialize(o) \o rest` gives `o`, uses `Len(Serialize(o))` bytes and leaves the parser at rest | the parser rests, `Writable(o)` |
| | `FramesKept` | `Spec => []FramesAligned` | none |

The hypotheses are needed.  `StopsInTurn` says that no two threads are inside
`stop()` at once, whichever threads call it and how often: without it the run
`ChannelStops` refutes `StopOnce`.  `NotSingle` says that the
pool is not started with the size 1: `get_session()` then lends the one session
to everybody.

Three theorems are about what the code does not keep in general (section 3), and
name the one step that spoils it.  Their hypotheses restrict in which states one
operation is called or run, which the code does not ensure:
`CleanRestarts` (the pool is started again only behind `stop()`, and `stop()` is called
while no `on_timer()` handler is posted; without it `PoolBounded` fails behind the
second `start()`, as `SessionPoolRestart` shows, and `StopIsFinal` behind the first
`stop()`), `NoneOvertaken` (the success of a write comes while its connection is in
`socket_`, and `reset()` of the client does not run with its handler in the strand;
without it `NetClientLate`), `NothingToInsert`
(`shutdown()` of the registry begins with no insertion of an open channel queued).
It is enough if a repair of the code establishes these.

### The arguments

Each proof rests on an inductive invariant, which TLC checked on an instance
before it was proved.

*Types of a channel.*  `TypeOK` is not inductive: `AsyncWait` puts `arg[t]` into
`waits`, which holds timer handlers only.  `TypeInv` adds `ArgOK`: a thread at
position "wait" has a timer message, a thread inside a call has a message that
is no stop handler, and a timer message is not aborted yet.

*The stop handler* (`StopInv`): a stop handler exists in at most one place (the
strand, `run`, the log), it exists only after `task_` was cleared, a thread that
has read the pointer and not yet cleared it is the only one and the pointer is
still there, and the object is deleted only when the stop handler has returned.
From it: nothing passes `is_open()` once the stop handler runs, because the
channel has been closed since before the handler was posted; so the deletion
comes after every slot call, and `eod` is last.

*Order* (`OrderInv`): the log, the handler in hand and the strand make one line.
Messages are numbered by the calls; in the line the numbers of one thread
ascend, what a thread is about to post is newer than what it has posted, a number
is in one place only (line, waits, a thread's argument), a cancelled wait is
marked wherever it went, and a consumer comes behind its producer.  The log is a
prefix of the line, so its properties are those of the line.

*Refinement*: every action of `Channel` is a step of `Mailbox` under the mapping
`Box`, or leaves it unchanged.  It needs both invariants: `OrderInv` for the
message that is taken (it is the oldest of its sender and was not taken
before), `StopInv` for the end of the task.

*Registry* (`RegInv`): handlers in the strand of the registry keep their channel
alive or come from its destructor, an open channel is listed or has its
insertion queued, ahead of every request that knows it (`CoverInv`), and what a
`shutdown()` has not stopped yet is in front of its iterator (`WalkInv`).  It
holds although handlers and user code run between two steps of the walk.  With no
insertion queued, `CoverInv` says that all open channels are listed (`AllListed`).

*Store* (`LockInv`): the locks a thread has follow from its position; the owner
of `m_` is the one thread in `create_table()` and shares it with nobody.
`DeadlockFree` follows from the same invariant by a lock order: `m_` comes before
the tables.  A thread that holds a table goes on, as it waits for nothing while it
does (`std::lock` takes all or none, `disconnect()` one at a time).  If nobody
holds a table, whoever waits for tables gets them.  If nobody is that far, only
`m_` is in the way: its owner goes on, and without an owner a reader goes on
unless a writer waits and the mutex prefers it; that writer goes on unless some
thread has `m_` shared, and such a thread, waiting for `m_` again, is the
exception.

*Table* (`TableInv`): the pending events, replayed on the copy, give the rows,
and a subscriber that was loaded is in `slots_insert_` as long as it has a
channel.  Each operation is shown to be a `Change`: there are copies c[0] (the
old rows) to c[n] (the new rows) such that event i leads from c[i-1] to c[i] and
has no effect when it comes again.  The last point is why a slot that is
connected twice does no harm: n events, each repeated as often as the slot is
listed, lead to the same rows (`ReplayRepeated`).  An operation without events is
one that leaves the bodies alone.  `ChargeLoads` says the same of the initial load, from any copy.
What `Replayed` and `Nth` compute is shown by induction on numbers: the
library's induction theorems take an operator as a parameter, so `Induction`
states it with a set in its place and is derived from the well-foundedness of
the natural numbers.

*Client* (`ClientInv`): a message moves from a handler in the strand to `snd_` and
from the head of `snd_` to a connection; the three places hold the messages in
this order, and only the head may already be on a connection.  `KeptInv` is about
the writes that succeeded or still can: there is one at a time, in flight on the
present socket or as a handler in the strand, and the queue is not empty
meanwhile.  `NoneOvertaken` keeps late successes of older connections out; that a new
connection is never taken for an older one is `ResolverInv`: every connection has the
number of its resolver, and `connect()` takes a new one.

*Session pool* (`SizeInv`, `OwnerInv`): before the first `start()` there is
nothing in the pool and no timer; `add_session()` appends a session that nobody
has, and n of them append at most n (by induction); so the sessions of the list
are distinct and nobody holds one of them.  `LivesApart` adds, for restarts, that no
timer and no handler is left from `stop()` to the next `start()`.

*Binary format* (`FrameInv`): the parser rests between two calls of its callback,
k objects were handed out, and the wire holds the bytes of the others.  The step
is the round trip of one object.  `Digits` and `Number` are inverse to each other
below `Base ^ n` (by induction on the bytes); `LengthField` takes the three forms
of the length field in turn: each one is read with the size its first byte
announces, and gives the length back.  `Frame` then describes the bytes of an
object by their three parts, and `FrameStep` says for every byte what `put()`
leaves behind.  That the recursive functions of `Wire` exist at all (a recursive
function is a CHOOSE) is `Recursion`, and that two of them agree is `Agree`; both
rest on `Induction`.  `WorkloadAssumption` says that the connection sends objects
with a type code of their own, numbers that fit their width, and values shorter
than `Base ^ 8` bytes, which is what a 64 bit length can say.

### Only model-checked

* All liveness properties (`StopCompletes`, `Delivery`, `IsFairMailbox`,
  `EodReached`, `EntryRemoved`, `CatchesUp`, `CallsReturn`, `LossReported`,
  `ConnectAnswered`, `PoolRecovers`, `IdleRenewed`, `AllCallsMade`): the proof
  system has no support for fairness and ENABLED here.
* `EventsAscend` of `Table`: its proof would need, for every event in a queue, that the
  generation stored meanwhile is at least the one the event carries.
* `CallsAsWritten` and `StackBalanced` of `Vm`, `Delivered` and `CleanBetween` of
  `Json`: they compare what the machine does with what a given program or document
  means, so they hold for the programs and documents of the instance and not for
  every value of `Workloads` and `Documents`.  What a program or a document means
  is recursive (`Linear`, `Rebuilt`, `ToJson`), which the proof system cannot use.

## 5. Not modelled, and the plan

Not modelled: `channel::result` (`ready_` is set before `result_` is written,
`channel.cpp:218`), `stash` (a registry with strong references), the accept loop
of `server`, transactions and prepared statements of a session, the SQLite
statement states, the CSV tokenizer, the rotation of `rolling_file`, the
conversions of `meta`.  They are small, or thin wrappers around code that is not
in the repository.

Worth doing next, in this order:

1. `stash`, with the proofs of `Registry` as a pattern.
2. The stack of the virtual machine for every program: a typing of instructions
   under which `StackBalanced` holds whatever the workload is.
3. The rotation of `rolling_file` and the accept loop of `server`.

Left out for good: `obj` (values and casts decided by the C++ type system),
`sql` (text built from types), `sys`, `rnd`, `xml` (I/O and library calls),
the ODBC back end (not built, `session.cpp:90`) and third-party code.

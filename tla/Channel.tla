------------------------------ MODULE Channel ------------------------------
(***************************************************************************)
(* One cyng::channel: the thread safe front of a task object.              *)
(*                                                                         *)
(* Every thread may call dispatch(), next(), suspend(), cancel_timer() and *)
(* stop().  The calls only post handlers to the channel's strand           *)
(* (dispatcher_); a pool thread, Worker, takes the handlers from the       *)
(* strand one at a time and calls the slot functions of the task.  A slot  *)
(* function may itself call the channel: Worker is then the caller.        *)
(*                                                                         *)
(* task_ is a plain unique_ptr that stop() resets on the caller's thread   *)
(* while other threads read it.  Each place that reads it twice (the       *)
(* is_open() test and the use behind it) is two steps here, and a second   *)
(* read that finds the pointer gone has the outcomes a compiler can        *)
(* produce: the null pointer is used, or the value read first is reused.   *)
(* The build is the release build, in which BOOST_ASSERT does nothing.     *)
(***************************************************************************)
EXTENDS Naturals, Sequences

CONSTANTS
    Users,      \* threads outside the strand that hold a channel_ptr
    Worker,     \* the pool thread that runs the strand's handlers
    Stoppers,   \* the threads that call channel::stop()
    SigCount,   \* number of slots of the task (get_signature_count())
    Slots,      \* slot ids in use; lookup() gives an unknown name a huge one
    MaxOps      \* bound: number of messages sent in one behaviour

Threads == Users \cup {Worker}

ASSUME ChannelAssumption ==
    /\ Worker \notin Users
    /\ Stoppers \subseteq Threads
    /\ SigCount \in Nat
    /\ Slots \subseteq Nat
    /\ MaxOps \in Nat

VARIABLES
    open,       \* task_ is not null
    obj,        \* the task object itself
    strand,     \* handlers waiting in dispatcher_
    run,        \* the handler Worker executes, and how far it got
    waits,      \* handlers waiting for timer_
    pc, arg,    \* per thread: position in a channel call, and its message
    ptr,        \* per thread: what task_.release() returned in stop()
    ops,        \* number of messages sent so far
    log,        \* history: the slot functions called, in order
    aborted,    \* history: messages whose wait was cancelled
    stops,      \* history: number of stop() calls that returned true
    fault       \* undefined behaviour ended the process

vars == <<open, obj, strand, run, waits, pc, arg, ptr, ops, log, aborted,
          stops, fault>>

----------------------------------------------------------------------------
Ids == 0 .. MaxOps
Kinds == {"dispatch", "next", "consume", "timer", "stop"}

\* A posted lambda: kind, message number, sender, target slot, and whether the
\* error code it gets is anything but operation_aborted.
Handler == [kind : Kinds, id : Ids, by : Threads, slot : Nat, ok : BOOLEAN]

Msg(kind, id, t, slot) ==
    [kind |-> kind, id |-> id, by |-> t, slot |-> slot, ok |-> TRUE]

StopMsg(t) == Msg("stop", 0, t, 0)

Idle == [phase |-> "idle", h |-> StopMsg(Worker)]

TypeOK ==
    /\ open \in BOOLEAN
    /\ obj \in {"alive", "deleted"}
    /\ strand \in Seq(Handler)
    /\ run \in [phase : {"idle", "checked", "exec"}, h : Handler]
    /\ waits \in Seq({h \in Handler : h.kind = "timer" /\ h.ok})
    /\ pc \in [Threads -> {"idle", "checked", "wait", "stopping"}]
    /\ arg \in [Threads -> Handler]
    /\ ptr \in [Threads -> BOOLEAN]
    /\ ops \in Ids
    /\ log \in Seq(Handler)
    /\ aborted \subseteq Ids
    /\ stops \in Nat
    /\ fault \in {"none", "null", "uaf"}

----------------------------------------------------------------------------
\* boost::asio: cancelling a timer completes every wait on it with
\* operation_aborted; the completions run on the strand.
Abort(h) == [h EXCEPT !.ok = FALSE]

AbortedWaits == [i \in 1 .. Len(waits) |-> Abort(waits[i])]

\* Mutant: the cancelled waits stay with the timer.
CancelWaitsKept(rest) ==
    /\ strand' = strand \o rest
    /\ waits' = AbortedWaits
    /\ UNCHANGED aborted

\* timer_.cancel(), after which the caller posts the handlers in rest.
CancelAll(rest) ==
    /\ strand' = strand \o AbortedWaits \o rest
    /\ waits' = <<>>
    /\ aborted' = aborted \cup {waits[i].id : i \in 1 .. Len(waits)}

\* timer_ is used by every thread without a lock.  The queue of waits behind it
\* has one, but not the mark that says it may hold some: a cancel() that
\* overlaps the async_wait() of another thread can leave the mark cleared with
\* that wait queued, and the next cancel() then returns without looking.
CancelMisses(rest) ==
    /\ strand' = strand \o rest
    /\ UNCHANGED <<waits, aborted>>

CancelWaits(rest) == CancelAll(rest) \/ CancelMisses(rest)

\* Mutant: the waits stay with the timer and fire again.
TimerFiresAgain ==
    /\ fault = "none"
    /\ waits # <<>>
    /\ strand' = strand \o waits
    /\ UNCHANGED <<open, obj, run, waits, pc, arg, ptr, ops, log, aborted, stops, fault>>

\* The timer expires: all waits complete without an error.
TimerFires ==
    /\ fault = "none"
    /\ waits # <<>>
    /\ strand' = strand \o waits
    /\ waits' = <<>>
    /\ UNCHANGED <<open, obj, run, pc, arg, ptr, ops, log, aborted, stops, fault>>

----------------------------------------------------------------------------
(* Calls on the channel. *)

CanCall(t) ==
    /\ fault = "none"
    /\ pc[t] = "idle"
    /\ t = Worker => run.phase = "exec"

\* First half of is_open(slot): is_open() reads task_.  A closed channel ends
\* the call without a word.
BeginIsOpen(t, m) ==
    IF open
    THEN /\ pc' = [pc EXCEPT ![t] = "checked"]
         /\ arg' = [arg EXCEPT ![t] = m]
    ELSE UNCHANGED <<pc, arg>>

\* dispatch(), next(slot, f, msg) and suspend() all start with is_open(slot).
Call(t, kind, slot) ==
    /\ CanCall(t)
    /\ ops < MaxOps
    /\ ops' = ops + 1
    /\ BeginIsOpen(t, Msg(kind, ops + 1, t, slot))
    /\ UNCHANGED <<open, obj, strand, run, waits, ptr, log, aborted, stops, fault>>

\* What the code behind a successful first read of task_ can meet: the object
\* read before ("uaf" when it is deleted by now) or the null pointer.
PointerUse ==
    {IF obj = "alive" THEN "none" ELSE "uaf"}
        \cup {f \in {"null"} : ~open}

\* Mutant: a handler that runs ahead of the queue.
PostFront(h) == strand' = <<h>> \o strand

\* boost::asio::post(dispatcher_, ...)
Post(h) == strand' = Append(strand, h)

\* Second half of is_open(slot), then the body of the call: post a handler, or
\* set a new expiry time, which cancels the waits of the old one.
Proceed(t) ==
    /\ fault = "none"
    /\ pc[t] = "checked"
    /\ fault' \in PointerUse
    /\ IF fault' # "none" \/ arg[t].slot >= SigCount
       THEN /\ pc' = [pc EXCEPT ![t] = "idle"]
            /\ UNCHANGED <<strand, waits, aborted>>
       ELSE IF arg[t].kind = "timer"
            THEN /\ pc' = [pc EXCEPT ![t] = "wait"]
                 /\ CancelWaits(<<>>)
            ELSE /\ pc' = [pc EXCEPT ![t] = "idle"]
                 /\ Post(arg[t])
                 /\ UNCHANGED <<waits, aborted>>
    /\ UNCHANGED <<open, obj, run, arg, ptr, ops, log, stops>>

\* suspend(): timer_.async_wait(...).
AsyncWait(t) ==
    /\ fault = "none"
    /\ pc[t] = "wait"
    /\ waits' = Append(waits, arg[t])
    /\ pc' = [pc EXCEPT ![t] = "idle"]
    /\ UNCHANGED <<open, obj, strand, run, arg, ptr, ops, log, aborted, stops, fault>>

CancelTimer(t) ==
    /\ CanCall(t)
    /\ CancelWaits(<<>>)
    /\ UNCHANGED <<open, obj, run, pc, arg, ptr, ops, log, stops, fault>>

\* stop(): task_.release() reads the pointer ...
StopLoad(t) ==
    /\ CanCall(t)
    /\ t \in Stoppers
    /\ pc' = [pc EXCEPT ![t] = "stopping"]
    /\ ptr' = [ptr EXCEPT ![t] = open]
    /\ UNCHANGED <<open, obj, strand, run, waits, arg, ops, log, aborted, stops, fault>>

\* Mutant: get() in the place of release().
KeepPointer == UNCHANGED open

ClearPointer == open' = FALSE

\* Mutant: the handler that ends the task is never posted.
StopPostsNothing(t) == <<>>

StopPosts(t) == <<StopMsg(t)>>

\* ... and clears it; the caller that got a pointer cancels the timer and posts
\* the handler that ends the task.
StopCommit(t) ==
    /\ fault = "none"
    /\ pc[t] = "stopping"
    /\ pc' = [pc EXCEPT ![t] = "idle"]
    /\ ClearPointer
    /\ IF ptr[t]
       THEN /\ CancelWaits(StopPosts(t))
            /\ stops' = stops + 1
       ELSE UNCHANGED <<strand, waits, aborted, stops>>
    /\ UNCHANGED <<obj, run, arg, ptr, ops, log, fault>>

----------------------------------------------------------------------------
(* The strand. *)

Called(h) == log' = Append(log, h)

\* Mutant: the error code is not looked at.
LiveAlways(h) == TRUE

\* Mutant: the comparison with operation_aborted is inverted.
LiveInverted(h) == h.kind = "timer" => ~h.ok

\* An aborted wait does nothing, every other handler tests is_open() first.
\* The handler posted by stop() owns the task and tests nothing.
Live(h) == h.kind = "timer" => h.ok

RunTake ==
    /\ fault = "none"
    /\ run.phase = "idle"
    /\ pc[Worker] = "idle"
    /\ strand # <<>>
    /\ strand' = Tail(strand)
    /\ LET h == Head(strand)
           checked == [phase |-> "checked", h |-> h]
       IN  IF h.kind = "stop"
           THEN /\ run' = [phase |-> "exec", h |-> h]
                /\ fault' = IF obj = "alive" THEN "none" ELSE "uaf"
                /\ Called(h)
           ELSE /\ run' = IF Live(h) /\ open THEN checked ELSE run
                /\ UNCHANGED <<fault, log>>
    /\ UNCHANGED <<open, obj, waits, pc, arg, ptr, ops, aborted, stops>>

\* task_->dispatch(...) or task_->next(...) behind the test.
RunCall ==
    /\ fault = "none"
    /\ run.phase = "checked"
    /\ fault' \in PointerUse
    /\ run' = IF fault' = "none" THEN [run EXCEPT !.phase = "exec"] ELSE Idle
    /\ IF fault' = "null" THEN UNCHANGED log ELSE Called(run.h)
    /\ UNCHANGED <<open, obj, strand, waits, pc, arg, ptr, ops, aborted, stops>>

\* A slot function returns.  The producer of next() hands its result to the
\* consumer with a dispatch() call of its own; task::stop() deletes the task.
RunReturn ==
    /\ fault = "none"
    /\ run.phase = "exec"
    /\ pc[Worker] = "idle"
    /\ obj' = IF run.h.kind = "stop" THEN "deleted" ELSE obj
    /\ IF run.h.kind = "next"
       THEN BeginIsOpen(Worker, [run.h EXCEPT !.kind = "consume"])
       ELSE UNCHANGED <<pc, arg>>
    /\ run' = Idle
    /\ UNCHANGED <<open, strand, waits, ptr, ops, log, aborted, stops, fault>>

----------------------------------------------------------------------------
Init ==
    /\ open = TRUE
    /\ obj = "alive"
    /\ strand = <<>>
    /\ run = Idle
    /\ waits = <<>>
    /\ pc = [t \in Threads |-> "idle"]
    /\ arg = [t \in Threads |-> StopMsg(t)]
    /\ ptr = [t \in Threads |-> FALSE]
    /\ ops = 0
    /\ log = <<>>
    /\ aborted = {}
    /\ stops = 0
    /\ fault = "none"

Next ==
    \/ \E t \in Threads :
        \/ \E slot \in Slots :
            \/ Call(t, "dispatch", slot)
            \/ Call(t, "next", slot)
            \/ Call(t, "timer", slot)
        \/ Proceed(t)
        \/ AsyncWait(t)
        \/ CancelTimer(t)
        \/ StopLoad(t)
        \/ StopCommit(t)
    \/ TimerFires
    \/ RunTake
    \/ RunCall
    \/ RunReturn

\* A call on the channel never blocks and a slot function returns, the timer
\* expires, and the pool keeps a thread on the strand while it has handlers.
\* RunReturn needs strong fairness: a slot function that calls the channel is
\* in and out of those calls before it returns.
Fairness ==
    /\ \A t \in Threads :
        /\ WF_vars(Proceed(t))
        /\ WF_vars(AsyncWait(t))
        /\ WF_vars(StopCommit(t))
    /\ WF_vars(TimerFires)
    /\ WF_vars(RunTake)
    /\ WF_vars(RunCall)
    /\ SF_vars(RunReturn)

Spec == Init /\ [][Next]_vars

\* No thread calls stop() while another one is in it.  The threads that stop
\* the channel one after the other may be any number.
StopsInTurn ==
    \A s, t \in Threads : pc[s] = "stopping" /\ pc[t] = "stopping" => s = t

\* The channel under callers that keep to it, with a fair pool.
FairTurnSpec == Init /\ [][Next /\ StopsInTurn']_vars /\ Fairness

----------------------------------------------------------------------------
(* Properties. *)

\* The strand never runs a slot function of a deleted task: task::stop()
\* deletes it between two handlers, after every handler that passed is_open().
StrandOwnsTask == run.phase \in {"checked", "exec"} => obj = "alive"

\* stop() reports success to one caller only (channel.h:134), the task sees one
\* eod, and its destructor runs once.  Calls in turn keep to it; two threads in
\* stop() at once do not, although channel.cpp:154 says "this is safe".
StopOnce ==
    /\ stops =< 1
    /\ \A i, j \in 1 .. Len(log) :
        log[i].kind = "stop" /\ log[j].kind = "stop" => i = j

\* The eod slot is the last one a task sees: what was queued behind stop(), a
\* late timer included, finds the channel closed.
SilentAfterStop ==
    \A i \in 1 .. Len(log) : log[i].kind = "stop" => i = Len(log)

\* dispatch() and next() calls of one thread reach the task in their order.
CallerFIFO ==
    \A i, j \in 1 .. Len(log) :
        /\ log[i].kind \in {"dispatch", "next"}
        /\ log[j].kind \in {"dispatch", "next"}
        /\ log[i].by = log[j].by
        /\ log[i].id < log[j].id
        => i < j

\* A message is handed to its slot at most once, and the consumer of next()
\* runs only behind its producer.
AtMostOnce ==
    \A j \in 1 .. Len(log) :
        /\ \A i \in 1 .. j - 1 : <<log[i].kind, log[i].id>> # <<log[j].kind, log[j].id>>
        /\ log[j].kind = "consume" =>
              \E i \in 1 .. j - 1 : log[i].kind = "next" /\ log[i].id = log[j].id

\* A suspend() whose wait was still on the timer when a later suspend(),
\* cancel_timer() or stop() cancelled it never calls its slot.  One whose wait
\* had completed, with the handler queued in the strand, is beyond reach and
\* does call it; but never behind the suspend() of the same thread that
\* replaced it.
CancelledNeverRuns ==
    /\ \A i \in 1 .. Len(log) : log[i].id \in aborted => log[i].kind # "timer"
    /\ \A i, j \in 1 .. Len(log) :
        /\ log[i].kind = "timer"
        /\ log[j].kind = "timer"
        /\ log[i].by = log[j].by
        /\ log[i].id < log[j].id
        => i < j

\* No task is left behind: after a successful stop() the task is deleted.
StopCompletes == stops > 0 ~> (obj = "deleted" \/ fault # "none")

\* What reached the strand or the timer of a channel that stays open is
\* delivered or cancelled.
Pending(id) ==
    \/ \E i \in 1 .. Len(strand) : strand[i].id = id /\ strand[i].ok
    \/ \E i \in 1 .. Len(waits) : waits[i].id = id

Settled(id) ==
    \/ \E i \in 1 .. Len(log) : log[i].id = id
    \/ id \in aborted
    \/ ~open
    \/ fault # "none"

Delivery == \A id \in 1 .. MaxOps : Pending(id) ~> Settled(id)

\* What the comment "thread safe access to task" (channel.cpp:37) says: no
\* thread uses the null pointer while another one stops the channel.
ThreadSafeAccess == fault # "null"
============================================================================

----------------------------- MODULE NetClient -----------------------------
(***************************************************************************)
(* cyng::net::client and the cyng::net::resolver tasks it creates.         *)
(*                                                                         *)
(* The client is a task: its slots and the completion handlers of its      *)
(* socket run one at a time on the strand of its channel.  A resolver is a *)
(* task of its own; it connects a socket and hands it to a lambda of the   *)
(* client on whatever pool thread the connection completes.  That lambda   *)
(* is two steps here, because the strand of the client runs beside it.     *)
(*                                                                         *)
(* A completion handler is bound to the object (this) and to the channel:  *)
(* it keeps the channel alive, not the task.  A handler that runs on a     *)
(* deleted task, a message freed while it is being written, a call through *)
(* the empty resolver_ and pop_front() of an empty queue are undefined     *)
(* behaviour; they end the process (fault), like an exception that leaves  *)
(* a handler.                                                              *)
(***************************************************************************)
EXTENDS Naturals, Sequences, FiniteSets

CONSTANTS
    MaxSend,        \* bound: messages the user sends
    MaxConnect,     \* bound: connects, by the user or by the reconnect timer
    MaxReceive,     \* bound: packets that arrive
    MaxEndpoints    \* bound: endpoints a name resolves to

ASSUME NetClientAssumption ==
    {MaxSend, MaxConnect, MaxReceive, MaxEndpoints} \subseteq Nat

Messages == 1 .. MaxSend
Resolvers == 1 .. MaxConnect

\* The connection made by a resolver has its number, 0 is a closed socket.
Conns == 0 .. MaxConnect

VARIABLES
    chan,       \* the client's channel: task_ is set
    task,       \* the client object
    strand,     \* handlers in the strand of the client's channel
    timer,      \* a reconnect waits for the channel's timer
    socket,     \* the connection socket_ holds
    lost,       \* the network broke the connection in socket_
    snd,        \* snd_, the write queue
    writes,     \* async_write operations in flight: connection and message
    reads,      \* per connection: async_read_some operations in flight
    resolver,   \* resolver_, the number of the resolver it refers to
    res,        \* per resolver: how far it is, and the endpoints left to try
    sent, tries, received,  \* counters for the bounds
    wire,       \* history: the messages handed to connections
    answered,   \* history: connects that ended in cb_connect_ or cb_failed_
    killed,     \* history: resolvers stopped by the lambda of another one
    notified,   \* history: the on_disconnect slot has run since the last loss
    fault       \* undefined behaviour or an exception ended the process

userVars == <<sent, tries>>
netVars == <<lost, writes, reads, received>>
histVars == <<wire, answered, killed, notified>>
vars == <<chan, task, strand, timer, socket, lost, snd, writes, reads, resolver,
          res, sent, tries, received, wire, answered, killed, notified, fault>>

----------------------------------------------------------------------------
Slots == {"connect", "send", "receive", "disconnect"}
Completions == {"read", "write"}

\* A handler in the strand: a slot call, the end of the task, or a completed
\* operation of the socket (ok: no error code).
Handler == [kind : Slots \cup Completions \cup {"eod"}, msg : Nat, ok : BOOLEAN]

Call(kind, msg) == [kind |-> kind, msg |-> msg, ok |-> TRUE]
Done(kind, ok) == [kind |-> kind, msg |-> 0, ok |-> ok]

Write == [conn : Conns, msg : Messages]

Phases == {"none", "posted", "trying", "leaving", "leavingPinned", "done"}

TypeOK ==
    /\ chan \in BOOLEAN
    /\ task \in {"alive", "deleted"}
    /\ strand \in Seq(Handler)
    /\ timer \in BOOLEAN
    /\ socket \in Conns
    /\ lost \in BOOLEAN
    /\ snd \in Seq(Messages)
    /\ writes \subseteq Write
    /\ reads \in [Conns -> Nat]
    /\ resolver \in Conns
    /\ res \in [Resolvers -> [phase : Phases, left : 0 .. MaxEndpoints]]
    /\ sent \in 0 .. MaxSend
    /\ tries \in 0 .. MaxConnect
    /\ received \in 0 .. MaxReceive
    /\ wire \in Seq(Messages)
    /\ answered \subseteq Resolvers
    /\ killed \subseteq Resolvers
    /\ notified \in BOOLEAN
    /\ fault \in {"none", "freed", "null", "empty", "thrown"}

Running == fault = "none"

Created == {r \in Resolvers : res[r].phase # "none"}

----------------------------------------------------------------------------
(* The user's threads (client_proxy). *)

\* channel::dispatch(): on a closed channel the call has no effect at all.
Dispatch(h) == chan /\ strand' = Append(strand, h)

UserConnect ==
    /\ Running
    /\ tries < MaxConnect
    /\ tries' = tries + 1
    /\ Dispatch(Call("connect", 0))
    /\ UNCHANGED <<chan, task, timer, socket, snd, resolver, res, sent, fault>>
    /\ UNCHANGED <<netVars, histVars>>

UserSend ==
    /\ Running
    /\ sent < MaxSend
    /\ sent' = sent + 1
    /\ Dispatch(Call("send", sent + 1))
    /\ UNCHANGED <<chan, task, timer, socket, snd, resolver, res, tries, fault>>
    /\ UNCHANGED <<netVars, histVars>>

\* channel::stop(): close the channel, cancel the timer, post the end.
UserStop ==
    /\ Running
    /\ chan
    /\ chan' = FALSE
    /\ timer' = FALSE
    /\ strand' = Append(strand, Call("eod", 0))
    /\ UNCHANGED <<task, socket, snd, resolver, res, fault>>
    /\ UNCHANGED <<userVars, netVars, histVars>>

\* The timer of channel::suspend() expires.
TimerFires ==
    /\ Running
    /\ timer
    /\ timer' = FALSE
    /\ strand' = Append(strand, Call("connect", 0))
    /\ UNCHANGED <<chan, task, socket, snd, resolver, res, fault>>
    /\ UNCHANGED <<userVars, netVars, histVars>>

----------------------------------------------------------------------------
(* The network. *)

\* The peer closes the connection, or it is lost.
Lose ==
    /\ Running
    /\ socket # 0
    /\ ~lost
    /\ lost' = TRUE
    /\ notified' = FALSE
    /\ UNCHANGED <<chan, task, strand, timer, socket, snd, writes, reads, resolver,
                   res, received, wire, answered, killed, fault>>
    /\ UNCHANGED userVars

Healthy(c) == c # 0 /\ c = socket /\ ~lost

\* How an operation may end.  One on a connection that was lost, closed or
\* replaced fails, or it had succeeded and only its completion is late; a
\* peer that has closed its side may also still take what is written.
Outcomes(c) ==
    CASE Healthy(c) -> {TRUE}
      [] c = 0 -> {FALSE}
      [] OTHER -> BOOLEAN

WriteEnds(op, ok) ==
    /\ Running
    /\ op \in writes
    /\ ok \in Outcomes(op.conn)
    /\ writes' = writes \ {op}
    /\ strand' = Append(strand, Done("write", ok))
    /\ UNCHANGED <<chan, task, timer, socket, snd, lost, reads, received, resolver, res, fault>>
    /\ UNCHANGED <<userVars, histVars>>

WriteDone(op) == \E ok \in BOOLEAN : WriteEnds(op, ok)

ReadEnds(c, ok) ==
    /\ Running
    /\ reads[c] > 0
    /\ ok \in Outcomes(c)
    /\ ok => received < MaxReceive
    /\ reads' = [reads EXCEPT ![c] = @ - 1]
    /\ received' = IF ok THEN received + 1 ELSE received
    /\ strand' = Append(strand, Done("read", ok))
    /\ UNCHANGED <<chan, task, timer, socket, snd, lost, writes, resolver, res, fault>>
    /\ UNCHANGED <<userVars, histVars>>

ReadDone(c) == \E ok \in BOOLEAN : ReadEnds(c, ok)

----------------------------------------------------------------------------
(* The slots and completion handlers of the client, on its strand. *)

Take(kind) ==
    /\ Running
    /\ strand # <<>>
    /\ Head(strand).kind = kind

\* The handlers of slots test is_open() when they run.
Skip(kind) ==
    /\ Take(kind)
    /\ ~chan
    /\ strand' = Tail(strand)
    /\ UNCHANGED <<chan, task, timer, socket, snd, resolver, res, fault>>
    /\ UNCHANGED <<userVars, netVars, histVars>>

\* connect(): a new resolver takes the place of the old one, and gets the
\* message that makes it connect.
Connect ==
    /\ Take("connect")
    /\ chan
    /\ strand' = Tail(strand)
    /\ LET r == Cardinality(Created) + 1
       IN  /\ resolver' = r
           /\ res' = [res EXCEPT ![r].phase = "posted"]
    /\ UNCHANGED <<chan, task, timer, socket, snd, fault>>
    /\ UNCHANGED <<userVars, netVars, histVars>>

\* do_write(): one write of the first message.  q is the queue at that time.
StartWrite(q) ==
    /\ writes' = IF chan THEN writes \cup {[conn |-> socket, msg |-> Head(q)]} ELSE writes
    /\ wire' = IF chan /\ socket # 0 THEN Append(wire, Head(q)) ELSE wire

\* Mutant: send() starts a write whether or not one is running.
FirstInAlways(q) == TRUE

\* send() found the queue empty.
FirstIn(q) == q = <<>>

Send ==
    /\ Take("send")
    /\ chan
    /\ strand' = Tail(strand)
    /\ snd' = Append(snd, Head(strand).msg)
    /\ IF FirstIn(snd)
       THEN StartWrite(snd')
       ELSE UNCHANGED <<writes, wire>>
    /\ UNCHANGED <<chan, task, timer, socket, resolver, res, lost, reads, received,
                   answered, killed, notified, fault>>
    /\ UNCHANGED userVars

\* on_receive calls the user's cb_receive only.
OnReceive ==
    /\ Take("receive")
    /\ chan
    /\ strand' = Tail(strand)
    /\ UNCHANGED <<chan, task, timer, socket, snd, resolver, res, fault>>
    /\ UNCHANGED <<userVars, netVars, histVars>>

\* on_disconnect calls the user's cb_disconnect.
OnDisconnect ==
    /\ Take("disconnect")
    /\ chan
    /\ strand' = Tail(strand)
    /\ notified' = TRUE
    /\ UNCHANGED <<chan, task, timer, socket, snd, resolver, res, wire, answered, killed, fault>>
    /\ UNCHANGED <<userVars, netVars>>

\* A completion handler finds its task deleted.
OnFreed(kind) ==
    /\ Take(kind)
    /\ task = "deleted"
    /\ fault' = "freed"
    /\ strand' = Tail(strand)
    /\ UNCHANGED <<chan, task, timer, socket, snd, resolver, res>>
    /\ UNCHANGED <<userVars, netVars, histVars>>

\* reset(): the socket is closed and the queue emptied.
Reset ==
    /\ socket' = 0
    /\ lost' = FALSE
    /\ snd' = <<>>

\* Mutant: the user is not told.
DropQuietly ==
    /\ Reset
    /\ strand' = Tail(strand)

\* The error branches of handle_write() and handle_read().
Drop ==
    /\ Reset
    /\ strand' = IF chan
                 THEN Append(Tail(strand), Call("disconnect", 0))
                 ELSE Tail(strand)

\* Mutant: handle_write() leaves the rest of the queue to the next send().
WriteNextNever(q) == UNCHANGED <<writes, wire>>

\* handle_write() goes on with the queue.
WriteNext(q) ==
    IF q # <<>> THEN StartWrite(q) ELSE UNCHANGED <<writes, wire>>

\* A message of the queue is being written.
InFlight(m) == \E op \in writes : op.msg = m

\* pop_front() takes whatever is at the head of the queue, the message of this
\* write or another one.
HandleWrite ==
    /\ Take("write")
    /\ task = "alive"
    /\ IF ~Head(strand).ok
       THEN /\ Drop
            /\ UNCHANGED <<writes, wire, fault>>
       ELSE /\ strand' = Tail(strand)
            /\ CASE snd = <<>> ->
                      /\ fault' = "empty"
                      /\ UNCHANGED <<snd, writes, wire>>
                 [] snd # <<>> /\ InFlight(Head(snd)) ->
                      /\ fault' = "freed"
                      /\ UNCHANGED <<snd, writes, wire>>
                 [] OTHER ->
                      /\ snd' = Tail(snd)
                      /\ WriteNext(snd')
                      /\ UNCHANGED fault
            /\ UNCHANGED <<socket, lost>>
    /\ UNCHANGED <<chan, task, timer, resolver, res, reads, received,
                   answered, killed, notified>>
    /\ UNCHANGED userVars

HandleRead ==
    /\ Take("read")
    /\ task = "alive"
    /\ IF ~Head(strand).ok
       THEN Drop /\ UNCHANGED reads
       ELSE /\ strand' = IF chan
                         THEN Append(Tail(strand), Call("receive", 0))
                         ELSE Tail(strand)
            /\ reads' = [reads EXCEPT ![socket] = @ + 1]
            /\ UNCHANGED <<socket, lost, snd>>
    /\ UNCHANGED <<chan, task, timer, resolver, res, writes, received, fault>>
    /\ UNCHANGED <<userVars, histVars>>

\* stop(eod), and then task::stop() deletes the client with its resolver_.
Eod ==
    /\ Take("eod")
    /\ strand' = Tail(strand)
    /\ Reset
    /\ task' = "deleted"
    /\ resolver' = 0
    /\ UNCHANGED <<chan, timer, res, writes, reads, received, fault>>
    /\ UNCHANGED <<userVars, histVars>>

----------------------------------------------------------------------------
(* The resolvers, each on its own strand or on a pool thread. *)

SetPhase(r, p) == res' = [res EXCEPT ![r] = [phase |-> p, left |-> 0]]

\* A resolver lives while the client refers to it.  The message that made it
\* connect keeps it alive as well, for as long as that handler runs.
Alive(r) == resolver = r \/ res[r].phase \in {"posted", "leavingPinned"}

\* Mutant: a failure ends the resolver without a call.
CallBackNobody(r, pinned) ==
    /\ SetPhase(r, "done")
    /\ UNCHANGED <<fault, answered, timer, tries>>

\* The lambda that connect() gave to the resolver, first half.  pinned: it is
\* called out of resolver::connect() and not out of on_connect().
CallBackFailed(r, pinned) ==
    IF task = "deleted"
    THEN /\ fault' = "freed"
         /\ UNCHANGED <<res, answered, timer, tries>>
    ELSE /\ SetPhase(r, IF pinned THEN "leavingPinned" ELSE "leaving")
         /\ answered' = answered \cup {r}
         /\ \/ /\ tries < MaxConnect    \* cb_failed_ wants a reconnect
               /\ chan
               /\ timer' = TRUE
               /\ tries' = IF timer THEN tries ELSE tries + 1
            \/ UNCHANGED <<timer, tries>>
         /\ UNCHANGED fault

\* resolver::connect(): the name does not resolve, or to no endpoint.
ResolveFails(r) ==
    /\ Running
    /\ res[r].phase = "posted"
    /\ CallBackFailed(r, TRUE)
    /\ UNCHANGED <<chan, task, strand, socket, snd, resolver, sent, wire, killed, notified>>
    /\ UNCHANGED netVars

\* connect_next(): the first endpoint.
Resolve(r, n) ==
    /\ Running
    /\ res[r].phase = "posted"
    /\ res' = [res EXCEPT ![r] = [phase |-> "trying", left |-> n]]
    /\ UNCHANGED <<chan, task, strand, timer, socket, snd, resolver, fault>>
    /\ UNCHANGED <<userVars, netVars, histVars>>

MoreEndpoints(r) == res[r].left > 1

\* on_connect() with an error: connect_next() takes the next endpoint, or gives
\* up when there is none.
ConnectFails(r) ==
    /\ Running
    /\ res[r].phase = "trying"
    /\ Alive(r)
    /\ IF MoreEndpoints(r)
       THEN /\ res' = [res EXCEPT ![r].left = @ - 1]
            /\ UNCHANGED <<fault, answered, timer, tries>>
       ELSE CallBackFailed(r, FALSE)
    /\ UNCHANGED <<chan, task, strand, socket, snd, resolver, sent, wire, killed, notified>>
    /\ UNCHANGED netVars

\* on_connect(): the lambda takes the socket, which closes the one before, and
\* starts to read.
ConnectSucceeds(r) ==
    /\ Running
    /\ res[r].phase = "trying"
    /\ Alive(r)
    /\ IF task = "deleted"
       THEN /\ fault' = "freed"
            /\ UNCHANGED <<res, answered, socket, lost, reads, notified>>
       ELSE /\ SetPhase(r, "leaving")
            /\ answered' = answered \cup {r}
            /\ socket' = r
            /\ lost' = FALSE
            /\ reads' = [reads EXCEPT ![r] = @ + 1]
            /\ notified' = FALSE
            /\ UNCHANGED fault
    /\ UNCHANGED <<chan, task, strand, timer, snd, writes, received, resolver, wire, killed>>
    /\ UNCHANGED userVars

\* The peer has already gone: remote_endpoint() throws, and nothing between the
\* lambda and the pool thread catches it.
ConnectThrows(r) ==
    /\ Running
    /\ res[r].phase = "trying"
    /\ Alive(r)
    /\ task = "alive"
    /\ fault' = "thrown"
    /\ UNCHANGED <<chan, task, strand, timer, socket, snd, resolver, res>>
    /\ UNCHANGED <<userVars, netVars, histVars>>

\* on_connect() of a resolver that is gone: its socket was destroyed with it.
OnConnectFreed(r) ==
    /\ Running
    /\ res[r].phase = "trying"
    /\ ~Alive(r)
    /\ fault' = "freed"
    /\ UNCHANGED <<chan, task, strand, timer, socket, snd, resolver, res>>
    /\ UNCHANGED <<userVars, netVars, histVars>>

\* The lambda, second half: resolver_->stop(), resolver_.reset().  A resolver
\* that is stopped with its message still queued never runs it.
Leave(r) ==
    /\ Running
    /\ res[r].phase \in {"leaving", "leavingPinned"}
    /\ CASE task = "deleted" \/ ~Alive(r) ->
              /\ fault' = "freed"
              /\ UNCHANGED <<resolver, res, killed>>
         [] task = "alive" /\ Alive(r) /\ resolver = 0 ->
              /\ fault' = "null"
              /\ UNCHANGED <<resolver, res, killed>>
         [] OTHER ->
              LET stopped == {q \in {resolver} \ {r} : res[q].phase = "posted"} IN
              /\ resolver' = 0
              /\ res' = [q \in Resolvers |->
                           IF q \in stopped \cup {r} THEN [res[q] EXCEPT !.phase = "done"]
                           ELSE res[q]]
              /\ killed' = killed \cup stopped
              /\ UNCHANGED fault
    /\ UNCHANGED <<chan, task, strand, timer, socket, snd, wire, answered, notified>>
    /\ UNCHANGED <<userVars, netVars>>

----------------------------------------------------------------------------
Init ==
    /\ chan = TRUE
    /\ task = "alive"
    /\ strand = <<>>
    /\ timer = FALSE
    /\ socket = 0
    /\ lost = FALSE
    /\ snd = <<>>
    /\ writes = {}
    /\ reads = [c \in Conns |-> 0]
    /\ resolver = 0
    /\ res = [r \in Resolvers |-> [phase |-> "none", left |-> 0]]
    /\ sent = 0
    /\ tries = 0
    /\ received = 0
    /\ wire = <<>>
    /\ answered = {}
    /\ killed = {}
    /\ notified = FALSE
    /\ fault = "none"

User == UserConnect \/ UserSend \/ UserStop \/ TimerFires

Network ==
    \/ Lose
    \/ \E op \in writes : WriteDone(op)
    \/ \E c \in Conns : ReadDone(c)

Strand ==
    \/ \E kind \in Slots : Skip(kind)
    \/ Connect
    \/ Send
    \/ OnReceive
    \/ OnDisconnect
    \/ \E kind \in Completions : OnFreed(kind)
    \/ HandleWrite
    \/ HandleRead
    \/ Eod

Resolving(r) ==
    \/ ResolveFails(r)
    \/ \E n \in 1 .. MaxEndpoints : Resolve(r, n)
    \/ ConnectFails(r)
    \/ ConnectSucceeds(r)
    \/ ConnectThrows(r)
    \/ OnConnectFreed(r)
    \/ Leave(r)

Next == User \/ Network \/ Strand \/ \E r \in Resolvers : Resolving(r)

\* The pool runs the strand and the resolvers, the timer expires, and the
\* operating system completes what was started.  Nothing makes the user call,
\* a packet arrive or a connection break.
Fairness ==
    /\ WF_vars(TimerFires)
    /\ WF_vars(Strand)
    /\ WF_vars(\E op \in writes : WriteDone(op))
    /\ WF_vars(\E c \in Conns : ~Healthy(c) /\ ReadDone(c))
    /\ WF_vars(\E r \in Resolvers : Resolving(r))

Spec == Init /\ [][Next]_vars

FairSpec == Spec /\ Fairness

----------------------------------------------------------------------------
(* Properties. *)

\* The queue never stalls: while it holds a message a write is in flight or its
\* handler is queued, because send() writes only into an empty queue.
NoStall ==
    Running /\ chan /\ snd # <<>> =>
        \/ writes # {}
        \/ \E i \in 1 .. Len(strand) : strand[i].kind = "write"

\* The messages reach the connections in the order of the send() calls, and
\* none of them twice: neither on one connection nor again on the next one.
WireOrder == \A i, j \in 1 .. Len(wire) : i < j => wire[i] < wire[j]

\* The loss of a connection is reported to the user by an on_disconnect that
\* runs behind it, unless the client is stopped, a new connection takes the
\* place of the lost one first, or the process ends (fault).
LossReported ==
    lost ~> (notified \/ ~chan \/ ~Running \/ (socket # 0 /\ ~lost))

\* Every connect is answered, by cb_connect_ or by cb_failed_, however many
\* endpoints fail, unless the client is stopped, the process ends, or its
\* resolver is stopped by the lambda of the one before, which stops whatever
\* resolver_ refers to by then: a user who connects again without waiting can
\* bring that about, and so can the client's own reconnect when its timer is
\* faster than the rest of the lambda that started it.
ConnectAnswered ==
    \A r \in Resolvers :
        (res[r].phase = "posted") ~> (r \in answered \cup killed \/ ~chan \/ ~Running)

\* What BOOST_ASSERT(!snd_.empty()) in handle_write() says (client.hpp:164): a
\* write that succeeded still has its message at the head of the queue.
WrittenIsQueued == fault # "empty"
============================================================================

--------------------------- MODULE ChannelMailbox ---------------------------
(***************************************************************************)
(* A channel is a mailbox: the refinement mapping from the strand, the     *)
(* timer and the pointer of Channel to the box of Mailbox.                 *)
(***************************************************************************)
EXTENDS Channel

NoMessage == StopMsg(Worker)

\* What can still call a slot: handlers on the strand and waits on the timer.
\* The handler that ends the task and aborted waits are no messages.
IsMessage(h) == h.kind # "stop" /\ h.ok

WaitingMessages ==
    {h \in {strand[i] : i \in 1 .. Len(strand)} : IsMessage(h)}
        \cup {waits[i] : i \in 1 .. Len(waits)}

HandledMessages == {h \in {log[i] : i \in 1 .. Len(log)} : IsMessage(h)}

\* The messages a channel accepts.
AllMessages ==
    [kind : Kinds \ {"stop"}, id : Ids \ {0}, by : Threads,
     slot : {s \in Slots : s < SigCount}, ok : {TRUE}]

Box == INSTANCE Mailbox WITH
    Messages <- AllMessages,
    None <- NoMessage,
    waiting <- IF fault = "none" THEN WaitingMessages ELSE {},
    hand <- IF fault = "none" /\ run.phase = "checked" THEN run.h ELSE NoMessage,
    delivered <- HandledMessages,
    closed <- ~open,
    ended <- \E i \in 1 .. Len(log) : log[i].kind = "stop",
    crashed <- fault # "none"

\* Whatever its threads do, a channel that no two threads stop at once behaves
\* like the mailbox: what is sent is handled at most once and in the order of its
\* sender, timers can be called back, nothing follows the end, and a crash
\* needs a stop().
IsMailbox == Box!Spec

\* And with a fair pool and fair callers it handles what it accepted.
IsFairMailbox == Box!FairSpec
============================================================================

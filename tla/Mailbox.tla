------------------------------ MODULE Mailbox ------------------------------
(***************************************************************************)
(* What a cyng::channel promises the threads that use it, without strands, *)
(* handlers, timers and pointers: a box of accepted messages from which    *)
(* the task takes one after the other.                                     *)
(*                                                                         *)
(* Messages of one sender are taken in the order they were sent, the       *)
(* consumer of a next() behind its producer, a timer message whenever it   *)
(* is due.  stop() closes the box: what is in the task's hand is still     *)
(* handled, what waits is lost, and then the task ends.  A process that    *)
(* uses the channel while another thread stops it may crash.               *)
(***************************************************************************)
EXTENDS Naturals

CONSTANTS
    Messages,   \* records with the fields kind, id and by
    None        \* the empty hand

VARIABLES
    waiting,    \* messages accepted and not yet taken
    hand,       \* the message the task is about to handle
    delivered,  \* messages handled
    closed,     \* stop() was successful
    ended,      \* the task got its last message
    crashed     \* the process is gone

box == <<waiting, hand, delivered, closed, ended, crashed>>

Ordered(m) == m.kind \in {"dispatch", "next"}

SameSender(m, n) == m.by = n.by /\ m.kind # "consume" /\ n.kind # "consume"

\* Message numbers of a sender grow; a consumer's number is its producer's.
Fresh(m) ==
    LET known == waiting \cup delivered \cup ({hand} \ {None}) IN
    /\ \A n \in known : n # m /\ (SameSender(m, n) => n.id < m.id)
    /\ m.kind = "consume" => \E n \in delivered : n.kind = "next" /\ n.id = m.id

\* A message may slip in behind stop(): it is accepted and lost.
Send(m) ==
    /\ ~crashed
    /\ m \notin waiting
    /\ Fresh(m)
    /\ waiting' = waiting \cup {m}
    /\ UNCHANGED <<hand, delivered, closed, ended, crashed>>

\* Only timer messages can be called back.
Cancel(S) ==
    /\ ~crashed
    /\ S # {}
    /\ \A m \in S : m.kind = "timer"
    /\ waiting' = waiting \ S
    /\ UNCHANGED <<hand, delivered, closed, ended, crashed>>

Oldest(m) == \A n \in waiting : Ordered(m) /\ Ordered(n) /\ m.by = n.by => m.id <= n.id

Take(m) ==
    /\ ~crashed
    /\ ~closed
    /\ hand = None
    /\ Oldest(m)
    /\ hand' = m
    /\ waiting' = waiting \ {m}
    /\ UNCHANGED <<delivered, closed, ended, crashed>>

Deliver ==
    /\ ~crashed
    /\ hand # None
    /\ delivered' = delivered \cup {hand}
    /\ hand' = None
    /\ UNCHANGED <<waiting, closed, ended, crashed>>

\* Closing the box calls back the timers that are not yet due.
Close(S) ==
    /\ ~crashed
    /\ ~closed
    /\ \A m \in S : m.kind = "timer"
    /\ closed' = TRUE
    /\ waiting' = waiting \ S
    /\ UNCHANGED <<hand, delivered, ended, crashed>>

Lose(m) ==
    /\ ~crashed
    /\ closed
    /\ waiting' = waiting \ {m}
    /\ UNCHANGED <<hand, delivered, closed, ended, crashed>>

End ==
    /\ ~crashed
    /\ closed
    /\ ~ended
    /\ hand = None
    /\ ended' = TRUE
    /\ UNCHANGED <<waiting, hand, delivered, closed, crashed>>

Crash ==
    /\ ~crashed
    /\ closed
    /\ crashed' = TRUE
    /\ waiting' = {}
    /\ hand' = None
    /\ UNCHANGED <<delivered, closed, ended>>

Init ==
    /\ waiting = {}
    /\ hand = None
    /\ delivered = {}
    /\ closed = FALSE
    /\ ended = FALSE
    /\ crashed = FALSE

Next ==
    \/ Deliver
    \/ End
    \/ Crash
    \/ \E m \in waiting : Take(m) \/ Lose(m)
    \/ \E S \in SUBSET waiting : Cancel(S) \/ Close(S)
    \/ \E m \in Messages : Send(m)

\* The stuttering step is written out: it is the first one TLC tries.
Spec == Init /\ [][UNCHANGED box \/ Next]_box

\* The task does not stop to take messages, and it ends when it was stopped.
FairSpec ==
    /\ Spec
    /\ WF_box(\E m \in waiting : Take(m))
    /\ WF_box(Deliver)
    /\ WF_box(End)
============================================================================

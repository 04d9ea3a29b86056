--------------------------- MODULE ChannelProofs ---------------------------
(***************************************************************************)
(* Proofs about Channel, for any number of threads, slots and messages.    *)
(***************************************************************************)
EXTENDS Channel, TLAPS, SequenceTheorems

----------------------------------------------------------------------------
(* Facts about the queues. *)

\* Cancelling the waits yields a sequence of handlers of the same length, none
\* of which is a handler posted by stop().
LEMMA AbortedWaitsType ==
    ASSUME TypeOK
    PROVE  /\ AbortedWaits \in Seq(Handler)
           /\ Len(AbortedWaits) = Len(waits)
           /\ \A i \in 1 .. Len(waits) : AbortedWaits[i].kind = "timer"
<1>1. \A i \in 1 .. Len(waits) : waits[i] \in Handler /\ waits[i].kind = "timer"
  BY DEF TypeOK
<1>2. \A i \in 1 .. Len(waits) : Abort(waits[i]) \in Handler /\ Abort(waits[i]).kind = "timer"
  BY <1>1 DEF Abort, Handler
<1>3. Len(waits) \in Nat
  BY DEF TypeOK
<1>. QED
  BY <1>2, <1>3 DEF AbortedWaits

----------------------------------------------------------------------------
(* The inductive invariant. *)

\* A call in progress carries a message, never the handler of stop(), and only
\* suspend() waits for the timer.
ArgOK ==
    \A t \in Threads :
        /\ pc[t] \in {"checked", "wait"} => arg[t].kind # "stop"
        /\ pc[t] = "wait" => arg[t].kind = "timer"
        /\ arg[t].kind = "timer" => arg[t].ok

TypeInv == TypeOK /\ ArgOK

StopRunning == run.phase = "exec" /\ run.h.kind = "stop"

\* The life of the handler that ends the task.  It is posted by the thread that
\* cleared task_, it is alone, it finds the task alive, and while it waits or
\* runs the channel is closed.
OpenInv == open => obj = "alive" /\ stops = 0

StopperInv ==
    \A t \in Threads : pc[t] = "stopping" => t \in Stoppers /\ (ptr[t] => open)

QueueInv ==
    \A i \in 1 .. Len(strand) : strand[i].kind = "stop" =>
        /\ ~open
        /\ obj = "alive"
        /\ ~StopRunning
        /\ \A j \in 1 .. Len(strand) : strand[j].kind = "stop" => i = j

RunInv ==
    /\ StrandOwnsTask
    /\ run.phase = "checked" => run.h.kind # "stop"
    /\ StopRunning => ~open

LogInv ==
    \A i \in 1 .. Len(log) : log[i].kind = "stop" =>
        /\ i = Len(log)
        /\ ~open
        /\ obj = "alive" => StopRunning
        /\ \A j \in 1 .. Len(strand) : strand[j].kind # "stop"

StopInv ==
    /\ stops =< 1
    /\ OpenInv
    /\ StopperInv
    /\ QueueInv
    /\ RunInv
    /\ LogInv

----------------------------------------------------------------------------
(* Type correctness. *)

LEMMA MsgType ==
    ASSUME NEW kind \in Kinds, NEW id \in Ids, NEW t \in Threads, NEW slot \in Nat
    PROVE  /\ Msg(kind, id, t, slot) \in Handler
           /\ Msg(kind, id, t, slot).kind = kind
           /\ Msg(kind, id, t, slot).ok = TRUE
BY DEF Msg, Handler

LEMMA StopMsgType ==
    ASSUME NEW t \in Threads
    PROVE  StopMsg(t) \in Handler /\ StopMsg(t).kind = "stop"
<1>1. 0 \in Ids
  BY ChannelAssumption DEF Ids
<1>. QED
  BY <1>1 DEF StopMsg, Msg, Handler, Kinds

LEMMA WorkerIsThread == Worker \in Threads
BY DEF Threads

\* Cancelling keeps the queues well typed.
LEMMA CancelType ==
    ASSUME TypeOK, NEW rest \in Seq(Handler), CancelWaits(rest)
    PROVE  /\ strand' \in Seq(Handler)
           /\ waits' \in Seq({h \in Handler : h.kind = "timer" /\ h.ok})
           /\ aborted' \subseteq Ids
<1>1. CASE CancelAll(rest)
  <2>1. strand \o AbortedWaits \in Seq(Handler)
    BY AbortedWaitsType, ConcatProperties DEF TypeOK
  <2>2. (strand \o AbortedWaits) \o rest \in Seq(Handler)
    BY <2>1, ConcatProperties
  <2>3. \A i \in 1 .. Len(waits) : waits[i].id \in Ids
    BY DEF TypeOK, Handler
  <2>4. strand' \in Seq(Handler)
    BY <1>1, <2>2 DEF CancelAll
  <2>5. waits' \in Seq({h \in Handler : h.kind = "timer" /\ h.ok})
    BY <1>1, EmptySeq DEF CancelAll
  <2>6. aborted' \subseteq Ids
    BY <1>1, <2>3 DEF CancelAll, TypeOK
  <2>. QED
    BY <2>4, <2>5, <2>6
<1>2. CASE CancelMisses(rest)
  <2>1. strand \o rest \in Seq(Handler)
    BY ConcatProperties DEF TypeOK
  <2>. QED
    BY <1>2, <2>1 DEF CancelMisses, TypeOK
<1>. QED
  BY <1>1, <1>2 DEF CancelWaits

\* A first half of is_open(slot) keeps positions and messages well typed.
LEMMA BeginIsOpenType ==
    ASSUME TypeInv, NEW t \in Threads, NEW m \in Handler,
           m.kind # "stop", m.kind = "timer" => m.ok, pc[t] = "idle",
           BeginIsOpen(t, m)
    PROVE  /\ pc' \in [Threads -> {"idle", "checked", "wait", "stopping"}]
           /\ arg' \in [Threads -> Handler]
           /\ ArgOK'
<1>. USE DEF TypeInv, TypeOK, ArgOK, BeginIsOpen
<1>1. CASE open
  BY <1>1
<1>2. CASE ~open
  BY <1>2
<1>. QED
  BY <1>1, <1>2

LEMMA TypeInit == Init => TypeInv
<1>. SUFFICES ASSUME Init PROVE TypeInv
  OBVIOUS
<1>1. Idle \in [phase : {"idle", "checked", "exec"}, h : Handler]
  BY StopMsgType, WorkerIsThread DEF Idle
<1>2. arg \in [Threads -> Handler] /\ \A t \in Threads : arg[t].kind = "stop"
  BY StopMsgType DEF Init
<1>3. ArgOK
  BY <1>2 DEF Init, ArgOK
<1>4. 0 \in Ids
  BY ChannelAssumption DEF Ids
<1>5. <<>> \in Seq(Handler) /\ <<>> \in Seq({h \in Handler : h.kind = "timer" /\ h.ok})
  BY EmptySeq
<1>. QED
  BY <1>1, <1>2, <1>3, <1>4, <1>5 DEF Init, TypeInv, TypeOK

LEMMA TypeStep == TypeInv /\ [Next]_vars => TypeInv'
<1>. SUFFICES ASSUME TypeInv, [Next]_vars PROVE TypeInv'
  OBVIOUS
<1>0. TypeOK /\ ArgOK
  BY DEF TypeInv
<1>1. ASSUME NEW t \in Threads, NEW slot \in Slots, NEW kind \in {"dispatch", "next", "timer"},
             Call(t, kind, slot)
      PROVE  TypeInv'
  <2>1. ops + 1 \in Ids
    BY <1>0, <1>1, ChannelAssumption DEF Call, TypeOK, Ids
  <2>2. slot \in Nat /\ kind \in Kinds
    BY ChannelAssumption DEF Kinds
  <2>3. /\ Msg(kind, ops + 1, t, slot) \in Handler
        /\ Msg(kind, ops + 1, t, slot).kind = kind
        /\ Msg(kind, ops + 1, t, slot).ok = TRUE
    BY <2>1, <2>2, MsgType
  <2>4. BeginIsOpen(t, Msg(kind, ops + 1, t, slot)) /\ pc[t] = "idle"
    BY <1>1 DEF Call, CanCall
  <2>5. /\ pc' \in [Threads -> {"idle", "checked", "wait", "stopping"}]
        /\ arg' \in [Threads -> Handler]
        /\ ArgOK'
    BY <2>3, <2>4, BeginIsOpenType
  <2>. QED
    BY <1>0, <1>1, <2>1, <2>5 DEF Call, TypeInv, TypeOK
<1>2. ASSUME NEW t \in Threads, Proceed(t)
      PROVE  TypeInv'
  <2>1. /\ fault' \in PointerUse
        /\ IF fault' # "none" \/ arg[t].slot >= SigCount
           THEN /\ pc' = [pc EXCEPT ![t] = "idle"]
                /\ UNCHANGED <<strand, waits, aborted>>
           ELSE IF arg[t].kind = "timer"
                THEN /\ pc' = [pc EXCEPT ![t] = "wait"]
                     /\ CancelWaits(<<>>)
                ELSE /\ pc' = [pc EXCEPT ![t] = "idle"]
                     /\ Post(arg[t])
                     /\ UNCHANGED <<waits, aborted>>
    BY <1>2 DEF Proceed
  <2>2. fault' \in {"none", "null", "uaf"}
    BY <2>1 DEF PointerUse
  <2>3. /\ pc' \in [Threads -> {"idle", "checked", "wait", "stopping"}]
        /\ arg' = arg
        /\ ArgOK'
    BY <1>0, <1>2, <2>1 DEF Proceed, TypeOK, ArgOK
  <2>4. /\ strand' \in Seq(Handler)
        /\ waits' \in Seq({h \in Handler : h.kind = "timer" /\ h.ok})
        /\ aborted' \subseteq Ids
    <3>1. CASE UNCHANGED <<strand, waits, aborted>>
      BY <1>0, <3>1 DEF TypeOK
    <3>2. CASE CancelWaits(<<>>)
      <4>. <<>> \in Seq(Handler)
        BY EmptySeq
      <4>. QED
        BY <1>0, <3>2, CancelType
    <3>3. CASE Post(arg[t]) /\ UNCHANGED <<waits, aborted>>
      BY <1>0, <3>3 DEF TypeOK, Post
    <3>. QED
      BY <2>1, <3>1, <3>2, <3>3
  <2>. QED
    BY <1>0, <1>2, <2>2, <2>3, <2>4 DEF Proceed, TypeInv, TypeOK
<1>3. ASSUME NEW t \in Threads, AsyncWait(t)
      PROVE  TypeInv'
  <2>1. arg[t] \in {h \in Handler : h.kind = "timer" /\ h.ok}
    BY <1>0, <1>3 DEF AsyncWait, TypeOK, ArgOK
  <2>2. waits' \in Seq({h \in Handler : h.kind = "timer" /\ h.ok})
    BY <1>0, <1>3, <2>1, AppendProperties DEF AsyncWait, TypeOK
  <2>3. ArgOK'
    BY <1>0, <1>3 DEF AsyncWait, TypeOK, ArgOK
  <2>. QED
    BY <1>0, <1>3, <2>2, <2>3 DEF AsyncWait, TypeInv, TypeOK
<1>4. ASSUME NEW t \in Threads, CancelTimer(t)
      PROVE  TypeInv'
  <2>1. <<>> \in Seq(Handler)
    BY EmptySeq
  <2>2. /\ strand' \in Seq(Handler)
        /\ waits' \in Seq({h \in Handler : h.kind = "timer" /\ h.ok})
        /\ aborted' \subseteq Ids
    BY <1>0, <1>4, <2>1, CancelType DEF CancelTimer
  <2>3. ArgOK'
    BY <1>0, <1>4 DEF CancelTimer, ArgOK
  <2>. QED
    BY <1>0, <1>4, <2>2, <2>3 DEF CancelTimer, TypeInv, TypeOK
<1>5. ASSUME NEW t \in Threads, StopLoad(t)
      PROVE  TypeInv'
  BY <1>0, <1>5 DEF StopLoad, TypeInv, TypeOK, ArgOK
<1>6. ASSUME NEW t \in Threads, StopCommit(t)
      PROVE  TypeInv'
  <2>1. StopPosts(t) \in Seq(Handler)
    BY StopMsgType DEF StopPosts
  <2>2. /\ strand' \in Seq(Handler)
        /\ waits' \in Seq({h \in Handler : h.kind = "timer" /\ h.ok})
        /\ aborted' \subseteq Ids
        /\ stops' \in Nat
    <3>1. CASE ptr[t]
      BY <1>0, <1>6, <2>1, <3>1, CancelType DEF StopCommit, TypeOK
    <3>2. CASE ~ptr[t]
      BY <1>0, <1>6, <3>2 DEF StopCommit, TypeOK
    <3>. QED
      BY <3>1, <3>2
  <2>3. ArgOK' /\ pc' \in [Threads -> {"idle", "checked", "wait", "stopping"}]
    BY <1>0, <1>6 DEF StopCommit, TypeOK, ArgOK
  <2>. QED
    BY <1>0, <1>6, <2>2, <2>3 DEF StopCommit, ClearPointer, TypeInv, TypeOK
<1>7. CASE TimerFires
  <2>1. waits \in Seq(Handler)
    <3>. {h \in Handler : h.kind = "timer" /\ h.ok} \subseteq Handler
      OBVIOUS
    <3>. QED
      BY <1>0, SeqMonotonic DEF TypeOK
  <2>2. strand \o waits \in Seq(Handler)
    BY <1>0, <2>1, ConcatProperties DEF TypeOK
  <2>3. <<>> \in Seq({h \in Handler : h.kind = "timer" /\ h.ok})
    BY EmptySeq
  <2>4. ArgOK'
    BY <1>0, <1>7 DEF TimerFires, ArgOK
  <2>. QED
    BY <1>0, <1>7, <2>2, <2>3, <2>4 DEF TimerFires, TypeInv, TypeOK
<1>8. CASE RunTake
  <2>1. Head(strand) \in Handler /\ Tail(strand) \in Seq(Handler)
    BY <1>0, <1>8, HeadTailProperties DEF RunTake, TypeOK
  <2>2. /\ run' \in [phase : {"idle", "checked", "exec"}, h : Handler]
        /\ fault' \in {"none", "null", "uaf"}
        /\ log' \in Seq(Handler)
    <3>. DEFINE h == Head(strand)
    <3>1. Append(log, h) \in Seq(Handler)
      BY <1>0, <2>1, AppendProperties DEF TypeOK
    <3>2. CASE h.kind = "stop"
      <4>1. run' = [phase |-> "exec", h |-> h] /\ log' = Append(log, h)
        BY <1>8, <3>2 DEF RunTake, Called
      <4>2. fault' \in {"none", "null", "uaf"}
        BY <1>8, <3>2 DEF RunTake
      <4>. QED
        BY <2>1, <3>1, <4>1, <4>2
    <3>3. CASE h.kind # "stop"
      <4>1. run' = [phase |-> "checked", h |-> h] \/ run' = run
        BY <1>8, <3>3 DEF RunTake
      <4>2. fault' \in {"none", "null", "uaf"} /\ log' = log
        BY <1>8, <3>3 DEF RunTake
      <4>. QED
        BY <1>0, <2>1, <4>1, <4>2 DEF TypeOK
    <3>. QED
      BY <3>2, <3>3
  <2>3. ArgOK'
    BY <1>0, <1>8 DEF RunTake, ArgOK
  <2>. QED
    BY <1>0, <1>8, <2>1, <2>2, <2>3 DEF RunTake, TypeInv, TypeOK
<1>9. CASE RunCall
  <2>1. Idle \in [phase : {"idle", "checked", "exec"}, h : Handler]
    BY StopMsgType, WorkerIsThread DEF Idle
  <2>2. [run EXCEPT !.phase = "exec"] \in [phase : {"idle", "checked", "exec"}, h : Handler]
    BY <1>0 DEF TypeOK
  <2>3. run.h \in Handler
    BY <1>0 DEF TypeOK
  <2>4. /\ run' \in [phase : {"idle", "checked", "exec"}, h : Handler]
        /\ fault' \in {"none", "null", "uaf"}
        /\ log' \in Seq(Handler)
    <3>1. Append(log, run.h) \in Seq(Handler)
      BY <1>0, <2>3, AppendProperties DEF TypeOK
    <3>2. run' = [run EXCEPT !.phase = "exec"] \/ run' = Idle
      BY <1>9 DEF RunCall
    <3>3. log' = Append(log, run.h) \/ log' = log
      BY <1>9 DEF RunCall, Called
    <3>4. fault' \in {"none", "null", "uaf"}
      BY <1>9 DEF RunCall, PointerUse
    <3>. QED
      BY <1>0, <2>1, <2>2, <3>1, <3>2, <3>3, <3>4 DEF TypeOK
  <2>5. ArgOK'
    BY <1>0, <1>9 DEF RunCall, ArgOK
  <2>. QED
    BY <1>0, <1>9, <2>4, <2>5 DEF RunCall, TypeInv, TypeOK
<1>10. CASE RunReturn
  <2>1. Idle \in [phase : {"idle", "checked", "exec"}, h : Handler]
    BY StopMsgType, WorkerIsThread DEF Idle
  <2>2. run.h \in Handler
    BY <1>0 DEF TypeOK
  <2>3. /\ [run.h EXCEPT !.kind = "consume"] \in Handler
        /\ [run.h EXCEPT !.kind = "consume"].kind = "consume"
    BY <2>2 DEF Handler, Kinds
  <2>4. /\ pc' \in [Threads -> {"idle", "checked", "wait", "stopping"}]
        /\ arg' \in [Threads -> Handler]
        /\ ArgOK'
    <3>1. CASE run.h.kind = "next"
      <4>. DEFINE m == [run.h EXCEPT !.kind = "consume"]
      <4>1. BeginIsOpen(Worker, m) /\ pc[Worker] = "idle"
        BY <1>10, <3>1 DEF RunReturn
      <4>2. m \in Handler /\ m.kind # "stop" /\ m.kind # "timer"
        BY <2>3
      <4>. HIDE DEF m
      <4>. QED
        BY <4>1, <4>2, WorkerIsThread, BeginIsOpenType
    <3>2. CASE run.h.kind # "next"
      BY <1>0, <1>10, <3>2 DEF RunReturn, TypeOK, ArgOK
    <3>. QED
      BY <3>1, <3>2
  <2>. QED
    BY <1>0, <1>10, <2>1, <2>4 DEF RunReturn, TypeInv, TypeOK
<1>11. CASE UNCHANGED vars
  BY <1>0, <1>11 DEF vars, TypeInv, TypeOK, ArgOK
<1>. QED
  BY <1>1, <1>2, <1>3, <1>4, <1>5, <1>6, <1>7, <1>8, <1>9, <1>10, <1>11 DEF Next

\* Type correctness of the channel, for any number of threads, stoppers, slots
\* and messages.
THEOREM TypeCorrect == Spec => []TypeOK
<1>1. TypeInv => TypeOK
  BY DEF TypeInv
<1>. QED
  BY TypeInit, TypeStep, <1>1, PTL DEF Spec

----------------------------------------------------------------------------
(* The handler of stop(). *)

\* The step brings no handler of stop() into the strand and moves none.
Kept ==
    \A i \in 1 .. Len(strand') : strand'[i].kind = "stop" =>
        i \in 1 .. Len(strand) /\ strand[i].kind = "stop"

LEMMA KeptByPost ==
    ASSUME TypeOK, NEW h \in Handler, h.kind # "stop", Post(h)
    PROVE  Kept
<1>1. strand \in Seq(Handler)
  BY DEF TypeOK
<1>2. /\ Len(strand') = Len(strand) + 1
      /\ Len(strand) \in Nat
      /\ \A i \in 1 .. Len(strand) : strand'[i] = strand[i]
      /\ strand'[Len(strand) + 1] = h
  BY <1>1, AppendProperties DEF Post
<1>. QED
  BY <1>2 DEF Kept

LEMMA KeptByConcat ==
    ASSUME TypeOK, NEW q \in Seq(Handler), \A i \in 1 .. Len(q) : q[i].kind # "stop",
           strand' = strand \o q
    PROVE  Kept
<1>1. strand \in Seq(Handler)
  BY DEF TypeOK
<1>2. /\ Len(strand) \in Nat
      /\ Len(q) \in Nat
      /\ Len(strand') = Len(strand) + Len(q)
      /\ \A i \in 1 .. Len(strand) + Len(q) : strand'[i] =
            IF i <= Len(strand) THEN strand[i] ELSE q[i - Len(strand)]
  BY <1>1, ConcatProperties, LenProperties
<1>3. \A i \in 1 .. Len(strand) + Len(q) :
        i <= Len(strand) \/ i - Len(strand) \in 1 .. Len(q)
  BY <1>2
<1>. QED
  BY <1>2, <1>3 DEF Kept

LEMMA KeptByCancel ==
    ASSUME TypeOK, CancelWaits(<<>>)
    PROVE  Kept
<1>1. CASE CancelAll(<<>>)
  <2>1. strand \o AbortedWaits \in Seq(Handler)
    BY AbortedWaitsType, ConcatProperties DEF TypeOK
  <2>2. strand' = strand \o AbortedWaits
    BY <1>1, <2>1, ConcatEmptySeq DEF CancelAll
  <2>. QED
    BY <2>2, AbortedWaitsType, KeptByConcat
<1>2. CASE CancelMisses(<<>>)
  <2>1. strand' = strand
    BY <1>2, ConcatEmptySeq DEF CancelMisses, TypeOK
  <2>. QED
    BY <2>1 DEF Kept
<1>. QED
  BY <1>1, <1>2 DEF CancelWaits

\* Steps that leave the task, the running handler and the history alone.
LEMMA QuietStep ==
    ASSUME StopInv, Kept, UNCHANGED <<open, obj, run, log, stops>>, StopperInv'
    PROVE  StopInv'
<1>1. QueueInv' /\ LogInv'
  BY DEF StopInv, QueueInv, LogInv, Kept, StopRunning
<1>. QED
  BY <1>1 DEF StopInv, OpenInv, RunInv, StopRunning, StrandOwnsTask

LEMMA StopInit == Init => StopInv
BY DEF Init, StopInv, OpenInv, StopperInv, QueueInv, RunInv, LogInv, StopRunning,
       StrandOwnsTask, Idle

\* stop() posts its handler behind everything else.
LEMMA StopCommitStep ==
    ASSUME StopsInTurn, TypeInv, StopInv, NEW t \in Threads, StopCommit(t)
    PROVE  StopInv'
<1>. USE DEF StopInv
<1>0. TypeOK
  BY DEF TypeInv
<1>1. /\ open' = FALSE /\ obj' = obj /\ run' = run /\ log' = log /\ ptr' = ptr
      /\ pc' = [pc EXCEPT ![t] = "idle"] /\ t \in Stoppers /\ (ptr[t] => open)
  BY DEF StopCommit, ClearPointer, StopperInv
<1>2. StopperInv'
  <2>1. \A u \in Threads : pc'[u] # "stopping"
    BY <1>0, <1>1 DEF StopCommit, StopsInTurn, TypeOK
  <2>. QED
    BY <2>1 DEF StopperInv
<1>3. CASE ~ptr[t]
  <2>1. strand' = strand /\ stops' = stops
    BY <1>3 DEF StopCommit
  <2>2. QueueInv' /\ LogInv'
    BY <1>1, <2>1 DEF QueueInv, LogInv, StopRunning
  <2>3. RunInv' /\ OpenInv'
    BY <1>1 DEF RunInv, OpenInv, StrandOwnsTask, StopRunning
  <2>. QED
    BY <1>2, <2>1, <2>2, <2>3
<1>4. CASE ptr[t]
  <2>1. /\ open /\ obj = "alive" /\ stops = 0 /\ ~StopRunning
        /\ \A i \in 1 .. Len(strand) : strand[i].kind # "stop"
        /\ \A i \in 1 .. Len(log) : log[i].kind # "stop"
    BY <1>1, <1>4 DEF OpenInv, RunInv, QueueInv, LogInv
  <2>2. stops' = 1
    BY <1>4, <2>1 DEF StopCommit
  <2>. DEFINE all == strand \o AbortedWaits
              q == IF CancelAll(StopPosts(t)) THEN all ELSE strand
  <2>3. /\ all \in Seq(Handler)
        /\ Len(all) \in Nat
        /\ \A i \in 1 .. Len(all) : all[i].kind # "stop"
    <3>1. strand \in Seq(Handler) /\ AbortedWaits \in Seq(Handler)
      BY <1>0, AbortedWaitsType DEF TypeOK
    <3>2. /\ all \in Seq(Handler)
          /\ Len(all) = Len(strand) + Len(AbortedWaits)
          /\ \A i \in 1 .. Len(strand) + Len(AbortedWaits) : all[i] =
                IF i <= Len(strand) THEN strand[i] ELSE AbortedWaits[i - Len(strand)]
      BY <3>1, ConcatProperties
    <3>3. Len(strand) \in Nat /\ Len(AbortedWaits) \in Nat
      BY <3>1, LenProperties
    <3>4. \A i \in 1 .. Len(AbortedWaits) : AbortedWaits[i].kind # "stop"
      BY <1>0, AbortedWaitsType
    <3>. HIDE DEF all
    <3>5. \A i \in 1 .. Len(all) : i <= Len(strand) \/ i - Len(strand) \in 1 .. Len(AbortedWaits)
      BY <3>2, <3>3
    <3>6. \A i \in 1 .. Len(all) : all[i].kind # "stop"
      <4>. SUFFICES ASSUME NEW i \in 1 .. Len(all) PROVE all[i].kind # "stop"
        OBVIOUS
      <4>1. CASE i <= Len(strand)
        <5>1. all[i] = strand[i] /\ i \in 1 .. Len(strand)
          BY <3>2, <3>3, <4>1
        <5>. QED
          BY <2>1, <5>1
      <4>2. CASE ~(i <= Len(strand))
        <5>1. all[i] = AbortedWaits[i - Len(strand)] /\ i - Len(strand) \in 1 .. Len(AbortedWaits)
          BY <3>2, <3>3, <3>5, <4>2
        <5>. QED
          BY <3>4, <5>1
      <4>. QED
        BY <4>1, <4>2
    <3>. QED
      BY <3>2, <3>3, <3>6
  <2>4. strand' = q \o <<StopMsg(t)>>
    BY <1>4 DEF StopCommit, CancelWaits, CancelAll, CancelMisses, StopPosts
  <2>10. q \in Seq(Handler) /\ Len(q) \in Nat /\ \A i \in 1 .. Len(q) : q[i].kind # "stop"
    <3>. HIDE DEF all
    <3>. QED
      BY <1>0, <2>1, <2>3, LenProperties DEF TypeOK
  <2>. HIDE DEF q
  <2>5. /\ Len(strand') = Len(q) + 1
        /\ \A i \in 1 .. Len(q) : strand'[i] = q[i]
    <3>1. <<StopMsg(t)>> \in Seq(Handler) /\ Len(<<StopMsg(t)>>) = 1
      BY StopMsgType
    <3>. QED
      BY <2>10, <2>4, <3>1, ConcatProperties
  <2>6. \A i \in 1 .. Len(strand') : strand'[i].kind = "stop" => i = Len(q) + 1
    BY <2>10, <2>5
  <2>7. QueueInv'
    BY <1>1, <2>1, <2>6 DEF QueueInv, StopRunning
  <2>8. LogInv'
    BY <1>1, <2>1 DEF LogInv
  <2>9. RunInv' /\ OpenInv'
    BY <1>1 DEF RunInv, OpenInv, StrandOwnsTask, StopRunning
  <2>. QED
    BY <1>2, <2>2, <2>7, <2>8, <2>9
<1>. QED
  BY <1>3, <1>4

\* The strand takes the next handler; that of stop() is the first and the last
\* of its kind.
LEMMA RunTakeStep ==
    ASSUME TypeInv, StopInv, RunTake
    PROVE  StopInv'
<1>. USE DEF StopInv
<1>. DEFINE h == Head(strand)
<1>0. TypeOK
  BY DEF TypeInv
<1>1. strand \in Seq(Handler) /\ strand # <<>> /\ log \in Seq(Handler)
  BY <1>0 DEF RunTake, TypeOK
<1>2. /\ Len(strand) \in Nat /\ 1 \in 1 .. Len(strand) /\ h = strand[1]
      /\ Len(strand') = Len(strand) - 1
      /\ \A i \in 1 .. Len(strand') : strand'[i] = strand[i + 1] /\ i + 1 \in 1 .. Len(strand)
  BY <1>1, HeadTailProperties, LenProperties, EmptySeq DEF RunTake
<1>3. /\ open' = open /\ obj' = obj /\ stops' = stops /\ pc' = pc /\ ptr' = ptr
      /\ run.phase = "idle"
  BY DEF RunTake
<1>4. StopperInv' /\ OpenInv'
  BY <1>3 DEF StopperInv, OpenInv
<1>5. CASE h.kind = "stop"
  <2>1. run' = [phase |-> "exec", h |-> h] /\ log' = Append(log, h)
    BY <1>5 DEF RunTake, Called
  <2>2. /\ ~open /\ obj = "alive"
        /\ \A j \in 1 .. Len(strand) : strand[j].kind = "stop" => j = 1
    BY <1>2, <1>5 DEF QueueInv
  <2>3. \A j \in 1 .. Len(strand') : strand'[j].kind # "stop"
    BY <1>2, <2>2
  <2>4. \A i \in 1 .. Len(log) : log[i].kind # "stop"
    BY <1>2, <1>5 DEF LogInv
  <2>5. /\ Len(log) \in Nat /\ Len(log') = Len(log) + 1
        /\ \A i \in 1 .. Len(log) : log'[i] = log[i]
    <3>1. h \in Handler
      BY <1>1, HeadTailProperties
    <3>. HIDE DEF h
    <3>. QED
      BY <1>1, <2>1, <3>1, AppendProperties, LenProperties
  <2>6. LogInv'
    BY <1>3, <1>5, <2>1, <2>2, <2>3, <2>4, <2>5 DEF LogInv, StopRunning
  <2>7. QueueInv'
    BY <2>3 DEF QueueInv
  <2>8. RunInv'
    BY <1>3, <2>1, <2>2 DEF RunInv, StrandOwnsTask, StopRunning
  <2>. QED
    BY <1>3, <1>4, <2>6, <2>7, <2>8
<1>6. CASE h.kind # "stop"
  <2>1. /\ log' = log
        /\ (run' = [phase |-> "checked", h |-> h] /\ open) \/ run' = run
    BY <1>6 DEF RunTake
  <2>2. ~StopRunning /\ ~StopRunning'
    BY <1>3, <2>1 DEF StopRunning
  <2>3. QueueInv'
    <3>1. SUFFICES ASSUME NEW i \in 1 .. Len(strand'), strand'[i].kind = "stop"
                   PROVE  /\ ~open /\ obj = "alive"
                          /\ \A j \in 1 .. Len(strand') : strand'[j].kind = "stop" => i = j
      BY <1>3, <2>2 DEF QueueInv
    <3>2. i + 1 \in 1 .. Len(strand) /\ strand[i + 1].kind = "stop"
      BY <1>2, <3>1
    <3>3. /\ ~open /\ obj = "alive"
          /\ \A j \in 1 .. Len(strand) : strand[j].kind = "stop" => i + 1 = j
      BY <3>2 DEF QueueInv
    <3>4. ASSUME NEW j \in 1 .. Len(strand'), strand'[j].kind = "stop"
          PROVE  i = j
      <4>1. j + 1 \in 1 .. Len(strand) /\ strand[j + 1].kind = "stop"
        BY <1>2, <3>4
      <4>2. i + 1 = j + 1
        BY <3>3, <4>1
      <4>. QED
        BY <4>2
    <3>. QED
      BY <3>3, <3>4
  <2>4. LogInv'
    BY <1>2, <1>3, <2>1, <2>2 DEF LogInv
  <2>5. RunInv'
    BY <1>3, <1>6, <2>1, <2>2 DEF RunInv, OpenInv, StrandOwnsTask
  <2>. QED
    BY <1>3, <1>4, <2>3, <2>4, <2>5
<1>. QED
  BY <1>5, <1>6

LEMMA RunCallStep ==
    ASSUME TypeInv, StopInv, RunCall
    PROVE  StopInv'
<1>. USE DEF StopInv
<1>1. run \in [phase : {"idle", "checked", "exec"}, h : Handler] /\ log \in Seq(Handler)
  BY DEF TypeInv, TypeOK
<1>2. /\ open' = open /\ obj' = obj /\ stops' = stops /\ pc' = pc /\ ptr' = ptr
      /\ strand' = strand /\ run.phase = "checked"
      /\ run' = [run EXCEPT !.phase = "exec"] \/ run' = Idle
      /\ log' = Append(log, run.h) \/ log' = log
  BY DEF RunCall, Called
<1>3. StopperInv' /\ OpenInv'
  BY <1>2 DEF StopperInv, OpenInv
<1>4. obj = "alive" /\ run.h.kind # "stop" /\ ~StopRunning
  BY <1>2 DEF RunInv, StrandOwnsTask, StopRunning
<1>5. ~StopRunning'
  BY <1>1, <1>2, <1>4 DEF StopRunning, Idle
<1>6. QueueInv'
  BY <1>2, <1>5 DEF QueueInv
<1>7. \A i \in 1 .. Len(log) : log[i].kind # "stop"
  BY <1>4 DEF LogInv
<1>8. \A i \in 1 .. Len(log') : log'[i].kind # "stop"
  <2>1. CASE log' = log
    BY <1>7, <2>1
  <2>2. CASE log' = Append(log, run.h)
    <3>1. run.h \in Handler
      BY <1>1
    <3>2. /\ Len(log) \in Nat /\ Len(log') = Len(log) + 1
          /\ \A i \in 1 .. Len(log) : log'[i] = log[i]
          /\ log'[Len(log) + 1] = run.h
      BY <1>1, <2>2, <3>1, AppendProperties, LenProperties
    <3>. QED
      BY <1>4, <1>7, <3>2
  <2>. QED
    BY <1>2, <2>1, <2>2
<1>9. LogInv'
  BY <1>8 DEF LogInv
<1>10. RunInv'
  BY <1>1, <1>2, <1>4, <1>5 DEF RunInv, StrandOwnsTask, Idle
<1>. QED
  BY <1>2, <1>3, <1>6, <1>9, <1>10

\* A slot function returns; behind the eod slot the task is deleted, and no
\* handler is left that would use it.
LEMMA RunReturnStep ==
    ASSUME TypeInv, StopInv, RunReturn
    PROVE  StopInv'
<1>. USE DEF StopInv
<1>1. /\ open' = open /\ stops' = stops /\ ptr' = ptr /\ strand' = strand /\ log' = log
      /\ run.phase = "exec" /\ run' = Idle
      /\ obj' = IF run.h.kind = "stop" THEN "deleted" ELSE obj
  BY DEF RunReturn
<1>2. ~StopRunning' /\ run'.phase = "idle"
  BY <1>1 DEF StopRunning, Idle
<1>3. StopperInv'
  <2>1. \A t \in Threads : pc'[t] = "stopping" => pc[t] = "stopping"
    BY DEF RunReturn, BeginIsOpen, TypeInv, TypeOK
  <2>. QED
    BY <1>1, <2>1 DEF StopperInv
<1>4. OpenInv'
  BY <1>1 DEF OpenInv, RunInv, StopRunning
<1>5. QueueInv'
  BY <1>1, <1>2 DEF QueueInv, StopRunning
<1>6. LogInv'
  BY <1>1, <1>2 DEF LogInv, StopRunning
<1>7. RunInv'
  BY <1>2 DEF RunInv, StrandOwnsTask
<1>. QED
  BY <1>1, <1>3, <1>4, <1>5, <1>6, <1>7

LEMMA StopStep == TypeInv /\ StopInv /\ StopsInTurn /\ [Next]_vars => StopInv'
<1>. SUFFICES ASSUME TypeInv, StopInv, StopsInTurn, [Next]_vars PROVE StopInv'
  OBVIOUS
<1>0. TypeOK /\ ArgOK /\ StopperInv
  BY DEF TypeInv, StopInv
<1>1. ASSUME NEW t \in Threads, NEW slot \in Slots, NEW kind \in {"dispatch", "next", "timer"},
             Call(t, kind, slot)
      PROVE  StopInv'
  <2>1. Kept /\ UNCHANGED <<open, obj, run, log, stops>>
    BY <1>1 DEF Call, Kept
  <2>2. StopperInv'
    BY <1>0, <1>1 DEF Call, BeginIsOpen, StopperInv, TypeOK
  <2>. QED
    BY <2>1, <2>2, QuietStep
<1>2. ASSUME NEW t \in Threads, Proceed(t)
      PROVE  StopInv'
  <2>1. UNCHANGED <<open, obj, run, log, stops>>
    BY <1>2 DEF Proceed
  <2>2. StopperInv'
    BY <1>0, <1>2 DEF Proceed, StopperInv, TypeOK
  <2>3. Kept
    <3>1. CASE strand' = strand
      BY <3>1 DEF Kept
    <3>2. CASE CancelWaits(<<>>)
      BY <1>0, <3>2, KeptByCancel
    <3>3. CASE Post(arg[t])
      <4>1. arg[t] \in Handler /\ arg[t].kind # "stop"
        BY <1>0, <1>2 DEF Proceed, ArgOK, TypeOK
      <4>. QED
        BY <1>0, <3>3, <4>1, KeptByPost
    <3>. QED
      BY <1>2, <3>1, <3>2, <3>3 DEF Proceed
  <2>. QED
    BY <2>1, <2>2, <2>3, QuietStep
<1>3. ASSUME NEW t \in Threads, AsyncWait(t)
      PROVE  StopInv'
  <2>1. Kept /\ UNCHANGED <<open, obj, run, log, stops>>
    BY <1>3 DEF AsyncWait, Kept
  <2>2. StopperInv'
    BY <1>0, <1>3 DEF AsyncWait, StopperInv, TypeOK
  <2>. QED
    BY <2>1, <2>2, QuietStep
<1>4. ASSUME NEW t \in Threads, CancelTimer(t)
      PROVE  StopInv'
  <2>1. UNCHANGED <<open, obj, run, log, stops>>
    BY <1>4 DEF CancelTimer
  <2>2. Kept
    BY <1>0, <1>4, KeptByCancel DEF CancelTimer
  <2>3. StopperInv'
    BY <1>0, <1>4 DEF CancelTimer, StopperInv
  <2>. QED
    BY <2>1, <2>2, <2>3, QuietStep
<1>5. ASSUME NEW t \in Threads, StopLoad(t)
      PROVE  StopInv'
  <2>1. Kept /\ UNCHANGED <<open, obj, run, log, stops>>
    BY <1>5 DEF StopLoad, Kept
  <2>2. StopperInv'
    BY <1>0, <1>5 DEF StopLoad, StopperInv, TypeOK
  <2>. QED
    BY <2>1, <2>2, QuietStep
<1>6. ASSUME NEW t \in Threads, StopCommit(t)
      PROVE  StopInv'
  BY <1>6, StopCommitStep
<1>7. CASE TimerFires
  <2>1. UNCHANGED <<open, obj, run, log, stops>> /\ strand' = strand \o waits
    BY <1>7 DEF TimerFires
  <2>2. waits \in Seq(Handler) /\ \A i \in 1 .. Len(waits) : waits[i].kind # "stop"
    <3>1. {h \in Handler : h.kind = "timer" /\ h.ok} \subseteq Handler
      OBVIOUS
    <3>2. \A i \in 1 .. Len(waits) : waits[i].kind = "timer"
      BY <1>0 DEF TypeOK
    <3>. QED
      BY <1>0, <3>1, <3>2, SeqMonotonic DEF TypeOK
  <2>3. Kept
    BY <1>0, <2>1, <2>2, KeptByConcat
  <2>4. StopperInv'
    BY <1>0, <1>7 DEF TimerFires, StopperInv
  <2>. QED
    BY <2>1, <2>3, <2>4, QuietStep
<1>8. CASE RunTake
  BY <1>8, RunTakeStep
<1>9. CASE RunCall
  BY <1>9, RunCallStep
<1>10. CASE RunReturn
  BY <1>10, RunReturnStep
<1>11. CASE UNCHANGED vars
  <2>1. Kept /\ UNCHANGED <<open, obj, run, log, stops>>
    BY <1>11 DEF vars, Kept
  <2>2. StopperInv'
    BY <1>0, <1>11 DEF vars, StopperInv
  <2>. QED
    BY <2>1, <2>2, QuietStep
<1>. QED
  BY <1>1, <1>2, <1>3, <1>4, <1>5, <1>6, <1>7, <1>8, <1>9, <1>10, <1>11 DEF Next

LEMMA StopInvariant == Spec /\ []StopsInTurn => []StopInv
<1>1. TypeInv /\ StopInv /\ StopsInTurn /\ [Next]_vars => (TypeInv /\ StopInv)'
  BY TypeStep, StopStep
<1>2. Init => TypeInv /\ StopInv
  BY TypeInit, StopInit
<1>. QED
  BY <1>1, <1>2, PTL DEF Spec

\* As long as no two threads are in stop() at once, whatever the other threads,
\* the timer and the slot functions do, the strand never calls a deleted task.
THEOREM StrandOwnership == Spec /\ []StopsInTurn => []StrandOwnsTask
<1>1. StopInv => StrandOwnsTask
  BY DEF StopInv, RunInv
<1>. QED
  BY <1>1, StopInvariant, PTL

\* However many threads stop the channel and however often, one stop() call
\* succeeds and the eod slot is called once, as long as no thread enters stop()
\* while another one is between reading task_ and clearing it: the overlap is
\* the only way to a second success (the run ChannelStops shows it).
THEOREM StoppedOnce == Spec /\ []StopsInTurn => []StopOnce
<1>1. StopInv => StopOnce
  BY DEF StopInv, LogInv, StopOnce
<1>. QED
  BY <1>1, StopInvariant, PTL

\* No slot is called behind the eod slot.
THEOREM SilenceAfterStop == Spec /\ []StopsInTurn => []SilentAfterStop
<1>1. StopInv => SilentAfterStop
  BY DEF StopInv, LogInv, SilentAfterStop
<1>. QED
  BY <1>1, StopInvariant, PTL

----------------------------------------------------------------------------
(***************************************************************************)
(* The messages of a channel: in which order and how often they reach the  *)
(* slots of the task.                                                      *)
(*                                                                         *)
(* The argument follows one line of handlers: those whose slot was called, *)
(* the one the strand has tested and not yet called, and those that wait   *)
(* in the strand.  Every step of the channel leaves the line as it is,     *)
(* adds to its end, or takes out the handler behind the called ones; what  *)
(* holds between an earlier and a later handler of the line thus keeps to  *)
(* hold, once it holds for the handlers that are added.                    *)
(***************************************************************************)

InHand == IF run.phase = "checked" THEN 1 ELSE 0

Line ==
    [i \in 1 .. Len(log) + InHand + Len(strand) |->
        IF i <= Len(log) THEN log[i]
        ELSE IF i <= Len(log) + InHand THEN run.h
        ELSE strand[i - Len(log) - InHand]]

----------------------------------------------------------------------------
(* The inductive invariant. *)

\* Thread t is in a call, and arg[t] is its message.
Busy(t) == pc[t] \in {"checked", "wait"}

IsCall(h) == h.kind \in {"dispatch", "next"}

\* The message numbers tell messages apart; only the consumer of next() has
\* the number of its producer.
Apart(a, b) ==
    a.kind # "stop" /\ b.kind # "stop" /\ (a.kind = "consume" <=> b.kind = "consume")
        => a.id # b.id

\* What holds between a handler of the line and one behind it: calls are in the
\* order of their thread, and so are timers.
Before(a, b) ==
    /\ Apart(a, b)
    /\ IsCall(a) /\ IsCall(b) /\ a.by = b.by => a.id < b.id
    /\ a.kind = "timer" /\ b.kind = "timer" /\ a.by = b.by => a.id < b.id

\* What holds between a handler and a message that is still to be posted.
Precedes(a, b) ==
    /\ Apart(a, b)
    /\ a.kind \notin {"stop", "consume"} /\ b.kind # "consume" /\ a.by = b.by => a.id < b.id

Numbered(h, n) == h.kind # "stop" => h.id \in 1 .. n

NumberInv ==
    /\ \A i \in 1 .. Len(Line) : Numbered(Line[i], ops)
    /\ \A i \in 1 .. Len(waits) : Numbered(waits[i], ops)
    /\ \A t \in Threads : Busy(t) => Numbered(arg[t], ops)
    /\ aborted \subseteq 1 .. ops

LineInv == \A i, j \in 1 .. Len(Line) : i < j => Before(Line[i], Line[j])

WaitInv ==
    /\ \A i, j \in 1 .. Len(waits) : i < j => Before(waits[i], waits[j])
    /\ \A i \in 1 .. Len(Line), j \in 1 .. Len(waits) : Before(Line[i], waits[j])

CallInv ==
    \A t \in Threads : Busy(t) =>
        /\ arg[t].kind # "consume" => arg[t].by = t
        /\ \A i \in 1 .. Len(Line) : Precedes(Line[i], arg[t])
        /\ \A i \in 1 .. Len(waits) : Precedes(waits[i], arg[t])
        /\ \A u \in Threads : Busy(u) /\ u # t => Apart(arg[u], arg[t])

\* A wait that was cancelled is marked wherever it is, and no marked one is
\* called.
CancelInv ==
    /\ \A i \in 1 .. Len(Line) : Line[i].kind = "timer" =>
        /\ Line[i].ok => Line[i].id \notin aborted
        /\ i <= Len(log) + InHand => Line[i].ok
    /\ \A i \in 1 .. Len(waits) : waits[i].id \notin aborted
    /\ \A t \in Threads : Busy(t) /\ arg[t].kind = "timer" => arg[t].id \notin aborted

\* The producer with this number is in s, ahead of position j.
Produced(s, id, j) == \E i \in 1 .. Len(s) : i < j /\ s[i].kind = "next" /\ s[i].id = id

\* A consumer comes behind its producer, and there is none as long as the
\* producer runs.
ConsumeInv ==
    /\ \A j \in 1 .. Len(Line) : Line[j].kind = "consume" => Produced(log, Line[j].id, j)
    /\ \A t \in Threads : Busy(t) /\ arg[t].kind = "consume" =>
            Produced(log, arg[t].id, Len(log) + 1)
    /\ run.phase = "exec" /\ run.h.kind = "next" =>
        /\ Produced(log, run.h.id, Len(log) + 1)
        /\ \A j \in 1 .. Len(Line) : Line[j].kind = "consume" => Line[j].id # run.h.id
        /\ \A t \in Threads : Busy(t) /\ arg[t].kind = "consume" => arg[t].id # run.h.id

OrderInv == NumberInv /\ LineInv /\ WaitInv /\ CallInv /\ CancelInv /\ ConsumeInv

----------------------------------------------------------------------------
(* How the line changes. *)

\* The handlers of q are added to the end of the line.
Grows(q) ==
    /\ Len(Line') = Len(Line) + Len(q)
    /\ \A i \in 1 .. Len(Line') :
        Line'[i] = IF i <= Len(Line) THEN Line[i] ELSE q[i - Len(Line)]

\* The line stays as it is.
Stays ==
    /\ Len(Line') = Len(Line)
    /\ \A i \in 1 .. Len(Line') : Line'[i] = Line[i]

\* The handler behind the called ones is taken out of the line.
Drops ==
    /\ Len(log) < Len(Line)
    /\ Len(Line') = Len(Line) - 1
    /\ \A i \in 1 .. Len(Line') :
        Line'[i] = IF i <= Len(log) THEN Line[i] ELSE Line[i + 1]

\* The line, position by position.
LineFacts ==
    /\ Line \in Seq(Handler)
    /\ Len(log) \in Nat /\ Len(strand) \in Nat /\ InHand \in {0, 1} /\ run.h \in Handler
    /\ Len(Line) = Len(log) + InHand + Len(strand)
    /\ \A i \in 1 .. Len(Line) : Line[i] =
        IF i <= Len(log) THEN log[i]
        ELSE IF i <= Len(log) + InHand THEN run.h
        ELSE strand[i - Len(log) - InHand]
    /\ \A i \in 1 .. Len(log) : i \in 1 .. Len(Line) /\ Line[i] = log[i]

LEMMA LineType == TypeOK => LineFacts
<1>. SUFFICES ASSUME TypeOK PROVE LineFacts
  OBVIOUS
<1>1. /\ log \in Seq(Handler) /\ strand \in Seq(Handler) /\ run.h \in Handler
      /\ Len(log) \in Nat /\ Len(strand) \in Nat
  BY LenProperties DEF TypeOK
<1>2. InHand \in {0, 1} /\ Len(log) + InHand + Len(strand) \in Nat
  BY <1>1 DEF InHand
<1>3. ASSUME NEW i \in 1 .. Len(log) + InHand + Len(strand)
      PROVE  Line[i] \in Handler
  <2>1. Line[i] = IF i <= Len(log) THEN log[i]
                  ELSE IF i <= Len(log) + InHand THEN run.h
                  ELSE strand[i - Len(log) - InHand]
    BY DEF Line
  <2>2. CASE i <= Len(log)
    <3>1. i \in 1 .. Len(log)
      BY <1>1, <1>2, <2>2
    <3>2. log[i] \in Handler
      BY <1>1, <3>1, ElementOfSeq
    <3>. QED
      BY <2>1, <2>2, <3>2
  <2>3. CASE Len(log) < i /\ i <= Len(log) + InHand
    BY <1>1, <1>2, <2>1, <2>3
  <2>4. CASE Len(log) + InHand < i
    <3>1. i - Len(log) - InHand \in 1 .. Len(strand)
      BY <1>1, <1>2, <2>4
    <3>2. strand[i - Len(log) - InHand] \in Handler
      BY <1>1, <3>1, ElementOfSeq
    <3>. QED
      BY <1>1, <1>2, <2>1, <2>4, <3>2
  <2>. QED
    BY <1>1, <1>2, <2>2, <2>3, <2>4
<1>4. Line \in [1 .. Len(log) + InHand + Len(strand) -> Handler]
  BY <1>3 DEF Line
<1>5. Line \in Seq(Handler) /\ Len(Line) = Len(log) + InHand + Len(strand)
  BY <1>2, <1>4
<1>6. \A i \in 1 .. Len(Line) : Line[i] =
                IF i <= Len(log) THEN log[i]
                ELSE IF i <= Len(log) + InHand THEN run.h
                ELSE strand[i - Len(log) - InHand]
  BY <1>5 DEF Line
<1>7. \A i \in 1 .. Len(log) : i \in 1 .. Len(Line) /\ Line[i] = log[i]
  BY <1>1, <1>2, <1>5, <1>6
<1>. QED
  BY <1>1, <1>2, <1>5, <1>6, <1>7 DEF LineFacts

LEMMA NextLineType == TypeOK' => LineFacts'
BY LineType, PTL

\* What is posted to the strand comes to the end of the line.
LEMMA LineGrows ==
    ASSUME TypeOK, TypeOK', NEW q \in Seq(Handler), strand' = strand \o q, run' = run, log' = log
    PROVE  Grows(q)
<1>1. InHand' = InHand
  BY DEF InHand
<1>2. /\ Len(q) \in Nat
      /\ Len(strand') = Len(strand) + Len(q)
      /\ \A i \in 1 .. Len(strand) + Len(q) : strand'[i] =
            IF i <= Len(strand) THEN strand[i] ELSE q[i - Len(strand)]
  BY ConcatProperties, LenProperties DEF TypeOK
<1>3. /\ Len(Line') = Len(log) + InHand + Len(strand')
      /\ \A i \in 1 .. Len(Line') : Line'[i] =
            IF i <= Len(log) THEN log[i]
            ELSE IF i <= Len(log) + InHand THEN run.h
            ELSE strand'[i - Len(log) - InHand]
  BY <1>1, NextLineType DEF LineFacts
<1>0. LineFacts
  BY LineType
<1>4. Len(Line') = Len(Line) + Len(q)
  BY <1>0, <1>2, <1>3 DEF LineFacts
<1>5. ASSUME NEW i \in 1 .. Len(Line')
      PROVE  Line'[i] = IF i <= Len(Line) THEN Line[i] ELSE q[i - Len(Line)]
  <2>1. Line'[i] = IF i <= Len(log) THEN log[i]
                   ELSE IF i <= Len(log) + InHand THEN run.h
                   ELSE strand'[i - Len(log) - InHand]
    BY <1>3
  <2>2. i \in 1 .. Len(Line) =>
            Line[i] = IF i <= Len(log) THEN log[i]
                      ELSE IF i <= Len(log) + InHand THEN run.h
                      ELSE strand[i - Len(log) - InHand]
    BY <1>0 DEF LineFacts
  <2>3. /\ i \in Nat /\ 1 <= i /\ Len(log) \in Nat /\ Len(strand) \in Nat /\ InHand \in {0, 1}
        /\ i <= Len(Line) + Len(q) /\ Len(Line) = Len(log) + InHand + Len(strand) /\ Len(q) \in Nat
    BY <1>0, <1>2, <1>4 DEF LineFacts
  <2>4. CASE i <= Len(log) + InHand
    BY <2>1, <2>2, <2>3, <2>4
  <2>5. CASE Len(log) + InHand < i
    <3>. DEFINE k == i - Len(log) - InHand
    <3>1. k \in 1 .. Len(strand) + Len(q)
      BY <2>3, <2>5
    <3>2. strand'[k] = IF k <= Len(strand) THEN strand[k] ELSE q[k - Len(strand)]
      BY <1>2, <3>1
    <3>7. ~(i <= Len(log)) /\ ~(i <= Len(log) + InHand) /\ (i <= Len(Line) => i \in 1 .. Len(Line))
      BY <2>3, <2>5
    <3>3. Line'[i] = strand'[k]
      BY <2>1, <3>7
    <3>4. i <= Len(Line) => Line[i] = strand[k]
      BY <2>2, <3>7
    <3>5. k <= Len(strand) <=> i <= Len(Line)
      BY <2>3
    <3>6. k - Len(strand) = i - Len(Line)
      BY <2>3
    <3>. HIDE DEF k
    <3>. QED
      BY <3>2, <3>3, <3>4, <3>5, <3>6
  <2>. QED
    BY <2>3, <2>4, <2>5
<1>. QED
  BY <1>4, <1>5 DEF Grows

LEMMA LineStays ==
    ASSUME UNCHANGED <<strand, run, log>>
    PROVE  Stays
<1>1. Line' = Line
  BY DEF Line, InHand
<1>. QED
  BY <1>1 DEF Stays

\* The strand takes a handler: it stays in the line as the one in hand or, that
\* of stop(), as one that is called, or it is dropped.
LEMMA LineTake ==
    ASSUME TypeOK, TypeOK', RunTake
    PROVE  /\ InHand = 0 /\ Len(log) < Len(Line) /\ Line[Len(log) + 1] = Head(strand)
           /\ \/ Stays /\ log' = Append(log, Head(strand)) /\ Head(strand).kind = "stop"
                 /\ run'.phase = "exec" /\ run'.h = Head(strand)
              \/ Stays /\ log' = log /\ Live(Head(strand)) /\ run'.phase = "checked"
                 /\ run'.h = Head(strand) /\ open /\ Head(strand).kind # "stop"
              \/ Drops /\ log' = log /\ run' = run /\ Head(strand).kind # "stop"
                 /\ ~(Live(Head(strand)) /\ open)
<1>. DEFINE h == Head(strand)
<1>1. LineFacts /\ LineFacts'
  BY LineType, NextLineType
<1>0. /\ Len(log) \in Nat /\ Len(strand) \in Nat /\ Len(Line) = Len(log) + InHand + Len(strand)
      /\ Len(log') \in Nat /\ Len(strand') \in Nat
      /\ Len(Line') = Len(log') + InHand' + Len(strand')
  BY <1>1 DEF LineFacts
<1>2. /\ Len(strand) \in Nat /\ 1 <= Len(strand) /\ h = strand[1] /\ h \in Handler
      /\ strand' = Tail(strand)
      /\ Len(strand') = Len(strand) - 1
      /\ \A i \in 1 .. Len(strand') : strand'[i] = strand[i + 1]
  BY HeadTailProperties, LenProperties, EmptySeq DEF RunTake, TypeOK
<1>8. Len(strand') = Len(strand) - 1
  BY <1>2
<1>3. InHand = 0 /\ run.phase = "idle"
  BY DEF RunTake, InHand
<1>4. Len(log) \in Nat /\ Len(Line) = Len(log) + Len(strand) /\ Line[Len(log) + 1] = h
  <2>1. Len(log) \in Nat /\ Len(Line) = Len(log) + Len(strand)
    BY <1>0, <1>3
  <2>2. Len(log) + 1 \in 1 .. Len(Line)
    BY <1>2, <2>1
  <2>3. Line[Len(log) + 1] = IF Len(log) + 1 <= Len(log) THEN log[Len(log) + 1]
                             ELSE IF Len(log) + 1 <= Len(log) + InHand THEN run.h
                             ELSE strand[Len(log) + 1 - Len(log) - InHand]
    BY <1>1, <2>2 DEF LineFacts
  <2>. QED
    BY <1>2, <1>3, <2>1, <2>3
<1>5. CASE h.kind = "stop"
  <2>1. log' = Append(log, h) /\ run' = [phase |-> "exec", h |-> h]
    BY <1>5 DEF RunTake, Called
  <2>2. /\ Len(log') = Len(log) + 1 /\ log'[Len(log) + 1] = h
        /\ \A i \in 1 .. Len(log) : log'[i] = log[i]
    BY <1>2, <2>1, AppendProperties DEF TypeOK
  <2>3. InHand' = 0
    BY <2>1 DEF InHand
  <2>7. Len(log') = Len(log) + 1
    BY <2>2
  <2>4. Len(Line') = Len(Line)
    BY <1>0, <1>8, <1>3, <2>7, <2>3
  <2>5. ASSUME NEW i \in 1 .. Len(Line') PROVE Line'[i] = Line[i]
    <3>1. Line'[i] = IF i <= Len(log) + 1 THEN log'[i] ELSE strand'[i - (Len(log) + 1)]
      BY <1>1, <1>4, <2>2, <2>3 DEF LineFacts
    <3>2. Line[i] = IF i <= Len(log) THEN log[i] ELSE strand[i - Len(log)]
      BY <1>1, <1>3, <2>4 DEF LineFacts
    <3>3. i <= Len(log) + 1 => Line'[i] = Line[i]
      BY <1>2, <1>4, <2>2, <3>1, <3>2
    <3>4. Len(log) + 1 < i => i - (Len(log) + 1) \in 1 .. Len(strand')
      BY <1>2, <1>4, <2>4
    <3>5. Len(log) + 1 < i => strand'[i - (Len(log) + 1)] = strand[i - (Len(log) + 1) + 1]
      BY <1>2, <3>4
    <3>6. Len(log) + 1 < i => Line'[i] = Line[i]
      BY <1>4, <3>1, <3>2, <3>5
    <3>. QED
      BY <1>4, <3>3, <3>6
  <2>6. Stays
    BY <2>4, <2>5 DEF Stays
  <2>. QED
    BY <1>2, <1>3, <1>4, <1>5, <2>1, <2>6
<1>6. CASE h.kind # "stop" /\ Live(h) /\ open
  <2>1. log' = log /\ run' = [phase |-> "checked", h |-> h]
    BY <1>6 DEF RunTake
  <2>2. InHand' = 1
    BY <2>1 DEF InHand
  <2>6. log' = log
    BY <2>1
  <2>3. Len(Line') = Len(Line)
    BY <1>0, <1>8, <1>3, <2>6, <2>2
  <2>4. ASSUME NEW i \in 1 .. Len(Line') PROVE Line'[i] = Line[i]
    <3>1. Line'[i] = IF i <= Len(log) THEN log[i] ELSE IF i <= Len(log) + 1 THEN h
                     ELSE strand'[i - Len(log) - 1]
      BY <1>1, <2>1, <2>2 DEF LineFacts
    <3>2. Line[i] = IF i <= Len(log) THEN log[i] ELSE strand[i - Len(log)]
      BY <1>1, <1>3, <2>3 DEF LineFacts
    <3>3. i <= Len(log) + 1 => Line'[i] = Line[i]
      BY <1>2, <1>4, <3>1, <3>2
    <3>4. Len(log) + 1 < i => i - Len(log) - 1 \in 1 .. Len(strand')
      BY <1>2, <1>4, <2>3
    <3>5. Len(log) + 1 < i => strand'[i - Len(log) - 1] = strand[i - Len(log) - 1 + 1]
      BY <1>2, <3>4
    <3>6. Len(log) + 1 < i => Line'[i] = Line[i]
      BY <1>4, <3>1, <3>2, <3>5
    <3>. QED
      BY <1>4, <3>3, <3>6
  <2>5. Stays
    BY <2>3, <2>4 DEF Stays
  <2>. QED
    BY <1>2, <1>3, <1>4, <1>6, <2>1, <2>5
<1>7. CASE h.kind # "stop" /\ ~(Live(h) /\ open)
  <2>1. log' = log /\ run' = run
    BY <1>7 DEF RunTake
  <2>2. InHand' = 0
    BY <1>3, <2>1 DEF InHand
  <2>3. Len(Line') = Len(Line) - 1
    BY <1>0, <1>2, <1>3, <2>1, <2>2
  <2>4. ASSUME NEW i \in 1 .. Len(Line')
        PROVE  Line'[i] = IF i <= Len(log) THEN Line[i] ELSE Line[i + 1]
    <3>1. Line'[i] = IF i <= Len(log) THEN log[i] ELSE strand'[i - Len(log)]
      BY <1>1, <2>1, <2>2 DEF LineFacts
    <3>2. i <= Len(log) => Line[i] = log[i]
      BY <1>1 DEF LineFacts
    <3>3. i + 1 \in 1 .. Len(Line)
      BY <1>2, <1>4, <2>3
    <3>7. Line[i + 1] = IF i + 1 <= Len(log) THEN log[i + 1] ELSE strand[i + 1 - Len(log)]
      <4>1. Len(log) \in Nat /\ Len(Line) \in Nat
        BY <1>4, <1>1 DEF LineFacts
      <4>2. /\ Len(log) + 0 = Len(log)
            /\ \A j \in 1 .. Len(Line) : j - Len(log) - 0 = j - Len(log)
        BY <4>1
      <4>3. \A j \in 1 .. Len(Line) :
                Line[j] = IF j <= Len(log) THEN log[j] ELSE strand[j - Len(log)]
        BY <1>1, <1>3, <4>2 DEF LineFacts
      <4>. QED
        BY <3>3, <4>3
    <3>4. Len(log) < i => Line[i + 1] = strand[i + 1 - Len(log)]
      BY <1>4, <3>7
    <3>5. Len(log) < i => i - Len(log) \in 1 .. Len(strand')
      BY <1>2, <1>4, <2>3
    <3>6. Len(log) < i => strand'[i - Len(log)] = strand[i - Len(log) + 1]
      BY <1>2, <3>5
    <3>. QED
      BY <1>4, <3>1, <3>2, <3>4, <3>6
  <2>5. Drops
    <3>1. Len(log) < Len(Line)
      BY <1>2, <1>4
    <3>. QED
      BY <2>3, <2>4, <3>1 DEF Drops
  <2>. QED
    BY <1>2, <1>3, <1>4, <1>7, <2>1, <2>5
<1>. QED
  BY <1>5, <1>6, <1>7

\* The handler in hand is called, or it is lost with the process.
LEMMA LineCall ==
    ASSUME TypeOK, TypeOK', RunCall
    PROVE  /\ InHand = 1 /\ Len(log) < Len(Line) /\ Line[Len(log) + 1] = run.h
           /\ InHand' = 0
           /\ \/ Stays /\ log' = Append(log, run.h)
              \/ Drops /\ log' = log /\ run' = Idle
<1>1. LineFacts /\ LineFacts'
  BY LineType, NextLineType
<1>0. /\ Len(log) \in Nat /\ Len(strand) \in Nat /\ Len(Line) = Len(log) + InHand + Len(strand)
      /\ Len(log') \in Nat /\ Len(strand') \in Nat
      /\ Len(Line') = Len(log') + InHand' + Len(strand')
  BY <1>1 DEF LineFacts
<1>2. InHand = 1
  BY DEF RunCall, InHand
<1>3. /\ strand' = strand /\ run.h \in Handler
      /\ run' = [run EXCEPT !.phase = "exec"] \/ run' = Idle
      /\ log' = Append(log, run.h) \/ (log' = log /\ run' = Idle)
  BY DEF RunCall, Called, TypeOK
<1>4. InHand' = 0
  BY <1>3 DEF TypeOK, InHand, Idle
<1>5. /\ Len(log) \in Nat /\ Len(strand) \in Nat /\ Len(Line) = Len(log) + 1 + Len(strand)
      /\ Line[Len(log) + 1] = run.h
  BY <1>1, <1>2 DEF LineFacts
<1>6. CASE log' = Append(log, run.h)
  <2>1. /\ Len(log') = Len(log) + 1 /\ log'[Len(log) + 1] = run.h
        /\ \A i \in 1 .. Len(log) : log'[i] = log[i]
    BY <1>3, <1>6, AppendProperties DEF TypeOK
  <2>2. Len(Line') = Len(Line)
    BY <1>0, <1>2, <1>3, <1>4, <2>1
  <2>3. ASSUME NEW i \in 1 .. Len(Line') PROVE Line'[i] = Line[i]
    <3>1. Line'[i] = IF i <= Len(log) + 1 THEN log'[i] ELSE strand[i - (Len(log) + 1)]
      BY <1>1, <1>3, <1>4, <1>5, <2>1 DEF LineFacts
    <3>2. Line[i] = IF i <= Len(log) THEN log[i] ELSE IF i <= Len(log) + 1 THEN run.h
                    ELSE strand[i - Len(log) - 1]
      BY <1>1, <1>2, <2>2 DEF LineFacts
    <3>. QED
      BY <1>5, <2>1, <3>1, <3>2
  <2>4. Stays
    BY <2>2, <2>3 DEF Stays
  <2>. QED
    BY <1>2, <1>4, <1>5, <1>6, <2>4
<1>7. CASE log' = log /\ run' = Idle
  <2>1. Len(Line') = Len(Line) - 1
    BY <1>0, <1>2, <1>3, <1>4, <1>7
  <2>2. ASSUME NEW i \in 1 .. Len(Line')
        PROVE  Line'[i] = IF i <= Len(log) THEN Line[i] ELSE Line[i + 1]
    <3>1. Line'[i] = IF i <= Len(log) THEN log[i] ELSE strand[i - Len(log)]
      BY <1>1, <1>3, <1>4, <1>7 DEF LineFacts
    <3>2. i <= Len(log) => Line[i] = log[i]
      BY <1>1 DEF LineFacts
    <3>3. i + 1 \in 1 .. Len(Line)
      BY <1>5, <2>1
    <3>4. Line[i + 1] = IF i + 1 <= Len(log) THEN log[i + 1]
                        ELSE IF i + 1 <= Len(log) + 1 THEN run.h ELSE strand[i + 1 - Len(log) - 1]
      <4>1. \A j \in 1 .. Len(Line) :
                Line[j] = IF j <= Len(log) THEN log[j]
                          ELSE IF j <= Len(log) + 1 THEN run.h ELSE strand[j - Len(log) - 1]
        BY <1>1, <1>2 DEF LineFacts
      <4>. QED
        BY <3>3, <4>1
    <3>5. Len(log) < i => Line[i + 1] = strand[i - Len(log)]
      BY <1>5, <3>4
    <3>. QED
      BY <1>5, <3>1, <3>2, <3>5
  <2>3. Drops
    BY <1>5, <2>1, <2>2 DEF Drops
  <2>. QED
    BY <1>2, <1>4, <1>5, <1>7, <2>3
<1>. QED
  BY <1>3, <1>6, <1>7

----------------------------------------------------------------------------
(* Steps that start no call. *)

\* No thread gets into a call.
NoNewCalls ==
    /\ arg' = arg
    /\ \A t \in Threads : pc'[t] \in {"checked", "wait"} => pc[t] \in {"checked", "wait"}

LEMMA OrderInit == Init => OrderInv
<1>. SUFFICES ASSUME Init PROVE OrderInv
  OBVIOUS
<1>1. Len(Line) = 0
  <2>1. Len(log) = 0 /\ Len(strand) = 0 /\ InHand = 0
    BY DEF Init, InHand, Idle
  <2>2. LineFacts
    BY TypeInit, LineType DEF TypeInv
  <2>. QED
    BY <2>1, <2>2 DEF LineFacts
<1>2. Len(waits) = 0 /\ aborted = {} /\ run.phase = "idle" /\ \A t \in Threads : ~Busy(t)
  BY DEF Init, Idle, Busy
<1>3. NumberInv /\ LineInv /\ WaitInv /\ CallInv
  BY <1>1, <1>2 DEF NumberInv, LineInv, WaitInv, CallInv
<1>4. CancelInv /\ ConsumeInv
  BY <1>1, <1>2 DEF CancelInv, ConsumeInv
<1>. QED
  BY <1>3, <1>4 DEF OrderInv

\* The consumers of the line stay where they are, and none is added.
LEMMA ConsumersKept ==
    ASSUME ConsumeInv, NoNewCalls, UNCHANGED <<log, run>>,
           \A j \in 1 .. Len(Line') : Line'[j].kind = "consume" =>
                j \in 1 .. Len(Line) /\ Line'[j] = Line[j]
    PROVE  ConsumeInv'
<1>1. \A j \in 1 .. Len(Line') : Line'[j].kind = "consume" => Produced(log', Line'[j].id, j)
  BY DEF ConsumeInv
<1>2. \A t \in Threads : Busy(t)' /\ arg'[t].kind = "consume" =>
        Produced(log', arg'[t].id, Len(log') + 1)
  BY DEF ConsumeInv, NoNewCalls, Busy
<1>3. ASSUME run'.phase = "exec", run'.h.kind = "next"
      PROVE  /\ Produced(log', run'.h.id, Len(log') + 1)
             /\ \A j \in 1 .. Len(Line') : Line'[j].kind = "consume" => Line'[j].id # run'.h.id
             /\ \A t \in Threads : Busy(t)' /\ arg'[t].kind = "consume" => arg'[t].id # run'.h.id
  BY <1>3 DEF ConsumeInv, NoNewCalls, Busy
<1>. QED
  BY <1>1, <1>2, <1>3 DEF ConsumeInv

LEMMA QuietOrder ==
    ASSUME OrderInv, Stays, NoNewCalls, UNCHANGED <<run, log, waits, aborted, ops>>
    PROVE  OrderInv'
<1>. USE DEF OrderInv, Stays, NoNewCalls, Busy
<1>1. NumberInv'
  BY DEF NumberInv
<1>2. LineInv' /\ WaitInv'
  BY DEF LineInv, WaitInv
<1>3. CallInv'
  BY DEF CallInv
<1>4. CancelInv'
  BY DEF CancelInv, InHand
<1>5. ConsumeInv'
  BY ConsumersKept
<1>. QED
  BY <1>1, <1>2, <1>3, <1>4, <1>5

\* Two handlers that differ in their error code only.
Alike(a, b) == a.kind = b.kind /\ a.id = b.id /\ a.by = b.by

\* The waits of the timer complete, with or without an error, and come to the
\* end of the line; stop() posts its handler behind them.
LEMMA FlushOrder ==
    ASSUME TypeOK, OrderInv, NEW q \in Seq(Handler), Grows(q), Len(waits) <= Len(q),
           \A i \in 1 .. Len(waits) : Alike(q[i], waits[i]),
           \A i \in 1 .. Len(waits) : q[i].ok => waits[i].id \notin aborted',
           \A i \in 1 .. Len(q) : Len(waits) < i => q[i].kind = "stop",
           aborted' \subseteq aborted \cup {waits[i].id : i \in 1 .. Len(waits)},
           waits' = <<>>, NoNewCalls, UNCHANGED <<run, log, ops>>
    PROVE  OrderInv'
<1>. USE DEF OrderInv
<1>1. /\ Len(waits) \in Nat /\ Len(q) \in Nat /\ Len(Line) \in Nat
      /\ \A i \in 1 .. Len(waits) : waits[i].kind = "timer" /\ waits[i] \in Handler
      /\ Len(log) + InHand <= Len(Line)
  <2>1. LineFacts
    BY LineType
  <2>2. Len(Line) \in Nat /\ Len(log) + InHand <= Len(Line)
    BY <2>1 DEF LineFacts
  <2>. QED
    BY <2>2, LenProperties DEF TypeOK
<1>2. Len(waits') = 0
  OBVIOUS
\* Every handler of the line was in the line, was a wait or is one of stop().
<1>3. ASSUME NEW i \in 1 .. Len(Line')
      PROVE  \/ i \in 1 .. Len(Line) /\ Line'[i] = Line[i]
             \/ /\ Len(Line) < i
                /\ Line'[i].kind = "timer"
                /\ i - Len(Line) \in 1 .. Len(waits)
                /\ Alike(Line'[i], waits[i - Len(Line)])
                /\ Line'[i].ok => waits[i - Len(Line)].id \notin aborted'
             \/ Len(Line) < i /\ Line'[i].kind = "stop"
  <2>1. CASE i <= Len(Line)
    BY <1>1, <2>1 DEF Grows
  <2>2. CASE Len(Line) < i
    <3>1. i - Len(Line) \in 1 .. Len(q) /\ Line'[i] = q[i - Len(Line)]
      BY <1>1, <2>2 DEF Grows
    <3>2. CASE i - Len(Line) <= Len(waits)
      <4>1. i - Len(Line) \in 1 .. Len(waits)
        BY <1>1, <3>1, <3>2
      <4>. QED
        BY <1>1, <2>2, <3>1, <4>1 DEF Alike
    <3>3. CASE ~(i - Len(Line) <= Len(waits))
      BY <1>1, <2>2, <3>1, <3>3
    <3>. QED
      BY <3>2, <3>3
  <2>. QED
    BY <1>1, <2>1, <2>2
<1>4. NumberInv'
  <2>1. aborted' \subseteq 1 .. ops'
    BY <1>1 DEF NumberInv, Numbered
  <2>2. \A i \in 1 .. Len(Line') : Numbered(Line'[i], ops')
    BY <1>3 DEF NumberInv, Numbered, Alike
  <2>3. \A t \in Threads : Busy(t)' => Numbered(arg'[t], ops')
    BY DEF NumberInv, NoNewCalls, Busy
  <2>. QED
    BY <1>2, <2>1, <2>2, <2>3 DEF NumberInv
<1>5. LineInv'
  <2>. SUFFICES ASSUME NEW i \in 1 .. Len(Line'), NEW j \in 1 .. Len(Line'), i < j
                PROVE  Before(Line'[i], Line'[j])
    BY DEF LineInv
  <2>1. CASE j \in 1 .. Len(Line) /\ Line'[j] = Line[j]
    <3>1. i \in 1 .. Len(Line) /\ Line'[i] = Line[i]
      BY <1>1, <1>3, <2>1
    <3>. QED
      BY <2>1, <3>1 DEF LineInv
  <2>2. CASE Line'[j].kind = "stop"
    BY <2>2 DEF Before, Apart, IsCall
  <2>3. CASE Line'[j].kind = "timer" /\ j - Len(Line) \in 1 .. Len(waits)
             /\ Alike(Line'[j], waits[j - Len(Line)])
    <3>1. CASE i \in 1 .. Len(Line) /\ Line'[i] = Line[i]
      <4>1. Before(Line[i], waits[j - Len(Line)])
        BY <2>3, <3>1 DEF WaitInv
      <4>. QED
        BY <2>3, <3>1, <4>1 DEF Before, Apart, Alike, IsCall
    <3>2. CASE Line'[i].kind = "timer" /\ i - Len(Line) \in 1 .. Len(waits)
               /\ Alike(Line'[i], waits[i - Len(Line)])
      <4>1. i - Len(Line) < j - Len(Line)
        BY <1>1
      <4>2. Before(waits[i - Len(Line)], waits[j - Len(Line)])
        BY <2>3, <3>2, <4>1 DEF WaitInv
      <4>. QED
        BY <2>3, <3>2, <4>2 DEF Before, Apart, Alike, IsCall
    <3>3. CASE Line'[i].kind = "stop"
      BY <3>3 DEF Before, Apart, IsCall
    <3>. QED
      BY <1>3, <3>1, <3>2, <3>3
  <2>. QED
    BY <1>3, <2>1, <2>2, <2>3
<1>6. WaitInv'
  BY <1>2 DEF WaitInv
<1>7. CallInv'
  <2>. SUFFICES ASSUME NEW t \in Threads, Busy(t)'
                PROVE  /\ arg'[t].kind # "consume" => arg'[t].by = t
                       /\ \A i \in 1 .. Len(Line') : Precedes(Line'[i], arg'[t])
                       /\ \A i \in 1 .. Len(waits') : Precedes(waits'[i], arg'[t])
                       /\ \A u \in Threads : Busy(u)' /\ u # t => Apart(arg'[u], arg'[t])
    BY DEF CallInv
  <2>1. Busy(t) /\ arg' = arg
    BY DEF NoNewCalls, Busy
  <2>2. /\ arg[t].kind # "consume" => arg[t].by = t
        /\ \A i \in 1 .. Len(Line) : Precedes(Line[i], arg[t])
        /\ \A i \in 1 .. Len(waits) : Precedes(waits[i], arg[t])
        /\ \A u \in Threads : Busy(u) /\ u # t => Apart(arg[u], arg[t])
    BY <2>1 DEF CallInv
  <2>3. \A i \in 1 .. Len(Line') : Precedes(Line'[i], arg[t])
    <3>. SUFFICES ASSUME NEW i \in 1 .. Len(Line') PROVE Precedes(Line'[i], arg[t])
      OBVIOUS
    <3>1. CASE i \in 1 .. Len(Line) /\ Line'[i] = Line[i]
      BY <2>2, <3>1
    <3>2. CASE i - Len(Line) \in 1 .. Len(waits) /\ Alike(Line'[i], waits[i - Len(Line)])
      BY <2>2, <3>2 DEF Precedes, Apart, Alike
    <3>3. CASE Line'[i].kind = "stop"
      BY <3>3 DEF Precedes, Apart
    <3>. QED
      BY <1>3, <3>1, <3>2, <3>3
  <2>. QED
    BY <1>2, <2>1, <2>2, <2>3 DEF NoNewCalls, Busy
<1>8. CancelInv'
  <2>1. InHand' = InHand
    BY DEF InHand
  <2>2. ASSUME NEW i \in 1 .. Len(Line'), Line'[i].kind = "timer"
        PROVE  /\ Line'[i].ok => Line'[i].id \notin aborted'
               /\ i <= Len(log') + InHand' => Line'[i].ok
    <3>1. CASE i \in 1 .. Len(Line) /\ Line'[i] = Line[i]
      <4>1. \A j \in 1 .. Len(waits) : waits[j].id # Line[i].id
        BY <1>1, <2>2, <3>1 DEF WaitInv, Before, Apart
      <4>. QED
        BY <2>1, <2>2, <3>1, <4>1 DEF CancelInv
    <3>2. CASE Len(Line) < i /\ i - Len(Line) \in 1 .. Len(waits) /\ Alike(Line'[i], waits[i - Len(Line)])
               /\ (Line'[i].ok => waits[i - Len(Line)].id \notin aborted')
      <4>1. ~(i <= Len(log) + InHand)
        <5>1. LineFacts
          BY LineType
        <5>2. Len(log) \in Nat /\ InHand \in Nat
          BY <5>1 DEF LineFacts
        <5>. QED
          BY <1>1, <3>2, <5>2
      <4>. QED
        BY <2>1, <3>2, <4>1 DEF Alike
    <3>. QED
      BY <1>3, <2>2, <3>1, <3>2
  <2>3. ASSUME NEW t \in Threads, Busy(t)', arg'[t].kind = "timer"
        PROVE  arg'[t].id \notin aborted'
    <3>1. Busy(t) /\ arg' = arg
      BY <2>3 DEF NoNewCalls, Busy
    <3>2. arg[t].id \notin aborted
      BY <2>3, <3>1 DEF CancelInv
    <3>3. \A j \in 1 .. Len(waits) : waits[j].id # arg[t].id
      BY <1>1, <2>3, <3>1 DEF CallInv, Precedes, Apart
    <3>. QED
      BY <3>1, <3>2, <3>3
  <2>. QED
    BY <1>2, <2>2, <2>3 DEF CancelInv
<1>9. ConsumeInv'
  <2>1. \A j \in 1 .. Len(Line') : Line'[j].kind = "consume" =>
            j \in 1 .. Len(Line) /\ Line'[j] = Line[j]
    BY <1>3
  <2>. QED
    BY <2>1, ConsumersKept
<1>. QED
  BY <1>4, <1>5, <1>6, <1>7, <1>8, <1>9

\* stop() posts its handler, and the waits stay on the timer.
LEMMA EndPostOrder ==
    ASSUME TypeOK, OrderInv, NEW q \in Seq(Handler), Grows(q),
           \A i \in 1 .. Len(q) : q[i].kind = "stop",
           NoNewCalls, UNCHANGED <<run, log, waits, aborted, ops>>
    PROVE  OrderInv'
<1>. USE DEF OrderInv
<1>1. LineFacts
  BY LineType
<1>2. ASSUME NEW i \in 1 .. Len(Line')
      PROVE  \/ i \in 1 .. Len(Line) /\ Line'[i] = Line[i]
             \/ Len(Line) < i /\ Line'[i].kind = "stop"
  <2>1. Len(Line) \in Nat /\ Len(q) \in Nat
    BY <1>1, LenProperties DEF LineFacts
  <2>2. CASE i <= Len(Line)
    BY <2>1, <2>2 DEF Grows
  <2>3. CASE Len(Line) < i
    <3>1. i - Len(Line) \in 1 .. Len(q) /\ Line'[i] = q[i - Len(Line)]
      BY <2>1, <2>3 DEF Grows
    <3>. QED
      BY <2>3, <3>1
  <2>. QED
    BY <2>1, <2>2, <2>3
<1>3. NumberInv'
  BY <1>2 DEF NumberInv, Numbered, NoNewCalls, Busy
<1>4. LineInv'
  <2>. SUFFICES ASSUME NEW i \in 1 .. Len(Line'), NEW j \in 1 .. Len(Line'), i < j
                PROVE  Before(Line'[i], Line'[j])
    BY DEF LineInv
  <2>1. CASE Line'[i].kind = "stop" \/ Line'[j].kind = "stop"
    BY <2>1 DEF Before, Apart, IsCall
  <2>. QED
    BY <1>2, <2>1 DEF LineInv
<1>5. WaitInv'
  <2>1. ASSUME NEW i \in 1 .. Len(Line'), NEW j \in 1 .. Len(waits')
        PROVE  Before(Line'[i], waits'[j])
    <3>1. CASE Line'[i].kind = "stop"
      BY <3>1 DEF Before, Apart, IsCall
    <3>. QED
      BY <1>2, <3>1 DEF WaitInv
  <2>. QED
    BY <2>1 DEF WaitInv
<1>6. CallInv'
  <2>1. ASSUME NEW t \in Threads, Busy(t)', NEW i \in 1 .. Len(Line')
        PROVE  Precedes(Line'[i], arg'[t])
    <3>1. Busy(t) /\ arg' = arg
      BY <2>1 DEF NoNewCalls, Busy
    <3>2. CASE Line'[i].kind = "stop"
      BY <3>2 DEF Precedes, Apart
    <3>. QED
      BY <1>2, <3>1, <3>2 DEF CallInv
  <2>. QED
    BY <2>1 DEF CallInv, NoNewCalls, Busy
<1>7. CancelInv'
  <2>1. InHand' = InHand
    BY DEF InHand
  <2>. QED
    BY <1>2, <2>1 DEF CancelInv, NoNewCalls, Busy
<1>8. ConsumeInv'
  <2>1. \A j \in 1 .. Len(Line') : Line'[j].kind = "consume" =>
            j \in 1 .. Len(Line) /\ Line'[j] = Line[j]
    BY <1>2
  <2>. QED
    BY <2>1, ConsumersKept
<1>. QED
  BY <1>3, <1>4, <1>5, <1>6, <1>7, <1>8

\* A call posts its message.
LEMMA PostOrder ==
    ASSUME TypeOK, OrderInv, NEW t \in Threads, Busy(t), arg[t].kind \notin {"stop", "timer"},
           Grows(<<arg[t]>>), pc' = [pc EXCEPT ![t] = "idle"],
           UNCHANGED <<arg, run, log, waits, aborted, ops>>
    PROVE  OrderInv'
<1>. USE DEF OrderInv
<1>. DEFINE n == Len(Line)
<1>1. /\ n \in Nat /\ Len(Line') = n + 1 /\ Line'[n + 1] = arg[t]
      /\ \A i \in 1 .. n : i \in 1 .. Len(Line') /\ Line'[i] = Line[i]
      /\ \A i \in 1 .. Len(Line') : i \in 1 .. n \/ i = n + 1
      /\ Len(log) <= n
  <2>1. LineFacts
    BY LineType
  <2>2. n \in Nat /\ Len(log) <= n
    BY <2>1 DEF LineFacts
  <2>. DEFINE q == <<arg[t]>>
  <2>3. Len(q) = 1 /\ q[1] = arg[t] /\ Grows(q)
    OBVIOUS
  <2>. HIDE DEF q
  <2>4. Len(Line') = n + 1
    BY <2>3 DEF Grows
  <2>5. \A i \in 1 .. Len(Line') : Line'[i] = IF i <= n THEN Line[i] ELSE q[i - n]
    BY <2>3 DEF Grows
  <2>. HIDE DEF n
  <2>6. n + 1 \in 1 .. Len(Line') /\ ~(n + 1 <= n) /\ n + 1 - n = 1
    BY <2>2, <2>4
  <2>7. Line'[n + 1] = arg[t]
    <3>1. Line'[n + 1] = IF n + 1 <= n THEN Line[n + 1] ELSE q[n + 1 - n]
      BY <2>2, <2>5, <2>6
    <3>. QED
      BY <2>3, <2>6, <3>1
  <2>8. \A i \in 1 .. n : i \in 1 .. Len(Line') /\ Line'[i] = Line[i]
    BY <2>2, <2>4, <2>5
  <2>9. \A i \in 1 .. Len(Line') : i \in 1 .. n \/ i = n + 1
    BY <2>2, <2>4
  <2>. QED
    BY <2>2, <2>4, <2>7, <2>8, <2>9
<1>2. \A u \in Threads : Busy(u)' => Busy(u) /\ u # t
  BY DEF Busy, TypeOK
<1>3. NumberInv'
  BY <1>1, <1>2 DEF NumberInv
<1>4. /\ arg[t].kind # "consume" => arg[t].by = t
      /\ \A i \in 1 .. n : Precedes(Line[i], arg[t])
      /\ \A i \in 1 .. Len(waits) : Precedes(waits[i], arg[t])
      /\ \A u \in Threads : Busy(u) /\ u # t => Apart(arg[u], arg[t])
  BY DEF CallInv
<1>5. LineInv'
  <2>. SUFFICES ASSUME NEW i \in 1 .. Len(Line'), NEW j \in 1 .. Len(Line'), i < j
                PROVE  Before(Line'[i], Line'[j])
    BY DEF LineInv
  <2>1. CASE j \in 1 .. n
    BY <1>1, <2>1 DEF LineInv
  <2>2. CASE j = n + 1
    <3>1. i \in 1 .. n
      BY <1>1, <2>2
    <3>. QED
      BY <1>1, <1>4, <2>2, <3>1 DEF Before, Precedes, IsCall
  <2>. QED
    BY <1>1, <2>1, <2>2
<1>6. WaitInv'
  <2>1. \A i \in 1 .. Len(waits) : waits[i].kind = "timer"
    BY DEF TypeOK
  <2>2. \A i \in 1 .. Len(waits) : Before(arg[t], waits[i])
    BY <1>4, <2>1 DEF Before, Precedes, Apart, IsCall
  <2>. QED
    BY <1>1, <2>2 DEF WaitInv
<1>7. CallInv'
  <2>. SUFFICES ASSUME NEW u \in Threads, Busy(u)'
                PROVE  /\ arg'[u].kind # "consume" => arg'[u].by = u
                       /\ \A i \in 1 .. Len(Line') : Precedes(Line'[i], arg'[u])
                       /\ \A i \in 1 .. Len(waits') : Precedes(waits'[i], arg'[u])
                       /\ \A v \in Threads : Busy(v)' /\ v # u => Apart(arg'[v], arg'[u])
    BY DEF CallInv
  <2>1. Busy(u) /\ u # t
    BY <1>2
  <2>2. /\ arg[u].kind # "consume" => arg[u].by = u
        /\ \A i \in 1 .. n : Precedes(Line[i], arg[u])
        /\ \A i \in 1 .. Len(waits) : Precedes(waits[i], arg[u])
        /\ \A v \in Threads : Busy(v) /\ v # u => Apart(arg[v], arg[u])
    BY <2>1 DEF CallInv
  <2>3. Precedes(arg[t], arg[u])
    BY <1>4, <2>1, <2>2 DEF Precedes
  <2>4. \A i \in 1 .. Len(Line') : Precedes(Line'[i], arg[u])
    BY <1>1, <2>2, <2>3
  <2>. QED
    BY <1>2, <2>2, <2>4
<1>8. CancelInv'
  BY <1>1, <1>2 DEF CancelInv, InHand
<1>9. ConsumeInv'
  <2>1. \A j \in 1 .. Len(Line') : Line'[j].kind = "consume" => Produced(log', Line'[j].id, j)
    <3>. SUFFICES ASSUME NEW j \in 1 .. Len(Line'), Line'[j].kind = "consume"
                  PROVE  Produced(log, Line'[j].id, j)
      OBVIOUS
    <3>1. CASE j \in 1 .. n
      BY <1>1, <3>1 DEF ConsumeInv
    <3>2. CASE j = n + 1
      <4>1. Produced(log, arg[t].id, Len(log) + 1)
        BY <1>1, <3>2 DEF ConsumeInv
      <4>2. Len(log) \in Nat
        BY LenProperties DEF TypeOK
      <4>. QED
        BY <1>1, <3>2, <4>1, <4>2 DEF Produced
    <3>. QED
      BY <1>1, <3>1, <3>2
  <2>2. \A u \in Threads : Busy(u)' /\ arg'[u].kind = "consume" =>
            Produced(log', arg'[u].id, Len(log') + 1)
    BY <1>2 DEF ConsumeInv
  <2>3. ASSUME run'.phase = "exec", run'.h.kind = "next"
        PROVE  /\ Produced(log', run'.h.id, Len(log') + 1)
               /\ \A j \in 1 .. Len(Line') : Line'[j].kind = "consume" => Line'[j].id # run'.h.id
               /\ \A u \in Threads : Busy(u)' /\ arg'[u].kind = "consume" => arg'[u].id # run'.h.id
    BY <1>1, <1>2, <2>3 DEF ConsumeInv
  <2>. QED
    BY <2>1, <2>2, <2>3 DEF ConsumeInv
<1>. QED
  BY <1>3, <1>5, <1>6, <1>7, <1>8, <1>9

\* suspend() hands its message to the timer.
LEMMA AsyncWaitOrder ==
    ASSUME TypeInv, OrderInv, NEW t \in Threads, AsyncWait(t), Stays
    PROVE  OrderInv'
<1>. USE DEF OrderInv, Stays
<1>. DEFINE n == Len(waits)
<1>0. TypeOK /\ ArgOK
  BY DEF TypeInv
<1>1. /\ n \in Nat /\ Len(waits') = n + 1 /\ waits'[n + 1] = arg[t]
      /\ \A i \in 1 .. n : waits'[i] = waits[i]
      /\ \A i \in 1 .. Len(waits') : i \in 1 .. n \/ i = n + 1
  <2>1. arg[t] \in {h \in Handler : h.kind = "timer" /\ h.ok}
    BY <1>0 DEF AsyncWait, TypeOK, ArgOK
  <2>2. n \in Nat /\ Len(waits') = n + 1 /\ waits'[n + 1] = arg[t]
        /\ \A i \in 1 .. n : waits'[i] = waits[i]
    BY <1>0, <2>1, AppendProperties, LenProperties DEF AsyncWait, TypeOK
  <2>. QED
    BY <2>2
<1>2. Busy(t) /\ arg[t].kind = "timer" /\ UNCHANGED <<arg, run, log, aborted, ops>>
  BY <1>0 DEF AsyncWait, Busy, ArgOK
<1>3. \A u \in Threads : Busy(u)' => Busy(u) /\ u # t
  BY <1>0 DEF AsyncWait, Busy, TypeOK
<1>4. /\ arg[t].by = t
      /\ \A i \in 1 .. Len(Line) : Precedes(Line[i], arg[t])
      /\ \A i \in 1 .. n : Precedes(waits[i], arg[t])
      /\ \A u \in Threads : Busy(u) /\ u # t => Apart(arg[u], arg[t])
  BY <1>2 DEF CallInv
<1>5. NumberInv'
  BY <1>1, <1>2, <1>3 DEF NumberInv
<1>6. LineInv'
  BY DEF LineInv
<1>7. WaitInv'
  <2>0. \A h \in Handler : Precedes(h, arg[t]) => Before(h, arg[t])
    BY <1>2 DEF Precedes, Before, IsCall
  <2>1. \A i \in 1 .. n : Before(waits[i], arg[t])
    BY <1>0, <1>4, <2>0 DEF TypeOK
  <2>2. \A i, j \in 1 .. Len(waits') : i < j => Before(waits'[i], waits'[j])
    BY <1>1, <2>1 DEF WaitInv
  <2>4. \A i \in 1 .. Len(Line) : Line[i] \in Handler
    BY <1>0, LineType, ElementOfSeq DEF LineFacts
  <2>5. \A i \in 1 .. Len(Line) : Before(Line[i], arg[t])
    BY <1>4, <2>0, <2>4
  <2>3. \A i \in 1 .. Len(Line'), j \in 1 .. Len(waits') : Before(Line'[i], waits'[j])
    BY <1>1, <2>5 DEF WaitInv
  <2>. QED
    BY <2>2, <2>3 DEF WaitInv
<1>8. CallInv'
  <2>. SUFFICES ASSUME NEW u \in Threads, Busy(u)'
                PROVE  /\ arg'[u].kind # "consume" => arg'[u].by = u
                       /\ \A i \in 1 .. Len(Line') : Precedes(Line'[i], arg'[u])
                       /\ \A i \in 1 .. Len(waits') : Precedes(waits'[i], arg'[u])
                       /\ \A v \in Threads : Busy(v)' /\ v # u => Apart(arg'[v], arg'[u])
    BY DEF CallInv
  <2>1. Busy(u) /\ u # t
    BY <1>3
  <2>2. /\ arg[u].kind # "consume" => arg[u].by = u
        /\ \A i \in 1 .. Len(Line) : Precedes(Line[i], arg[u])
        /\ \A i \in 1 .. n : Precedes(waits[i], arg[u])
        /\ \A v \in Threads : Busy(v) /\ v # u => Apart(arg[v], arg[u])
    BY <2>1 DEF CallInv
  <2>3. Precedes(arg[t], arg[u])
    BY <1>2, <1>4, <2>1, <2>2 DEF Precedes
  <2>4. \A i \in 1 .. Len(waits') : Precedes(waits'[i], arg[u])
    BY <1>1, <2>2, <2>3
  <2>. QED
    BY <1>2, <1>3, <2>2, <2>4
<1>9. CancelInv'
  <2>1. arg[t].id \notin aborted
    BY <1>2 DEF CancelInv
  <2>. QED
    BY <1>1, <1>2, <1>3, <2>1 DEF CancelInv, InHand
<1>10. ConsumeInv'
  <2>1. NoNewCalls
    BY <1>2, <1>3 DEF NoNewCalls, Busy
  <2>. QED
    BY <1>2, <2>1, ConsumersKept
<1>. QED
  BY <1>5, <1>6, <1>7, <1>8, <1>9, <1>10

----------------------------------------------------------------------------
(* Steps that start a call. *)

\* dispatch(), next() or suspend() gets a new number, behind all others.
LEMMA CallOrder ==
    ASSUME TypeInv, OrderInv, NEW t \in Threads, NEW slot \in Slots,
           NEW kind \in {"dispatch", "next", "timer"}, Call(t, kind, slot), Stays
    PROVE  OrderInv'
<1>. USE DEF OrderInv, Stays
<1>. DEFINE m == Msg(kind, ops + 1, t, slot)
<1>1. ops \in Nat /\ ops' = ops + 1 /\ UNCHANGED <<run, log, waits, aborted>> /\ pc[t] = "idle"
  BY ChannelAssumption DEF Call, CanCall, TypeInv, TypeOK, Ids
<1>2. m.kind = kind /\ m.id = ops + 1 /\ m.by = t
  BY DEF Msg
<1>3. \A u \in Threads : Busy(u)' =>
            \/ u # t /\ Busy(u) /\ arg'[u] = arg[u]
            \/ u = t /\ arg'[u] = m
  BY DEF Call, CanCall, BeginIsOpen, Busy, TypeInv, TypeOK
<1>. HIDE DEF m
<1>4. NumberInv'
  <2>1. \A i \in 1 .. Len(Line') : Numbered(Line'[i], ops')
    BY <1>1 DEF NumberInv, Numbered
  <2>2. \A i \in 1 .. Len(waits') : Numbered(waits'[i], ops')
    BY <1>1 DEF NumberInv, Numbered
  <2>3. \A u \in Threads : Busy(u)' => Numbered(arg'[u], ops')
    BY <1>1, <1>2, <1>3 DEF NumberInv, Numbered
  <2>4. aborted' \subseteq 1 .. ops'
    BY <1>1 DEF NumberInv
  <2>. QED
    BY <2>1, <2>2, <2>3, <2>4 DEF NumberInv
<1>5. LineInv' /\ WaitInv'
  BY <1>1 DEF LineInv, WaitInv
<1>6. /\ \A i \in 1 .. Len(Line) : Precedes(Line[i], m)
      /\ \A i \in 1 .. Len(waits) : Precedes(waits[i], m)
      /\ \A u \in Threads : Busy(u) => Apart(arg[u], m) /\ Apart(m, arg[u])
  <2>1. \A i \in 1 .. Len(Line) : Precedes(Line[i], m)
    BY <1>1, <1>2 DEF NumberInv, Numbered, Precedes, Apart
  <2>2. \A i \in 1 .. Len(waits) : Precedes(waits[i], m)
    BY <1>1, <1>2 DEF NumberInv, Numbered, Precedes, Apart
  <2>3. \A u \in Threads : Busy(u) => Apart(arg[u], m) /\ Apart(m, arg[u])
    BY <1>1, <1>2 DEF NumberInv, Numbered, Apart
  <2>. QED
    BY <2>1, <2>2, <2>3
<1>7. CallInv'
  <2>. SUFFICES ASSUME NEW u \in Threads, Busy(u)'
                PROVE  /\ arg'[u].kind # "consume" => arg'[u].by = u
                       /\ \A i \in 1 .. Len(Line') : Precedes(Line'[i], arg'[u])
                       /\ \A i \in 1 .. Len(waits') : Precedes(waits'[i], arg'[u])
                       /\ \A v \in Threads : Busy(v)' /\ v # u => Apart(arg'[v], arg'[u])
    BY DEF CallInv
  <2>1. CASE u = t
    BY <1>1, <1>2, <1>3, <1>6, <2>1
  <2>2. CASE u # t
    <3>1. Busy(u) /\ arg'[u] = arg[u]
      BY <1>3, <2>2
    <3>. QED
      BY <1>1, <1>3, <1>6, <3>1 DEF CallInv
  <2>. QED
    BY <2>1, <2>2
<1>8. CancelInv'
  <2>1. m.id \notin aborted
    BY <1>1, <1>2 DEF NumberInv
  <2>. QED
    BY <1>1, <1>3, <2>1 DEF CancelInv, InHand
<1>9. ConsumeInv'
  BY <1>1, <1>2, <1>3 DEF ConsumeInv
<1>. QED
  BY <1>4, <1>5, <1>7, <1>8, <1>9

\* The producer of next() returns, and its result is dispatched to the consumer.
LEMMA ReturnOrder ==
    ASSUME TypeInv, OrderInv, RunReturn, Stays
    PROVE  OrderInv'
<1>. USE DEF OrderInv, Stays
<1>. DEFINE m == [run.h EXCEPT !.kind = "consume"]
<1>0. TypeOK
  BY DEF TypeInv
<1>1. UNCHANGED <<log, waits, aborted, ops>> /\ run.phase = "exec" /\ run'.phase = "idle"
  BY DEF RunReturn, Idle
<1>2. run.h \in Handler /\ m.kind = "consume" /\ m.id = run.h.id
  BY <1>0 DEF TypeOK, Handler
<1>3. \A u \in Threads : Busy(u)' =>
            \/ u # Worker /\ Busy(u) /\ arg'[u] = arg[u]
            \/ u = Worker /\ arg'[u] = m /\ run.h.kind = "next"
  BY <1>0, WorkerIsThread DEF RunReturn, BeginIsOpen, Busy, TypeOK
<1>. HIDE DEF m
<1>4. run.h.kind = "next" =>
        /\ Produced(log, m.id, Len(log) + 1)
        /\ \A j \in 1 .. Len(Line) : Line[j].kind = "consume" => Line[j].id # m.id
        /\ \A u \in Threads : Busy(u) /\ arg[u].kind = "consume" => arg[u].id # m.id
  BY <1>1, <1>2 DEF ConsumeInv
<1>5. run.h.kind = "next" => m.id \in 1 .. ops
  <2>. SUFFICES ASSUME run.h.kind = "next" PROVE m.id \in 1 .. ops
    OBVIOUS
  <2>1. PICK i \in 1 .. Len(log) : log[i].kind = "next" /\ log[i].id = m.id
    BY <1>4 DEF Produced
  <2>2. i \in 1 .. Len(Line) /\ Line[i] = log[i]
    BY <1>0, LineType DEF LineFacts
  <2>. QED
    BY <2>1, <2>2 DEF NumberInv, Numbered
<1>6. NumberInv'
  <2>1. \A u \in Threads : Busy(u)' => Numbered(arg'[u], ops')
    BY <1>1, <1>3, <1>5 DEF NumberInv, Numbered
  <2>. QED
    BY <1>1, <2>1 DEF NumberInv
<1>7. LineInv' /\ WaitInv'
  BY <1>1 DEF LineInv, WaitInv
<1>8. run.h.kind = "next" =>
        /\ \A i \in 1 .. Len(Line) : Precedes(Line[i], m)
        /\ \A i \in 1 .. Len(waits) : Precedes(waits[i], m)
        /\ \A u \in Threads : Busy(u) => Apart(arg[u], m) /\ Apart(m, arg[u])
  <2>1. \A i \in 1 .. Len(waits) : waits[i].kind = "timer"
    BY <1>0 DEF TypeOK
  <2>. QED
    BY <1>2, <1>4, <2>1 DEF Precedes, Apart
<1>9. CallInv'
  <2>. SUFFICES ASSUME NEW u \in Threads, Busy(u)'
                PROVE  /\ arg'[u].kind # "consume" => arg'[u].by = u
                       /\ \A i \in 1 .. Len(Line') : Precedes(Line'[i], arg'[u])
                       /\ \A i \in 1 .. Len(waits') : Precedes(waits'[i], arg'[u])
                       /\ \A v \in Threads : Busy(v)' /\ v # u => Apart(arg'[v], arg'[u])
    BY DEF CallInv
  <2>1. CASE u = Worker
    BY <1>1, <1>2, <1>3, <1>8, <2>1
  <2>2. CASE u # Worker
    <3>1. Busy(u) /\ arg'[u] = arg[u]
      BY <1>3, <2>2
    <3>. QED
      BY <1>1, <1>3, <1>8, <3>1 DEF CallInv
  <2>. QED
    BY <2>1, <2>2
<1>10. CancelInv'
  <2>1. InHand' = 0 /\ InHand = 0
    BY <1>1 DEF InHand
  <2>. QED
    BY <1>1, <1>2, <1>3, <2>1 DEF CancelInv
<1>11. ConsumeInv'
  <2>1. \A u \in Threads : Busy(u)' /\ arg'[u].kind = "consume" =>
            Produced(log', arg'[u].id, Len(log') + 1)
    BY <1>1, <1>3, <1>4 DEF ConsumeInv
  <2>. QED
    BY <1>1, <2>1 DEF ConsumeInv
<1>. QED
  BY <1>6, <1>7, <1>9, <1>10, <1>11

----------------------------------------------------------------------------
(* Steps of the strand. *)

\* What holds between the handlers of the line holds when one is taken out.
LEMMA ShrinkOrder ==
    ASSUME TypeOK, OrderInv, Stays \/ Drops, NoNewCalls, UNCHANGED <<waits, aborted, ops>>
    PROVE  NumberInv' /\ LineInv' /\ WaitInv' /\ CallInv'
<1>. USE DEF OrderInv
<1>. DEFINE e(i) == IF Stays \/ i <= Len(log) THEN i ELSE i + 1
<1>1. Len(log) \in Nat /\ Len(Line) \in Nat
  <2>1. LineFacts
    BY LineType
  <2>. QED
    BY <2>1 DEF LineFacts
<1>2. \A i \in 1 .. Len(Line') : e(i) \in 1 .. Len(Line) /\ Line'[i] = Line[e(i)]
  <2>1. CASE Stays
    BY <2>1 DEF Stays
  <2>2. CASE Drops /\ ~Stays
    BY <1>1, <2>2 DEF Drops
  <2>. QED
    BY <2>1, <2>2
<1>3. \A i, j \in 1 .. Len(Line') : i < j => e(i) < e(j)
  BY <1>1
<1>. HIDE DEF e
<1>4. \A t \in Threads : Busy(t)' => Busy(t)
  BY DEF NoNewCalls, Busy
<1>5. arg' = arg
  BY DEF NoNewCalls
<1>6. NumberInv'
  BY <1>2, <1>4, <1>5 DEF NumberInv
<1>7. LineInv'
  BY <1>2, <1>3 DEF LineInv
<1>8. WaitInv'
  BY <1>2 DEF WaitInv
<1>9. CallInv'
  BY <1>2, <1>4, <1>5 DEF CallInv
<1>. QED
  BY <1>6, <1>7, <1>8, <1>9

LEMMA ProducedAppend ==
    ASSUME NEW q \in Seq(Handler), NEW h \in Handler, NEW id, NEW j, Produced(q, id, j)
    PROVE  Produced(Append(q, h), id, j)
<1>1. /\ Len(q) \in Nat /\ Len(Append(q, h)) = Len(q) + 1
      /\ \A i \in 1 .. Len(q) : Append(q, h)[i] = q[i]
  BY AppendProperties, LenProperties
<1>2. PICK i \in 1 .. Len(q) : i < j /\ q[i].kind = "next" /\ q[i].id = id
  BY DEF Produced
<1>3. i \in 1 .. Len(Append(q, h)) /\ Append(q, h)[i] = q[i]
  BY <1>1
<1>. QED
  BY <1>2, <1>3 DEF Produced

LEMMA TakeOrder ==
    ASSUME TypeOK, TypeOK', OrderInv, RunTake
    PROVE  OrderInv'
<1>. USE DEF OrderInv
<1>. DEFINE h == Head(strand)
<1>1. NoNewCalls /\ UNCHANGED <<pc, arg, waits, aborted, ops>>
  BY DEF RunTake, NoNewCalls
<1>2. Stays \/ Drops
  BY LineTake
<1>3. NumberInv' /\ LineInv' /\ WaitInv' /\ CallInv'
  BY <1>1, <1>2, ShrinkOrder
<1>4. InHand = 0 /\ Line[Len(log) + 1] = h /\ h \in Handler
  BY LineTake, HeadTailProperties DEF RunTake, TypeOK
<1>5. log \in Seq(Handler) /\ Len(log) \in Nat
  BY LenProperties DEF TypeOK
<1>6. Len(Line) \in Nat /\ Len(log) < Len(Line)
  <2>1. LineFacts
    BY LineType
  <2>2. Len(Line) \in Nat
    BY <2>1 DEF LineFacts
  <2>. QED
    BY <2>2, LineTake
<1>7. CASE Stays /\ log' = Append(log, h) /\ h.kind = "stop" /\ run'.phase = "exec" /\ run'.h = h
  <2>. HIDE DEF h
  <2>1. Len(log') = Len(log) + 1
    BY <1>4, <1>5, <1>7, AppendProperties
  <2>2. InHand' = 0
    BY <1>7 DEF InHand
  <2>3. \A i \in 1 .. Len(Line) : i <= Len(log) + 1 => i <= Len(log) \/ i = Len(log) + 1
    BY <1>5
  <2>4. CancelInv'
    BY <1>1, <1>4, <1>5, <1>7, <2>1, <2>2, <2>3 DEF CancelInv, Stays, Busy
  <2>5. ConsumeInv'
    <3>1. \A j \in 1 .. Len(Line') : Line'[j].kind = "consume" => Produced(log', Line'[j].id, j)
      BY <1>4, <1>5, <1>7, ProducedAppend DEF ConsumeInv, Stays
    <3>2. \A t \in Threads : Busy(t)' /\ arg'[t].kind = "consume" =>
            Produced(log', arg'[t].id, Len(log') + 1)
      <4>. SUFFICES ASSUME NEW t \in Threads, Busy(t)', arg'[t].kind = "consume"
                    PROVE  Produced(log', arg'[t].id, Len(log') + 1)
        OBVIOUS
      <4>1. Produced(log, arg[t].id, Len(log) + 1)
        BY <1>1 DEF ConsumeInv, Busy
      <4>2. Produced(log', arg[t].id, Len(log) + 1)
        BY <1>4, <1>5, <1>7, <4>1, ProducedAppend
      <4>. QED
        BY <1>1, <1>5, <2>1, <4>2 DEF Produced
    <3>. QED
      BY <1>7, <3>1, <3>2 DEF ConsumeInv
  <2>. QED
    BY <1>3, <2>4, <2>5
<1>8. CASE Stays /\ log' = log /\ Live(h) /\ run'.phase = "checked" /\ run'.h = h
  <2>. HIDE DEF h
  <2>1. InHand' = 1
    BY <1>8 DEF InHand
  <2>2. \A i \in 1 .. Len(Line) : i <= Len(log) + 1 => i <= Len(log) \/ i = Len(log) + 1
    BY <1>5
  <2>3. CancelInv'
    BY <1>1, <1>4, <1>5, <1>8, <2>1, <2>2 DEF CancelInv, Stays, Busy, Live
  <2>4. ConsumeInv'
    BY <1>1, <1>8 DEF ConsumeInv, Stays, Busy
  <2>. QED
    BY <1>3, <2>3, <2>4
<1>9. CASE Drops /\ log' = log /\ run' = run
  <2>. HIDE DEF h
  <2>1. InHand' = 0
    BY <1>4, <1>9 DEF InHand
  <2>2. \A i \in 1 .. Len(Line') :
            \/ i <= Len(log) /\ i \in 1 .. Len(Line) /\ Line'[i] = Line[i]
            \/ Len(log) < i /\ i + 1 \in 1 .. Len(Line) /\ Line'[i] = Line[i + 1]
    BY <1>5, <1>6, <1>9 DEF Drops
  <2>3. CancelInv'
    BY <1>1, <1>4, <1>5, <1>9, <2>1, <2>2 DEF CancelInv, Busy
  <2>4. ConsumeInv'
    <3>1. run.phase = "idle"
      BY DEF RunTake
    <3>2. ASSUME NEW j \in 1 .. Len(Line'), Line'[j].kind = "consume"
          PROVE  Produced(log, Line'[j].id, j)
      <4>1. CASE j <= Len(log) /\ j \in 1 .. Len(Line) /\ Line'[j] = Line[j]
        BY <3>2, <4>1 DEF ConsumeInv
      <4>2. CASE Len(log) < j /\ j + 1 \in 1 .. Len(Line) /\ Line'[j] = Line[j + 1]
        <5>1. Produced(log, Line'[j].id, j + 1)
          BY <3>2, <4>2 DEF ConsumeInv
        <5>. QED
          BY <1>5, <4>2, <5>1 DEF Produced
      <4>. QED
        BY <2>2, <4>1, <4>2
    <3>. QED
      BY <1>1, <1>9, <3>1, <3>2 DEF ConsumeInv, Busy
  <2>. QED
    BY <1>3, <2>3, <2>4
<1>. QED
  BY <1>7, <1>8, <1>9, LineTake

LEMMA RunCallOrder ==
    ASSUME TypeOK, TypeOK', OrderInv, RunCall
    PROVE  OrderInv'
<1>. USE DEF OrderInv
<1>1. NoNewCalls /\ UNCHANGED <<pc, arg, waits, aborted, ops>> /\ run.phase = "checked"
  BY DEF RunCall, NoNewCalls
<1>2. Stays \/ Drops
  BY LineCall
<1>3. NumberInv' /\ LineInv' /\ WaitInv' /\ CallInv'
  BY <1>1, <1>2, ShrinkOrder
<1>4. InHand = 1 /\ Line[Len(log) + 1] = run.h /\ InHand' = 0
  BY LineCall
<1>5. log \in Seq(Handler) /\ Len(log) \in Nat /\ run.h \in Handler
  BY LenProperties DEF TypeOK
<1>6. Len(Line) \in Nat /\ Len(log) < Len(Line)
  <2>1. LineFacts
    BY LineType
  <2>2. Len(Line) \in Nat
    BY <2>1 DEF LineFacts
  <2>. QED
    BY <2>2, LineCall
<1>7. CASE Stays /\ log' = Append(log, run.h)
  <2>1. Len(log') = Len(log) + 1 /\ log'[Len(log) + 1] = run.h
    BY <1>5, <1>7, AppendProperties
  <2>2. CancelInv'
    BY <1>1, <1>4, <1>5, <1>7, <2>1 DEF CancelInv, Stays, Busy
  <2>3. \A j \in 1 .. Len(Line') : Line'[j].kind = "consume" => Produced(log', Line'[j].id, j)
    BY <1>5, <1>7, ProducedAppend DEF ConsumeInv, Stays
  <2>4. \A t \in Threads : Busy(t)' /\ arg'[t].kind = "consume" =>
            Produced(log, arg[t].id, Len(log) + 1) /\ Produced(log', arg'[t].id, Len(log') + 1)
    <3>. SUFFICES ASSUME NEW t \in Threads, Busy(t)', arg'[t].kind = "consume"
                  PROVE  Produced(log, arg[t].id, Len(log) + 1)
                         /\ Produced(log', arg'[t].id, Len(log') + 1)
      OBVIOUS
    <3>1. Produced(log, arg[t].id, Len(log) + 1)
      BY <1>1 DEF ConsumeInv, Busy
    <3>2. Produced(log', arg[t].id, Len(log) + 1)
      BY <1>5, <1>7, <3>1, ProducedAppend
    <3>. QED
      BY <1>1, <1>5, <2>1, <3>1, <3>2 DEF Produced
  \* What a consumer in the line waits for was called before this handler.
  <2>5. ASSUME run.h.kind = "next", NEW id, NEW j, Produced(log, id, j)
        PROVE  id # run.h.id
    <3>1. PICK i \in 1 .. Len(log) : log[i].kind = "next" /\ log[i].id = id
      BY <2>5 DEF Produced
    <3>2. i \in 1 .. Len(Line) /\ Line[i] = log[i]
      <4>1. LineFacts
        BY LineType
      <4>. QED
        BY <4>1 DEF LineFacts
    <3>3. i < Len(log) + 1 /\ Len(log) + 1 \in 1 .. Len(Line)
      BY <1>5, <1>6
    <3>4. Before(Line[i], Line[Len(log) + 1])
      BY <1>5, <3>2, <3>3 DEF LineInv
    <3>. QED
      BY <1>4, <2>5, <3>1, <3>2, <3>4 DEF Before, Apart
  <2>6. ASSUME run'.phase = "exec", run'.h.kind = "next"
        PROVE  /\ Produced(log', run'.h.id, Len(log') + 1)
               /\ \A j \in 1 .. Len(Line') : Line'[j].kind = "consume" => Line'[j].id # run'.h.id
               /\ \A t \in Threads : Busy(t)' /\ arg'[t].kind = "consume" => arg'[t].id # run'.h.id
    <3>1. run'.h = run.h
      BY <2>6 DEF RunCall, Idle, TypeOK
    <3>2. Produced(log', run.h.id, Len(log') + 1)
      BY <1>5, <2>1, <2>6, <3>1 DEF Produced
    <3>3. \A j \in 1 .. Len(Line') : Line'[j].kind = "consume" => Line'[j].id # run.h.id
      BY <1>7, <2>5, <2>6, <3>1 DEF ConsumeInv, Stays
    <3>4. \A t \in Threads : Busy(t)' /\ arg'[t].kind = "consume" => arg'[t].id # run.h.id
      BY <1>1, <2>4, <2>5, <2>6, <3>1
    <3>. QED
      BY <3>1, <3>2, <3>3, <3>4
  <2>7. ConsumeInv'
    BY <2>3, <2>4, <2>6 DEF ConsumeInv
  <2>. QED
    BY <1>3, <2>2, <2>7
<1>8. CASE Drops /\ log' = log /\ run' = Idle
  <2>1. \A i \in 1 .. Len(Line') :
            \/ i <= Len(log) /\ i \in 1 .. Len(Line) /\ Line'[i] = Line[i]
            \/ Len(log) < i /\ i + 1 \in 1 .. Len(Line) /\ Line'[i] = Line[i + 1]
    BY <1>5, <1>6, <1>8 DEF Drops
  <2>2. CancelInv'
    BY <1>1, <1>4, <1>5, <1>8, <2>1 DEF CancelInv, Busy
  <2>3. ConsumeInv'
    <3>1. run'.phase = "idle"
      BY <1>8 DEF Idle
    <3>2. ASSUME NEW j \in 1 .. Len(Line'), Line'[j].kind = "consume"
          PROVE  Produced(log, Line'[j].id, j)
      <4>1. CASE j <= Len(log) /\ j \in 1 .. Len(Line) /\ Line'[j] = Line[j]
        BY <3>2, <4>1 DEF ConsumeInv
      <4>2. CASE Len(log) < j /\ j + 1 \in 1 .. Len(Line) /\ Line'[j] = Line[j + 1]
        <5>1. Produced(log, Line'[j].id, j + 1)
          BY <3>2, <4>2 DEF ConsumeInv
        <5>. QED
          BY <1>5, <4>2, <5>1 DEF Produced
      <4>. QED
        BY <2>1, <4>1, <4>2
    <3>. QED
      BY <1>1, <1>8, <3>1, <3>2 DEF ConsumeInv, Busy
  <2>. QED
    BY <1>3, <2>2, <2>3
<1>. QED
  BY <1>7, <1>8, LineCall

----------------------------------------------------------------------------
(* Every step. *)

LEMMA JoinedLine ==
    ASSUME NEW a \in Seq(Handler), NEW b \in Seq(Handler), NEW c \in Seq(Handler)
    PROVE  /\ (a \o b) \o c = a \o (b \o c)
           /\ b \o c \in Seq(Handler)
           /\ Len(b \o c) = Len(b) + Len(c)
           /\ \A i \in 1 .. Len(b) + Len(c) :
                (b \o c)[i] = IF i <= Len(b) THEN b[i] ELSE c[i - Len(b)]
<1>1. (a \o b) \o c = a \o (b \o c)
  BY ConcatAssociative
<1>2. /\ b \o c \in Seq(Handler)
      /\ Len(b \o c) = Len(b) + Len(c)
      /\ \A i \in 1 .. Len(b) + Len(c) :
            (b \o c)[i] = IF i <= Len(b) THEN b[i] ELSE c[i - Len(b)]
  BY ConcatProperties
<1>. QED
  BY <1>1, <1>2

\* Cancelling the waits, and posting the handlers of stop() behind them.
LEMMA CancelAllOrder ==
    ASSUME TypeOK, TypeOK', OrderInv, NEW rest \in Seq(Handler), CancelAll(rest),
           \A i \in 1 .. Len(rest) : rest[i].kind = "stop",
           NoNewCalls, UNCHANGED <<run, log, ops>>
    PROVE  OrderInv'
<1>. DEFINE q == AbortedWaits \o rest
<1>1. AbortedWaits \in Seq(Handler) /\ strand \in Seq(Handler)
  BY AbortedWaitsType DEF TypeOK
<1>2. \A i \in 1 .. Len(waits) : Alike(AbortedWaits[i], waits[i]) /\ ~AbortedWaits[i].ok
  <2>1. \A i \in 1 .. Len(waits) : waits[i] \in Handler
    BY DEF TypeOK
  <2>2. \A i \in 1 .. Len(waits) : AbortedWaits[i] = Abort(waits[i])
    BY LenProperties DEF TypeOK, AbortedWaits
  <2>. QED
    BY <2>1, <2>2 DEF Abort, Alike, Handler
<1>3. /\ q \in Seq(Handler)
      /\ Len(q) = Len(AbortedWaits) + Len(rest)
      /\ \A i \in 1 .. Len(AbortedWaits) + Len(rest) :
            q[i] = IF i <= Len(AbortedWaits) THEN AbortedWaits[i] ELSE rest[i - Len(AbortedWaits)]
  BY <1>1, ConcatProperties
<1>4. strand' = strand \o q
  <2>1. strand' = (strand \o AbortedWaits) \o rest
    BY DEF CancelAll
  <2>. QED
    BY <1>1, <2>1, JoinedLine
<1>. HIDE DEF q
<1>5. Grows(q)
  BY <1>3, <1>4, LineGrows
<1>6. Len(AbortedWaits) = Len(waits) /\ Len(waits) \in Nat /\ Len(rest) \in Nat
  BY AbortedWaitsType, LenProperties DEF TypeOK
<1>7. \A i \in 1 .. Len(waits) : Alike(q[i], waits[i]) /\ ~q[i].ok
  BY <1>2, <1>3, <1>6
<1>8. ASSUME NEW i \in 1 .. Len(q), Len(waits) < i
      PROVE  q[i].kind = "stop"
  <2>1. q[i] = rest[i - Len(waits)] /\ i - Len(waits) \in 1 .. Len(rest)
    BY <1>3, <1>6, <1>8
  <2>. QED
    BY <2>1
<1>9. Len(waits) <= Len(q)
  BY <1>3, <1>6
<1>10. waits' = <<>> /\ aborted' = aborted \cup {waits[i].id : i \in 1 .. Len(waits)}
  BY DEF CancelAll
<1>. QED
  BY <1>3, <1>5, <1>7, <1>8, <1>9, <1>10, FlushOrder

LEMMA CancelOrder ==
    ASSUME TypeOK, TypeOK', OrderInv, NEW rest \in Seq(Handler), CancelWaits(rest),
           \A i \in 1 .. Len(rest) : rest[i].kind = "stop",
           NoNewCalls, UNCHANGED <<run, log, ops>>
    PROVE  OrderInv'
<1>1. CASE CancelMisses(rest)
  <2>1. Grows(rest)
    BY <1>1, LineGrows DEF CancelMisses
  <2>. QED
    BY <1>1, <2>1, EndPostOrder DEF CancelMisses
<1>. QED
  BY <1>1, CancelAllOrder DEF CancelWaits

LEMMA OrderStep == TypeInv /\ OrderInv /\ [Next]_vars => OrderInv'
<1>. SUFFICES ASSUME TypeInv, OrderInv, [Next]_vars PROVE OrderInv'
  OBVIOUS
<1>0. TypeOK /\ ArgOK /\ TypeOK'
  BY TypeStep DEF TypeInv
<1>1. ASSUME NEW t \in Threads, NEW slot \in Slots, NEW kind \in {"dispatch", "next", "timer"},
             Call(t, kind, slot)
      PROVE  OrderInv'
  <2>1. Stays
    BY <1>1, LineStays DEF Call
  <2>. QED
    BY <1>1, <2>1, CallOrder
<1>2. ASSUME NEW t \in Threads, Proceed(t)
      PROVE  OrderInv'
  <2>1. pc[t] = "checked" /\ UNCHANGED <<arg, run, log, ops>>
    BY <1>2 DEF Proceed
  <2>2. CASE UNCHANGED <<strand, waits, aborted>> /\ pc' = [pc EXCEPT ![t] = "idle"]
    <3>1. Stays
      BY <2>1, <2>2, LineStays
    <3>2. NoNewCalls
      BY <1>0, <2>1, <2>2 DEF NoNewCalls, TypeOK
    <3>. QED
      BY <2>1, <2>2, <3>1, <3>2, QuietOrder
  <2>3. CASE CancelWaits(<<>>) /\ pc' = [pc EXCEPT ![t] = "wait"]
    <3>1. NoNewCalls
      BY <1>0, <2>1, <2>3 DEF NoNewCalls, TypeOK
    <3>2. <<>> \in Seq(Handler) /\ \A i \in 1 .. Len(<<>>) : <<>>[i].kind = "stop"
      BY EmptySeq
    <3>. QED
      BY <1>0, <2>1, <2>3, <3>1, <3>2, CancelOrder
  <2>4. CASE /\ Post(arg[t]) /\ arg[t].kind # "timer" /\ UNCHANGED <<waits, aborted>>
             /\ pc' = [pc EXCEPT ![t] = "idle"]
    <3>1. arg[t] \in Handler /\ arg[t].kind # "stop" /\ Busy(t)
      BY <1>0, <2>1 DEF TypeOK, ArgOK, Busy
    <3>2. <<arg[t]>> \in Seq(Handler) /\ strand' = strand \o <<arg[t]>>
      BY <1>0, <2>4, <3>1, AppendIsConcat DEF Post, TypeOK
    <3>3. Grows(<<arg[t]>>)
      BY <1>0, <2>1, <3>2, LineGrows
    <3>. QED
      BY <1>0, <2>1, <2>4, <3>1, <3>3, PostOrder
  <2>. QED
    BY <1>2, <2>2, <2>3, <2>4 DEF Proceed
<1>3. ASSUME NEW t \in Threads, AsyncWait(t)
      PROVE  OrderInv'
  <2>1. Stays
    BY <1>3, LineStays DEF AsyncWait
  <2>. QED
    BY <1>3, <2>1, AsyncWaitOrder
<1>4. ASSUME NEW t \in Threads, CancelTimer(t)
      PROVE  OrderInv'
  <2>1. CancelWaits(<<>>) /\ NoNewCalls /\ UNCHANGED <<run, log, ops>>
    BY <1>4 DEF CancelTimer, NoNewCalls
  <2>2. <<>> \in Seq(Handler) /\ \A i \in 1 .. Len(<<>>) : <<>>[i].kind = "stop"
    BY EmptySeq
  <2>. QED
    BY <1>0, <2>1, <2>2, CancelOrder
<1>5. ASSUME NEW t \in Threads, StopLoad(t)
      PROVE  OrderInv'
  <2>1. Stays
    BY <1>5, LineStays DEF StopLoad
  <2>2. NoNewCalls /\ UNCHANGED <<run, log, waits, aborted, ops>>
    BY <1>0, <1>5 DEF StopLoad, NoNewCalls, TypeOK
  <2>. QED
    BY <2>1, <2>2, QuietOrder
<1>6. ASSUME NEW t \in Threads, StopCommit(t)
      PROVE  OrderInv'
  <2>1. NoNewCalls /\ UNCHANGED <<run, log, ops>>
    BY <1>0, <1>6 DEF StopCommit, NoNewCalls, TypeOK
  <2>2. CASE ptr[t]
    <3>1. CancelWaits(StopPosts(t))
      BY <1>6, <2>2 DEF StopCommit
    <3>2. StopPosts(t) \in Seq(Handler) /\ \A i \in 1 .. Len(StopPosts(t)) : StopPosts(t)[i].kind = "stop"
      BY StopMsgType DEF StopPosts
    <3>. QED
      BY <1>0, <2>1, <3>1, <3>2, CancelOrder
  <2>3. CASE ~ptr[t]
    <3>1. UNCHANGED <<strand, waits, aborted>>
      BY <1>6, <2>3 DEF StopCommit
    <3>2. Stays
      BY <2>1, <3>1, LineStays
    <3>. QED
      BY <2>1, <3>1, <3>2, QuietOrder
  <2>. QED
    BY <2>2, <2>3
<1>7. CASE TimerFires
  <2>1. strand' = strand \o waits /\ waits' = <<>> /\ UNCHANGED <<pc, arg, run, log, aborted, ops>>
    BY <1>7 DEF TimerFires
  <2>2. waits \in Seq(Handler)
    <3>1. {h \in Handler : h.kind = "timer" /\ h.ok} \subseteq Handler
      OBVIOUS
    <3>. QED
      BY <1>0, <3>1, SeqMonotonic DEF TypeOK
  <2>3. Grows(waits)
    BY <1>0, <2>1, <2>2, LineGrows
  <2>4. NoNewCalls
    BY <2>1 DEF NoNewCalls
  <2>5. \A i \in 1 .. Len(waits) : Alike(waits[i], waits[i])
    BY DEF Alike
  <2>6. \A i \in 1 .. Len(waits) : waits[i].id \notin aborted'
    BY <2>1 DEF OrderInv, CancelInv
  <2>7. Len(waits) <= Len(waits) /\ \A i \in 1 .. Len(waits) : ~(Len(waits) < i)
    BY <2>2, LenProperties
  <2>. QED
    BY <1>0, <2>1, <2>2, <2>3, <2>4, <2>5, <2>6, <2>7, FlushOrder
<1>8. CASE RunTake
  BY <1>0, <1>8, TakeOrder
<1>9. CASE RunCall
  BY <1>0, <1>9, RunCallOrder
<1>10. CASE RunReturn
  <2>1. Stays
    <3>1. UNCHANGED <<strand, log>> /\ run.phase = "exec" /\ run'.phase = "idle"
      BY <1>10 DEF RunReturn, Idle
    <3>2. InHand = 0 /\ InHand' = 0
      BY <3>1 DEF InHand
    <3>3. LineFacts /\ LineFacts'
      BY <1>0, LineType, NextLineType
    <3>. QED
      BY <3>1, <3>2, <3>3 DEF LineFacts, Stays
  <2>. QED
    BY <1>10, <2>1, ReturnOrder
<1>11. CASE UNCHANGED vars
  <2>1. Stays
    BY <1>11, LineStays DEF vars
  <2>2. NoNewCalls /\ UNCHANGED <<run, log, waits, aborted, ops>>
    BY <1>11 DEF vars, NoNewCalls
  <2>. QED
    BY <2>1, <2>2, QuietOrder
<1>. QED
  BY <1>1, <1>2, <1>3, <1>4, <1>5, <1>6, <1>7, <1>8, <1>9, <1>10, <1>11 DEF Next

LEMMA OrderInvariant == Spec => [](TypeInv /\ OrderInv)
<1>1. Init => TypeInv /\ OrderInv
  BY TypeInit, OrderInit
<1>2. TypeInv /\ OrderInv /\ [Next]_vars => (TypeInv /\ OrderInv)'
  BY TypeStep, OrderStep
<1>. QED
  BY <1>1, <1>2, PTL DEF Spec

----------------------------------------------------------------------------
(* The theorems. *)

\* What the invariant says of the handlers that were called.
LEMMA LogOrder ==
    ASSUME TypeInv, OrderInv, NEW i \in 1 .. Len(log)
    PROVE  /\ i \in 1 .. Len(Line) /\ Line[i] = log[i]
           /\ log[i].kind = "timer" => log[i].id \notin aborted
           /\ \A j \in 1 .. Len(log) : i < j => Before(log[i], log[j])
<1>1. LineFacts
  BY LineType DEF TypeInv
<1>2. \A j \in 1 .. Len(log) : j \in 1 .. Len(Line) /\ Line[j] = log[j]
  BY <1>1 DEF LineFacts
<1>3. Len(log) \in Nat /\ i <= Len(log) + InHand
  BY <1>1 DEF LineFacts
<1>4. log[i].kind = "timer" => log[i].id \notin aborted
  BY <1>2, <1>3 DEF OrderInv, CancelInv
<1>5. \A j \in 1 .. Len(log) : i < j => Before(log[i], log[j])
  BY <1>2 DEF OrderInv, LineInv
<1>. QED
  BY <1>2, <1>4, <1>5

\* The dispatch() and next() calls of one thread reach the task in the order of
\* the calls, whoever stops the channel and however often.
THEOREM CallerOrder == Spec => []CallerFIFO
<1>1. TypeInv /\ OrderInv => CallerFIFO
  <2>. SUFFICES ASSUME TypeInv, OrderInv, NEW i \in 1 .. Len(log), NEW j \in 1 .. Len(log),
                       log[i].kind \in {"dispatch", "next"}, log[j].kind \in {"dispatch", "next"},
                       log[i].by = log[j].by, log[i].id < log[j].id
                PROVE  i < j
    BY DEF CallerFIFO
  <2>1. log[i].id \in Nat /\ log[j].id \in Nat
    <3>1. log[i] \in Handler /\ log[j] \in Handler
      BY ElementOfSeq DEF TypeInv, TypeOK
    <3>. QED
      BY <3>1, ChannelAssumption DEF Handler, Ids
  <2>2. i # j
    BY <2>1
  <2>3. j < i => log[j].id < log[i].id
    BY LogOrder DEF Before, IsCall
  <2>4. Len(log) \in Nat
    BY LenProperties DEF TypeInv, TypeOK
  <2>. QED
    BY <2>1, <2>2, <2>3, <2>4
<1>. QED
  BY <1>1, OrderInvariant, PTL

\* A wait that a later suspend(), cancel_timer() or stop() found on the timer
\* never calls its slot; one whose handler was in the strand by then calls it,
\* ahead of every later suspend() of its thread.
THEOREM CancelledSilent == Spec => []CancelledNeverRuns
<1>1. TypeInv /\ OrderInv => CancelledNeverRuns
  <2>. SUFFICES ASSUME TypeInv, OrderInv PROVE CancelledNeverRuns
    OBVIOUS
  <2>1. \A i \in 1 .. Len(log) : log[i].id \in aborted => log[i].kind # "timer"
    BY LogOrder
  <2>2. ASSUME NEW i \in 1 .. Len(log), NEW j \in 1 .. Len(log),
               log[i].kind = "timer", log[j].kind = "timer",
               log[i].by = log[j].by, log[i].id < log[j].id
        PROVE  i < j
    <3>1. log[i] \in Handler /\ log[j] \in Handler
      BY ElementOfSeq DEF TypeInv, TypeOK
    <3>2. log[i].id \in Nat /\ log[j].id \in Nat
      BY <3>1, ChannelAssumption DEF Handler, Ids
    <3>3. j < i => log[j].id < log[i].id
      BY <2>2, LogOrder DEF Before
    <3>4. Len(log) \in Nat
      BY LenProperties DEF TypeInv, TypeOK
    <3>. QED
      BY <2>2, <3>2, <3>3, <3>4
  <2>. QED
    BY <2>1, <2>2 DEF CancelledNeverRuns
<1>. QED
  BY <1>1, OrderInvariant, PTL

\* As long as no two threads are in stop() at once no message is handled twice,
\* the end of the task included, and a consumer of next() is called behind its
\* producer.
THEOREM HandledOnce == Spec /\ []StopsInTurn => []AtMostOnce
<1>1. TypeInv /\ OrderInv /\ StopInv => AtMostOnce
  <2>. SUFFICES ASSUME TypeInv, OrderInv, StopInv, NEW j \in 1 .. Len(log)
                PROVE  /\ \A i \in 1 .. j - 1 : <<log[i].kind, log[i].id>> # <<log[j].kind, log[j].id>>
                       /\ log[j].kind = "consume" =>
                            \E i \in 1 .. j - 1 : log[i].kind = "next" /\ log[i].id = log[j].id
    BY DEF AtMostOnce
  <2>0. Len(log) \in Nat
    BY LenProperties DEF TypeInv, TypeOK
  <2>1. ASSUME NEW i \in 1 .. j - 1, log[i].kind = log[j].kind
        PROVE  log[i].id # log[j].id
    <3>1. i \in 1 .. Len(log) /\ i < j
      BY <2>0
    <3>2. log[i].kind # "stop"
      BY <2>0, <3>1 DEF StopInv, LogInv
    <3>3. Before(log[i], log[j])
      BY <3>1, LogOrder
    <3>. QED
      BY <2>1, <3>2, <3>3 DEF Before, Apart
  <2>2. ASSUME log[j].kind = "consume"
        PROVE  \E i \in 1 .. j - 1 : log[i].kind = "next" /\ log[i].id = log[j].id
    <3>1. Produced(log, log[j].id, j)
      BY <2>2, LogOrder DEF OrderInv, ConsumeInv
    <3>2. PICK i \in 1 .. Len(log) : i < j /\ log[i].kind = "next" /\ log[i].id = log[j].id
      BY <3>1 DEF Produced
    <3>3. i \in 1 .. j - 1
      BY <2>0, <3>2
    <3>. QED
      BY <3>2, <3>3
  <2>. QED
    BY <2>1, <2>2
<1>. QED
  BY <1>1, OrderInvariant, StopInvariant, PTL
============================================================================

------------------------ MODULE ChannelMailboxProofs ------------------------
(***************************************************************************)
(* A channel that one thread stops implements a mailbox: the proof of the  *)
(* refinement in ChannelMailbox, step by step, from the invariants of      *)
(* ChannelProofs.                                                          *)
(***************************************************************************)
EXTENDS ChannelMailbox, ChannelProofs

----------------------------------------------------------------------------
(* One more invariant: messages are addressed to slots of the task, only   *)
(* waits carry an error, and a stop() that came late finds task_ cleared.  *)

Fit(h) == h.ok /\ h.slot \in Slots

ArgFit ==
    \A t \in Threads :
        /\ pc[t] \in {"checked", "wait"} => Fit(arg[t])
        /\ pc[t] = "wait" => arg[t].slot < SigCount
        /\ pc[t] = "stopping" /\ ~ptr[t] => ~open

QueueFit ==
    /\ \A i \in 1 .. Len(strand) : strand[i].kind # "stop" =>
        strand[i].slot \in Slots /\ (strand[i].kind # "timer" => strand[i].ok)
    /\ \A i \in 1 .. Len(waits) : Fit(waits[i])

RunFit ==
    /\ run.phase \in {"checked", "exec"} /\ run.h.kind # "stop" => Fit(run.h)
    /\ \A i \in 1 .. Len(log) : log[i].kind # "stop" => log[i].ok

FitInv == ArgFit /\ QueueFit /\ RunFit

\* What the refinement rests on.
MailInv == TypeInv /\ StopInv /\ OrderInv /\ FitInv

LEMMA FitInit == Init => FitInv
BY DEF Init, FitInv, ArgFit, QueueFit, RunFit, Idle

\* What is posted to the strand is fit when the posted handlers are.
LEMMA QueueGrows ==
    ASSUME TypeOK, QueueFit, NEW q \in Seq(Handler), strand' = strand \o q,
           \A i \in 1 .. Len(q) : q[i].kind # "stop" =>
                q[i].slot \in Slots /\ (q[i].kind # "timer" => q[i].ok)
    PROVE  \A i \in 1 .. Len(strand') : strand'[i].kind # "stop" =>
                strand'[i].slot \in Slots /\ (strand'[i].kind # "timer" => strand'[i].ok)
<1>1. /\ Len(strand) \in Nat /\ Len(q) \in Nat
      /\ Len(strand') = Len(strand) + Len(q)
      /\ \A i \in 1 .. Len(strand) + Len(q) : strand'[i] =
            IF i <= Len(strand) THEN strand[i] ELSE q[i - Len(strand)]
  BY ConcatProperties, LenProperties DEF TypeOK
<1>2. ASSUME NEW i \in 1 .. Len(strand')
      PROVE  \/ i \in 1 .. Len(strand) /\ strand'[i] = strand[i]
             \/ i - Len(strand) \in 1 .. Len(q) /\ strand'[i] = q[i - Len(strand)]
  BY <1>1
<1>. QED
  BY <1>2 DEF QueueFit

LEMMA CancelAllFit ==
    ASSUME TypeOK, QueueFit, NEW rest \in Seq(Handler), CancelAll(rest),
           \A i \in 1 .. Len(rest) : rest[i].kind = "stop"
    PROVE  QueueFit'
<1>. DEFINE q == AbortedWaits \o rest
<1>1. AbortedWaits \in Seq(Handler) /\ strand \in Seq(Handler) /\ Len(AbortedWaits) = Len(waits)
  BY AbortedWaitsType DEF TypeOK
<1>2. \A i \in 1 .. Len(waits) : AbortedWaits[i].slot \in Slots /\ AbortedWaits[i].kind = "timer"
  <2>1. \A i \in 1 .. Len(waits) : waits[i] \in Handler /\ waits[i].kind = "timer"
    BY DEF TypeOK
  <2>2. \A i \in 1 .. Len(waits) : AbortedWaits[i] = Abort(waits[i])
    BY LenProperties DEF TypeOK, AbortedWaits
  <2>3. \A i \in 1 .. Len(waits) : Abort(waits[i]).slot = waits[i].slot /\ Abort(waits[i]).kind = "timer"
    BY <2>1 DEF Abort, Handler
  <2>. QED
    BY <2>2, <2>3 DEF QueueFit, Fit
<1>8. Len(waits) \in Nat /\ Len(rest) \in Nat
  BY LenProperties DEF TypeOK
<1>3. /\ q \in Seq(Handler)
      /\ Len(q) = Len(AbortedWaits) + Len(rest)
      /\ \A i \in 1 .. Len(AbortedWaits) + Len(rest) :
            q[i] = IF i <= Len(AbortedWaits) THEN AbortedWaits[i] ELSE rest[i - Len(AbortedWaits)]
  BY <1>1, JoinedLine
<1>4. strand' = strand \o q /\ waits' = <<>>
  <2>1. strand' = (strand \o AbortedWaits) \o rest /\ waits' = <<>>
    BY DEF CancelAll
  <2>. QED
    BY <1>1, <2>1, JoinedLine
<1>. HIDE DEF q
<1>5. ASSUME NEW i \in 1 .. Len(q)
      PROVE  \/ i \in 1 .. Len(waits) /\ q[i] = AbortedWaits[i]
             \/ i - Len(waits) \in 1 .. Len(rest) /\ q[i] = rest[i - Len(waits)]
  BY <1>1, <1>3, <1>8
<1>6. \A i \in 1 .. Len(q) : q[i].kind # "stop" =>
            q[i].slot \in Slots /\ (q[i].kind # "timer" => q[i].ok)
  BY <1>2, <1>5
<1>7. Len(waits') = 0
  BY <1>4
<1>. QED
  BY <1>3, <1>4, <1>6, <1>7, QueueGrows DEF QueueFit

LEMMA CancelFit ==
    ASSUME TypeOK, QueueFit, NEW rest \in Seq(Handler), CancelWaits(rest),
           \A i \in 1 .. Len(rest) : rest[i].kind = "stop"
    PROVE  QueueFit'
<1>1. CASE CancelMisses(rest)
  BY <1>1, QueueGrows DEF CancelMisses, QueueFit
<1>. QED
  BY <1>1, CancelAllFit DEF CancelWaits

LEMMA FitStep == TypeInv /\ FitInv /\ [Next]_vars => FitInv'
<1>. SUFFICES ASSUME TypeInv, FitInv, [Next]_vars PROVE FitInv'
  OBVIOUS
<1>. USE DEF FitInv
<1>0. TypeOK /\ ArgOK
  BY DEF TypeInv
<1>1. ASSUME NEW t \in Threads, NEW slot \in Slots, NEW kind \in {"dispatch", "next", "timer"},
             Call(t, kind, slot)
      PROVE  FitInv'
  <2>1. Fit(Msg(kind, ops + 1, t, slot))
    BY DEF Fit, Msg
  <2>2. ArgFit'
    BY <1>0, <1>1, <2>1 DEF Call, CanCall, BeginIsOpen, ArgFit, TypeOK
  <2>3. QueueFit' /\ RunFit'
    BY <1>1 DEF Call, QueueFit, RunFit
  <2>. QED
    BY <2>2, <2>3
<1>2. ASSUME NEW t \in Threads, Proceed(t)
      PROVE  FitInv'
  <2>1. pc[t] = "checked" /\ UNCHANGED <<open, arg, ptr, run, log>> /\ Fit(arg[t]) /\ arg[t] \in Handler
    BY <1>0, <1>2 DEF Proceed, ArgFit, TypeOK
  <2>2. RunFit'
    BY <2>1 DEF RunFit
  <2>3. CASE UNCHANGED <<strand, waits, aborted>> /\ pc' = [pc EXCEPT ![t] = "idle"]
    BY <1>0, <2>1, <2>2, <2>3 DEF ArgFit, QueueFit, TypeOK
  <2>4. CASE CancelWaits(<<>>) /\ pc' = [pc EXCEPT ![t] = "wait"] /\ ~(arg[t].slot >= SigCount)
    <3>1. <<>> \in Seq(Handler) /\ \A i \in 1 .. Len(<<>>) : <<>>[i].kind = "stop"
      BY EmptySeq
    <3>2. QueueFit'
      BY <1>0, <2>4, <3>1, CancelFit
    <3>3. arg[t].slot < SigCount
      BY <2>1, <2>4, ChannelAssumption DEF Handler
    <3>4. ArgFit'
      BY <1>0, <2>1, <2>4, <3>3 DEF ArgFit, TypeOK
    <3>. QED
      BY <2>2, <3>2, <3>4
  <2>5. CASE Post(arg[t]) /\ UNCHANGED waits /\ pc' = [pc EXCEPT ![t] = "idle"]
    <3>. DEFINE q == <<arg[t]>>
    <3>1. q \in Seq(Handler) /\ strand' = strand \o q
      BY <1>0, <2>1, <2>5, AppendIsConcat DEF Post, TypeOK
    <3>2. \A i \in 1 .. Len(q) : q[i].slot \in Slots /\ q[i].ok
      BY <2>1 DEF Fit
    <3>. HIDE DEF q
    <3>3. QueueFit'
      BY <1>0, <2>5, <3>1, <3>2, QueueGrows DEF QueueFit
    <3>4. ArgFit'
      BY <1>0, <2>1, <2>5 DEF ArgFit, TypeOK
    <3>. QED
      BY <2>2, <3>3, <3>4
  <2>. QED
    BY <1>2, <2>3, <2>4, <2>5 DEF Proceed
<1>3. ASSUME NEW t \in Threads, AsyncWait(t)
      PROVE  FitInv'
  <2>1. Fit(arg[t])
    BY <1>3 DEF AsyncWait, ArgFit
  <2>2. arg[t] \in {h \in Handler : h.kind = "timer" /\ h.ok}
    BY <1>0, <1>3 DEF AsyncWait, TypeOK, ArgOK
  <2>3. /\ Len(waits) \in Nat /\ Len(waits') = Len(waits) + 1
        /\ \A i \in 1 .. Len(waits) : waits'[i] = waits[i]
        /\ waits'[Len(waits) + 1] = arg[t]
    BY <1>0, <1>3, <2>2, AppendProperties, LenProperties DEF AsyncWait, TypeOK
  <2>4. QueueFit'
    BY <1>3, <2>1, <2>3 DEF AsyncWait, QueueFit
  <2>5. ArgFit' /\ RunFit'
    BY <1>0, <1>3 DEF AsyncWait, ArgFit, RunFit, TypeOK
  <2>. QED
    BY <2>4, <2>5
<1>4. ASSUME NEW t \in Threads, CancelTimer(t)
      PROVE  FitInv'
  <2>1. <<>> \in Seq(Handler) /\ \A i \in 1 .. Len(<<>>) : <<>>[i].kind = "stop"
    BY EmptySeq
  <2>2. QueueFit'
    BY <1>0, <1>4, <2>1, CancelFit DEF CancelTimer
  <2>3. ArgFit' /\ RunFit'
    BY <1>4 DEF CancelTimer, ArgFit, RunFit
  <2>. QED
    BY <2>2, <2>3
<1>5. ASSUME NEW t \in Threads, StopLoad(t)
      PROVE  FitInv'
  BY <1>0, <1>5 DEF StopLoad, ArgFit, QueueFit, RunFit, TypeOK
<1>6. ASSUME NEW t \in Threads, StopCommit(t)
      PROVE  FitInv'
  <2>1. ArgFit' /\ RunFit'
    BY <1>0, <1>6 DEF StopCommit, ClearPointer, ArgFit, RunFit, TypeOK
  <2>2. QueueFit'
    <3>1. CASE ptr[t]
      <4>1. StopPosts(t) \in Seq(Handler) /\ \A i \in 1 .. Len(StopPosts(t)) : StopPosts(t)[i].kind = "stop"
        BY StopMsgType DEF StopPosts
      <4>. QED
        BY <1>0, <1>6, <3>1, <4>1, CancelFit DEF StopCommit
    <3>2. CASE ~ptr[t]
      BY <1>6, <3>2 DEF StopCommit, QueueFit
    <3>. QED
      BY <3>1, <3>2
  <2>. QED
    BY <2>1, <2>2
<1>7. CASE TimerFires
  <2>1. waits \in Seq(Handler)
    <3>1. {h \in Handler : h.kind = "timer" /\ h.ok} \subseteq Handler
      OBVIOUS
    <3>. QED
      BY <1>0, <3>1, SeqMonotonic DEF TypeOK
  <2>2. strand' = strand \o waits /\ waits' = <<>>
    BY <1>7 DEF TimerFires
  <2>3. QueueFit'
    BY <1>0, <2>1, <2>2, QueueGrows DEF QueueFit, Fit
  <2>4. ArgFit' /\ RunFit'
    BY <1>7 DEF TimerFires, ArgFit, RunFit
  <2>. QED
    BY <2>3, <2>4
<1>8. CASE RunTake
  <2>. DEFINE h == Head(strand)
  <2>1. /\ Len(strand) \in Nat /\ 1 \in 1 .. Len(strand) /\ h = strand[1] /\ h \in Handler
        /\ Len(strand') = Len(strand) - 1
        /\ \A i \in 1 .. Len(strand') : strand'[i] = strand[i + 1] /\ i + 1 \in 1 .. Len(strand)
    BY <1>0, <1>8, HeadTailProperties, LenProperties, EmptySeq DEF RunTake, TypeOK
  <2>2. QueueFit' /\ ArgFit'
    BY <1>8, <2>1 DEF RunTake, QueueFit, ArgFit
  <2>3. RunFit'
    <3>1. CASE h.kind = "stop"
      <4>1. run' = [phase |-> "exec", h |-> h] /\ log' = Append(log, h)
        BY <1>8, <3>1 DEF RunTake, Called
      <4>. HIDE DEF h
      <4>2. /\ Len(log) \in Nat /\ Len(log') = Len(log) + 1 /\ log'[Len(log) + 1] = h
            /\ \A i \in 1 .. Len(log) : log'[i] = log[i]
        BY <1>0, <2>1, <4>1, AppendProperties, LenProperties DEF TypeOK
      <4>. QED
        BY <3>1, <4>1, <4>2 DEF RunFit
    <3>2. CASE h.kind # "stop"
      <4>1. log' = log /\ (run' = run \/ (run' = [phase |-> "checked", h |-> h] /\ Live(h)))
        BY <1>8, <3>2 DEF RunTake
      <4>2. Live(h) => Fit(h)
        BY <2>1, <3>2 DEF QueueFit, Live, Fit
      <4>. HIDE DEF h
      <4>. QED
        BY <4>1, <4>2 DEF RunFit
    <3>. QED
      BY <3>1, <3>2
  <2>. QED
    BY <2>2, <2>3
<1>9. CASE RunCall
  <2>1. ArgFit' /\ QueueFit'
    BY <1>9 DEF RunCall, ArgFit, QueueFit
  <2>2. /\ run \in [phase : {"idle", "checked", "exec"}, h : Handler] /\ run.h \in Handler
        /\ run' = [run EXCEPT !.phase = "exec"] \/ run' = Idle
        /\ log' = Append(log, run.h) \/ log' = log
        /\ run.phase = "checked"
    BY <1>0, <1>9 DEF RunCall, Called, TypeOK
  <2>3. run.h.kind # "stop" => Fit(run.h)
    BY <2>2 DEF RunFit
  <2>4. run'.phase \in {"checked", "exec"} /\ run'.h.kind # "stop" => Fit(run'.h)
    BY <2>2, <2>3 DEF Idle
  <2>5. \A i \in 1 .. Len(log') : log'[i].kind # "stop" => log'[i].ok
    <3>1. CASE log' = log
      BY <3>1 DEF RunFit
    <3>2. CASE log' = Append(log, run.h)
      <4>1. /\ Len(log) \in Nat /\ Len(log') = Len(log) + 1 /\ log'[Len(log) + 1] = run.h
            /\ \A i \in 1 .. Len(log) : log'[i] = log[i]
        BY <1>0, <2>2, <3>2, AppendProperties, LenProperties DEF TypeOK
      <4>. QED
        BY <2>3, <4>1 DEF RunFit, Fit
    <3>. QED
      BY <2>2, <3>1, <3>2
  <2>. QED
    BY <2>1, <2>4, <2>5 DEF RunFit
<1>10. CASE RunReturn
  <2>1. UNCHANGED <<open, strand, waits, ptr, log>> /\ run'.phase = "idle" /\ run.phase = "exec"
    BY <1>10 DEF RunReturn, Idle
  <2>2. run.h.kind = "next" => Fit([run.h EXCEPT !.kind = "consume"])
    BY <1>0, <2>1 DEF RunFit, Fit, TypeOK, Handler
  <2>3. ArgFit'
    <3>. DEFINE m == [run.h EXCEPT !.kind = "consume"]
    <3>1. CASE UNCHANGED <<pc, arg>>
      BY <2>1, <3>1 DEF ArgFit
    <3>2. CASE /\ pc' = [pc EXCEPT ![Worker] = "checked"]
               /\ arg' = [arg EXCEPT ![Worker] = m]
               /\ run.h.kind = "next"
      <4>1. Fit(m)
        BY <2>2, <3>2
      <4>. HIDE DEF m
      <4>2. /\ pc'[Worker] = "checked" /\ arg'[Worker] = m
            /\ \A t \in Threads : t # Worker => pc'[t] = pc[t] /\ arg'[t] = arg[t]
        BY <1>0, <3>2, WorkerIsThread DEF TypeOK
      <4>. QED
        BY <2>1, <4>1, <4>2 DEF ArgFit
    <3>. QED
      BY <1>10, <3>1, <3>2 DEF RunReturn, BeginIsOpen
  <2>. QED
    BY <2>1, <2>3 DEF QueueFit, RunFit
<1>11. CASE UNCHANGED vars
  BY <1>11 DEF vars, ArgFit, QueueFit, RunFit
<1>. QED
  BY <1>1, <1>2, <1>3, <1>4, <1>5, <1>6, <1>7, <1>8, <1>9, <1>10, <1>11 DEF Next

LEMMA MailInvariant == Spec /\ []StopsInTurn => []MailInv
<1>1. Init => MailInv
  BY TypeInit, StopInit, OrderInit, FitInit DEF MailInv
<1>2. MailInv /\ StopsInTurn /\ [Next]_vars => MailInv'
  BY TypeStep, StopStep, OrderStep, FitStep DEF MailInv
<1>. QED
  BY <1>1, <1>2, PTL DEF Spec

----------------------------------------------------------------------------
(* The sets of messages. *)

\* A handler of the strand is in the line, behind the one in hand.
LEMMA StrandInLine ==
    ASSUME TypeOK, NEW i \in 1 .. Len(strand)
    PROVE  /\ Len(log) + InHand + i \in 1 .. Len(Line)
           /\ Line[Len(log) + InHand + i] = strand[i]
<1>1. LineFacts
  BY LineType
<1>2. Len(log) \in Nat /\ Len(strand) \in Nat /\ InHand \in {0, 1}
      /\ Len(Line) = Len(log) + InHand + Len(strand)
  BY <1>1 DEF LineFacts
<1>. DEFINE k == Len(log) + InHand + i
<1>3. k \in 1 .. Len(Line) /\ ~(k <= Len(log)) /\ ~(k <= Len(log) + InHand)
      /\ k - Len(log) - InHand = i
  BY <1>2
<1>4. Line[k] = IF k <= Len(log) THEN log[k]
                ELSE IF k <= Len(log) + InHand THEN run.h
                ELSE strand[k - Len(log) - InHand]
  BY <1>1, <1>3 DEF LineFacts
<1>. QED
  BY <1>3, <1>4

LEMMA WaitingSame ==
    ASSUME UNCHANGED <<strand, waits>>
    PROVE  WaitingMessages' = WaitingMessages
BY DEF WaitingMessages

LEMMA HandledSame ==
    ASSUME UNCHANGED log
    PROVE  HandledMessages' = HandledMessages
BY DEF HandledMessages

LEMMA WaitingPost ==
    ASSUME TypeOK, NEW h \in Handler, IsMessage(h), Post(h), UNCHANGED waits
    PROVE  WaitingMessages' = WaitingMessages \cup {h}
<1>1. /\ Len(strand) \in Nat /\ Len(strand') = Len(strand) + 1
      /\ \A i \in 1 .. Len(strand) : strand'[i] = strand[i]
      /\ strand'[Len(strand) + 1] = h
  BY AppendProperties, LenProperties DEF Post, TypeOK
<1>2. {strand'[i] : i \in 1 .. Len(strand')} = {strand[i] : i \in 1 .. Len(strand)} \cup {h}
  BY <1>1
<1>. QED
  BY <1>2 DEF WaitingMessages

LEMMA WaitingWait ==
    ASSUME TypeOK, NEW h \in {m \in Handler : m.kind = "timer" /\ m.ok},
           waits' = Append(waits, h), UNCHANGED strand
    PROVE  WaitingMessages' = WaitingMessages \cup {h}
<1>1. /\ Len(waits) \in Nat /\ Len(waits') = Len(waits) + 1
      /\ \A i \in 1 .. Len(waits) : waits'[i] = waits[i]
      /\ waits'[Len(waits) + 1] = h
  BY AppendProperties, LenProperties DEF TypeOK
<1>2. {waits'[i] : i \in 1 .. Len(waits')} = {waits[i] : i \in 1 .. Len(waits)} \cup {h}
  BY <1>1
<1>. QED
  BY <1>2 DEF WaitingMessages

LEMMA HandledAppend ==
    ASSUME TypeOK, NEW h \in Handler, log' = Append(log, h)
    PROVE  /\ IsMessage(h) => HandledMessages' = HandledMessages \cup {h}
           /\ ~IsMessage(h) => HandledMessages' = HandledMessages
<1>1. /\ Len(log) \in Nat /\ Len(log') = Len(log) + 1
      /\ \A i \in 1 .. Len(log) : log'[i] = log[i]
      /\ log'[Len(log) + 1] = h
  BY AppendProperties, LenProperties DEF TypeOK
<1>2. {log'[i] : i \in 1 .. Len(log')} = {log[i] : i \in 1 .. Len(log)} \cup {h}
  BY <1>1
<1>. QED
  BY <1>2 DEF HandledMessages

\* The elements of a sequence, and of a concatenation.
Elements(s) == {s[i] : i \in 1 .. Len(s)}

LEMMA ConcatElements ==
    ASSUME NEW p \in Seq(Handler), NEW q \in Seq(Handler)
    PROVE  Elements(p \o q) = Elements(p) \cup Elements(q)
<1>. DEFINE r == p \o q
<1>1. /\ Len(p) \in Nat /\ Len(q) \in Nat /\ Len(r) = Len(p) + Len(q)
      /\ \A i \in 1 .. Len(p) + Len(q) : r[i] = IF i <= Len(p) THEN p[i] ELSE q[i - Len(p)]
  BY ConcatProperties, LenProperties
<1>. HIDE DEF r
<1>2. ASSUME NEW i \in 1 .. Len(r)
      PROVE  r[i] \in Elements(p) \cup Elements(q)
  <2>1. CASE i <= Len(p)
    BY <1>1, <2>1 DEF Elements
  <2>2. CASE ~(i <= Len(p))
    <3>1. i - Len(p) \in 1 .. Len(q) /\ r[i] = q[i - Len(p)]
      BY <1>1, <2>2
    <3>. QED
      BY <3>1 DEF Elements
  <2>. QED
    BY <2>1, <2>2
<1>3. ASSUME NEW j \in 1 .. Len(p)
      PROVE  \E i \in 1 .. Len(r) : r[i] = p[j]
  BY <1>1
<1>4. ASSUME NEW j \in 1 .. Len(q)
      PROVE  \E i \in 1 .. Len(r) : r[i] = q[j]
  <2>1. Len(p) + j \in 1 .. Len(r) /\ ~(Len(p) + j <= Len(p)) /\ Len(p) + j - Len(p) = j
    BY <1>1
  <2>2. r[Len(p) + j] = q[j]
    BY <1>1, <2>1
  <2>. QED
    BY <2>1, <2>2
<1>5. Elements(r) \subseteq Elements(p) \cup Elements(q)
  BY <1>2 DEF Elements
<1>6. Elements(p) \subseteq Elements(r) /\ Elements(q) \subseteq Elements(r)
  <2>1. Elements(p) \subseteq Elements(r)
    BY <1>3 DEF Elements
  <2>2. Elements(q) \subseteq Elements(r)
    BY <1>4 DEF Elements
  <2>. QED
    BY <2>1, <2>2
<1>7. Elements(r) = Elements(p) \cup Elements(q)
  BY <1>5, <1>6
<1>. QED
  BY <1>7 DEF r

LEMMA WaitingElements ==
    /\ WaitingMessages = {h \in Elements(strand) : IsMessage(h)} \cup Elements(waits)
    /\ WaitingMessages' = {h \in Elements(strand') : IsMessage(h)} \cup Elements(waits')
BY DEF WaitingMessages, Elements

LEMMA NoElements == Elements(<<>>) = {}
BY DEF Elements

LEMMA WaitingFires ==
    ASSUME TypeOK, TimerFires
    PROVE  WaitingMessages' = WaitingMessages
<1>1. waits \in Seq(Handler) /\ strand \in Seq(Handler)
  <2>1. {h \in Handler : h.kind = "timer" /\ h.ok} \subseteq Handler
    OBVIOUS
  <2>. QED
    BY <2>1, SeqMonotonic DEF TypeOK
<1>2. strand' = strand \o waits /\ waits' = <<>>
  BY DEF TimerFires
<1>3. Elements(strand') = Elements(strand) \cup Elements(waits)
  BY <1>1, <1>2, ConcatElements
<1>4. \A h \in Elements(waits) : IsMessage(h)
  BY DEF TypeOK, IsMessage, Elements
<1>5. Elements(waits') = {}
  BY <1>2, NoElements
<1>. QED
  BY <1>3, <1>4, <1>5, WaitingElements

\* The waits leave the box when they are cancelled: no other message is one.
LEMMA WaitingCancelAll ==
    ASSUME TypeOK, OrderInv, NEW rest \in Seq(Handler), CancelAll(rest),
           \A i \in 1 .. Len(rest) : rest[i].kind = "stop"
    PROVE  /\ WaitingMessages' = WaitingMessages \ Elements(waits)
           /\ Elements(waits) \subseteq WaitingMessages
           /\ \A m \in Elements(waits) : m.kind = "timer"
<1>1. AbortedWaits \in Seq(Handler) /\ strand \in Seq(Handler) /\ strand \o AbortedWaits \in Seq(Handler)
  BY AbortedWaitsType, ConcatProperties DEF TypeOK
<1>2. Elements(strand') = (Elements(strand) \cup Elements(AbortedWaits)) \cup Elements(rest)
  <2>1. strand' = (strand \o AbortedWaits) \o rest
    BY DEF CancelAll
  <2>2. Elements(strand \o AbortedWaits) = Elements(strand) \cup Elements(AbortedWaits)
    BY <1>1, ConcatElements
  <2>3. Elements((strand \o AbortedWaits) \o rest) = Elements(strand \o AbortedWaits) \cup Elements(rest)
    BY <1>1, ConcatElements
  <2>. QED
    BY <2>1, <2>2, <2>3
<1>3. \A h \in Elements(AbortedWaits) : ~IsMessage(h)
  <2>1. \A i \in 1 .. Len(waits) : waits[i] \in Handler
    BY DEF TypeOK
  <2>2. \A i \in 1 .. Len(waits) : AbortedWaits[i] = Abort(waits[i])
    BY LenProperties DEF TypeOK, AbortedWaits
  <2>3. \A i \in 1 .. Len(waits) : ~Abort(waits[i]).ok
    BY <2>1 DEF Abort, Handler
  <2>. QED
    BY <2>2, <2>3, AbortedWaitsType DEF IsMessage, Elements
<1>4. \A h \in Elements(rest) : ~IsMessage(h)
  BY DEF IsMessage, Elements
<1>5. Elements(waits') = {}
  BY NoElements DEF CancelAll
<1>6. WaitingMessages' = {h \in Elements(strand) : IsMessage(h)}
  BY <1>2, <1>3, <1>4, <1>5, WaitingElements
<1>7. \A h \in Elements(waits) : h.kind = "timer"
  BY DEF TypeOK, Elements
<1>8. Elements(strand) \cap Elements(waits) = {}
  <2>1. ASSUME NEW i \in 1 .. Len(strand), NEW j \in 1 .. Len(waits)
        PROVE  strand[i] # waits[j]
    <3>1. Apart(strand[i], waits[j])
      BY StrandInLine DEF OrderInv, WaitInv, Before
    <3>. QED
      BY <1>7, <3>1 DEF Apart, Elements
  <2>. QED
    BY <2>1 DEF Elements
<1>. QED
  BY <1>6, <1>7, <1>8, WaitingElements

LEMMA WaitingCancel ==
    ASSUME TypeOK, OrderInv, NEW rest \in Seq(Handler), CancelWaits(rest),
           \A i \in 1 .. Len(rest) : rest[i].kind = "stop"
    PROVE  \E S \in SUBSET WaitingMessages :
                WaitingMessages' = WaitingMessages \ S /\ \A m \in S : m.kind = "timer"
<1>1. CASE CancelAll(rest)
  BY <1>1, WaitingCancelAll
<1>2. CASE CancelMisses(rest)
  <2>1. Elements(strand') = Elements(strand) \cup Elements(rest) /\ waits' = waits
    BY <1>2, ConcatElements DEF CancelMisses, TypeOK
  <2>2. \A h \in Elements(rest) : ~IsMessage(h)
    BY DEF IsMessage, Elements
  <2>3. WaitingMessages' = WaitingMessages
    BY <2>1, <2>2, WaitingElements
  <2>. QED
    BY <2>3
<1>. QED
  BY <1>1, <1>2 DEF CancelWaits

\* The strand takes its first handler: a message leaves the box.
LEMMA WaitingTake ==
    ASSUME TypeOK, OrderInv, RunTake
    PROVE  LET h == Head(strand)
           IN  /\ h \in Handler
               /\ IsMessage(h) => h \in WaitingMessages /\ WaitingMessages' = WaitingMessages \ {h}
               /\ ~IsMessage(h) => WaitingMessages' = WaitingMessages
               /\ IsMessage(h) => \A n \in WaitingMessages : n = h \/ Before(h, n)
<1>. DEFINE h == Head(strand)
            Q == {strand[i] : i \in 1 .. Len(strand)}
            S == {waits[i] : i \in 1 .. Len(waits)}
<1>1. /\ Len(strand) \in Nat /\ 1 \in 1 .. Len(strand) /\ h = strand[1] /\ h \in Handler
      /\ Len(strand') = Len(strand) - 1
      /\ \A i \in 1 .. Len(strand') : strand'[i] = strand[i + 1] /\ i + 1 \in 1 .. Len(strand)
      /\ waits' = waits
  BY HeadTailProperties, LenProperties, EmptySeq DEF RunTake, TypeOK
<1>2. Len(log) \in Nat /\ InHand \in {0, 1} /\ LineInv /\ WaitInv
  BY LineType DEF LineFacts, OrderInv
<1>. HIDE DEF h
<1>3. ASSUME NEW i \in 1 .. Len(strand), i # 1
      PROVE  Before(h, strand[i])
  <2>1. /\ Len(log) + InHand + 1 \in 1 .. Len(Line) /\ Line[Len(log) + InHand + 1] = h
        /\ Len(log) + InHand + i \in 1 .. Len(Line) /\ Line[Len(log) + InHand + i] = strand[i]
    BY <1>1, StrandInLine
  <2>2. Len(log) + InHand + 1 < Len(log) + InHand + i
    BY <1>1, <1>2, <1>3
  <2>. QED
    BY <1>2, <2>1, <2>2 DEF LineInv
<1>4. ASSUME NEW i \in 1 .. Len(waits)
      PROVE  Before(h, waits[i]) /\ waits[i].kind = "timer"
  <2>1. /\ Len(log) + InHand + 1 \in 1 .. Len(Line) /\ Line[Len(log) + InHand + 1] = h
    BY <1>1, StrandInLine
  <2>2. Before(h, waits[i])
    BY <1>2, <2>1 DEF WaitInv
  <2>3. waits[i].kind = "timer"
    BY DEF TypeOK
  <2>. QED
    BY <2>2, <2>3
<1>5. ASSUME NEW n, Before(h, n), IsMessage(h)
      PROVE  n # h
  BY <1>5 DEF Before, Apart, IsMessage
<1>6. {strand'[i] : i \in 1 .. Len(strand')} = {strand[i] : i \in (1 .. Len(strand)) \ {1}}
  <2>1. \A i \in (1 .. Len(strand)) \ {1} : i - 1 \in 1 .. Len(strand') /\ strand'[i - 1] = strand[i]
    BY <1>1
  <2>. QED
    BY <1>1, <2>1
<1>7. Q = {strand[i] : i \in (1 .. Len(strand)) \ {1}} \cup {h}
  BY <1>1
<1>8. IsMessage(h) => h \in WaitingMessages
  BY <1>1 DEF WaitingMessages
<1>9. IsMessage(h) => WaitingMessages' = WaitingMessages \ {h}
  <2>. DEFINE T == {strand[i] : i \in (1 .. Len(strand)) \ {1}}
  <2>1. IsMessage(h) => h \notin T /\ h \notin S
    BY <1>3, <1>4, <1>5
  <2>2. /\ WaitingMessages = {m \in T \cup {h} : IsMessage(m)} \cup S
        /\ WaitingMessages' = {m \in T : IsMessage(m)} \cup S
    BY <1>1, <1>6, <1>7 DEF WaitingMessages
  <2>. HIDE DEF T, S
  <2>. QED
    BY <2>1, <2>2
<1>10. ~IsMessage(h) => WaitingMessages' = WaitingMessages
  BY <1>1, <1>6, <1>7 DEF WaitingMessages
<1>11. IsMessage(h) => \A n \in WaitingMessages : n = h \/ Before(h, n)
  BY <1>1, <1>3, <1>4, <1>7 DEF WaitingMessages
<1>. QED
  BY <1>1, <1>8, <1>9, <1>10, <1>11 DEF h

----------------------------------------------------------------------------
(* The steps of the channel are steps of the mailbox. *)

HasEnded == \E i \in 1 .. Len(log) : log[i].kind = "stop"

BoxStep == Box!Next \/ UNCHANGED Box!box

LEMMA EndedSame ==
    ASSUME UNCHANGED log
    PROVE  HasEnded' = HasEnded
BY DEF HasEnded

\* A step that touches neither the queues nor the handler in hand.
LEMMA QuietBox ==
    ASSUME UNCHANGED <<strand, waits, log, open, fault>>,
           IF run.phase = "checked" THEN UNCHANGED run ELSE run'.phase # "checked"
    PROVE  BoxStep
<1>1. WaitingMessages' = WaitingMessages /\ HandledMessages' = HandledMessages
  BY WaitingSame, HandledSame
<1>2. HasEnded' = HasEnded
  BY EndedSame
<1>3. UNCHANGED Box!box
  BY <1>1, <1>2 DEF Box!box, HasEnded
<1>. QED
  BY <1>3 DEF BoxStep

\* The process crashes: only behind a stop().
LEMMA CrashBox ==
    ASSUME fault = "none", fault' # "none", ~open, UNCHANGED <<open, log>>
    PROVE  BoxStep
<1>1. HandledMessages' = HandledMessages /\ HasEnded' = HasEnded
  BY HandledSame, EndedSame
<1>2. Box!Crash
  BY <1>1 DEF Box!Crash, HasEnded
<1>. QED
  BY <1>2 DEF BoxStep, Box!Next

\* The handler in hand is in the line.
LEMMA HandInLine ==
    ASSUME TypeOK, run.phase = "checked"
    PROVE  Len(log) + 1 \in 1 .. Len(Line) /\ Line[Len(log) + 1] = run.h
<1>1. LineFacts /\ InHand = 1
  BY LineType DEF InHand
<1>2. Len(log) \in Nat /\ Len(strand) \in Nat /\ Len(Line) = Len(log) + 1 + Len(strand)
  BY <1>1 DEF LineFacts
<1>3. Len(log) + 1 \in 1 .. Len(Line)
  BY <1>2
<1>4. Line[Len(log) + 1] = IF Len(log) + 1 <= Len(log) THEN log[Len(log) + 1]
                           ELSE IF Len(log) + 1 <= Len(log) + InHand THEN run.h
                           ELSE strand[Len(log) + 1 - Len(log) - InHand]
  BY <1>1, <1>3 DEF LineFacts
<1>. QED
  BY <1>1, <1>2, <1>3, <1>4

\* The message of a call in progress is new to the box.
LEMMA ArgFresh ==
    ASSUME MailInv, fault = "none", NEW t \in Threads, Busy(t)
    PROVE  arg[t] \notin WaitingMessages /\ Box!Fresh(arg[t])
<1>. DEFINE m == arg[t]
            Knows(n) == n.kind # "stop" /\ Precedes(n, m)
<1>0. TypeOK /\ ArgOK /\ CallInv /\ ConsumeInv /\ RunFit /\ LineFacts
  BY LineType DEF MailInv, TypeInv, OrderInv, FitInv
<1>1. m.kind # "stop"
  BY <1>0 DEF ArgOK, Busy
<1>2. ASSUME NEW n \in WaitingMessages PROVE Knows(n)
  <2>1. CASE n \in Elements(waits)
    BY <1>0, <2>1 DEF CallInv, Elements, TypeOK
  <2>2. CASE n \in Elements(strand) /\ IsMessage(n)
    <3>1. PICK i \in 1 .. Len(strand) : n = strand[i]
      BY <2>2 DEF Elements
    <3>2. Precedes(n, m)
      BY <1>0, <3>1, StrandInLine DEF CallInv
    <3>. QED
      BY <2>2, <3>2 DEF IsMessage
  <2>. QED
    BY <2>1, <2>2, WaitingElements
<1>3. ASSUME NEW n \in HandledMessages PROVE Knows(n)
  <2>1. PICK i \in 1 .. Len(log) : n = log[i] /\ IsMessage(n)
    BY DEF HandledMessages
  <2>2. i \in 1 .. Len(Line) /\ Line[i] = n
    BY <1>0, <2>1 DEF LineFacts
  <2>. QED
    BY <1>0, <2>1, <2>2 DEF CallInv, IsMessage
<1>4. ASSUME run.phase = "checked" PROVE Knows(run.h)
  <2>1. Precedes(run.h, m)
    BY <1>0, <1>4, HandInLine DEF CallInv
  <2>. QED
    BY <1>4, <2>1 DEF MailInv, StopInv, RunInv
<1>5. ASSUME NEW n, Knows(n)
      PROVE  n # m /\ (Box!SameSender(m, n) => n.id < m.id)
  BY <1>1, <1>5 DEF Precedes, Apart, Box!SameSender
<1>6. m.kind = "consume" => \E n \in HandledMessages : n.kind = "next" /\ n.id = m.id
  BY <1>0 DEF ConsumeInv, Produced, RunFit, HandledMessages, IsMessage
<1>. HIDE DEF m, Knows
<1>7. Box!Fresh(m)
  BY <1>2, <1>3, <1>4, <1>5, <1>6 DEF Box!Fresh
<1>8. m \notin WaitingMessages
  BY <1>2, <1>5
<1>. QED
  BY <1>7, <1>8 DEF m

\* A message enters the strand or the timer.
LEMMA SendBox ==
    ASSUME MailInv, fault = "none", NEW t \in Threads, Busy(t), arg[t].slot < SigCount,
           WaitingMessages' = WaitingMessages \cup {arg[t]}, UNCHANGED <<open, run, log, fault>>
    PROVE  BoxStep
<1>1. arg[t] \in AllMessages
  <2>1. arg[t] \in Handler /\ arg[t].kind # "stop" /\ Fit(arg[t]) /\ arg[t].id \in 1 .. ops /\ ops \in Ids
    BY DEF MailInv, TypeInv, TypeOK, ArgOK, OrderInv, NumberInv, Numbered, FitInv, ArgFit, Busy
  <2>2. arg[t].id \in Ids \ {0}
    BY <2>1, ChannelAssumption DEF Ids
  <2>. QED
    BY <2>1, <2>2 DEF AllMessages, Handler, Fit
<1>2. arg[t] \notin WaitingMessages /\ Box!Fresh(arg[t])
  BY ArgFresh
<1>3. HandledMessages' = HandledMessages /\ HasEnded' = HasEnded
  BY HandledSame, EndedSame
<1>4. Box!Send(arg[t])
  BY <1>2, <1>3 DEF Box!Send, HasEnded
<1>. QED
  BY <1>1, <1>4 DEF BoxStep, Box!Next

\* The waits are cancelled.
LEMMA CancelBox ==
    ASSUME MailInv, fault = "none", CancelWaits(<<>>), UNCHANGED <<open, run, log, fault>>
    PROVE  BoxStep
<1>0. TypeOK /\ OrderInv
  BY DEF MailInv, TypeInv
<1>1. <<>> \in Seq(Handler) /\ \A i \in 1 .. Len(<<>>) : <<>>[i].kind = "stop"
  BY EmptySeq
<1>2. PICK S \in SUBSET WaitingMessages :
            WaitingMessages' = WaitingMessages \ S /\ \A m \in S : m.kind = "timer"
  BY <1>0, <1>1, WaitingCancel
<1>3. HandledMessages' = HandledMessages /\ HasEnded' = HasEnded
  BY HandledSame, EndedSame
<1>4. CASE S = {}
  <2>1. WaitingMessages' = WaitingMessages
    BY <1>2, <1>4
  <2>2. UNCHANGED Box!box
    BY <1>3, <2>1 DEF Box!box, HasEnded
  <2>. QED
    BY <2>2 DEF BoxStep
<1>5. CASE S # {}
  <2>1. Box!Cancel(S)
    BY <1>2, <1>3, <1>5 DEF Box!Cancel, HasEnded
  <2>. QED
    BY <1>2, <2>1 DEF BoxStep, Box!Next
<1>. QED
  BY <1>4, <1>5

LEMMA ProceedBox ==
    ASSUME MailInv, NEW t \in Threads, Proceed(t)
    PROVE  BoxStep
<1>1. /\ fault = "none" /\ Busy(t) /\ pc[t] = "checked" /\ UNCHANGED <<open, run, log>>
      /\ fault' \in PointerUse
  BY DEF Proceed, Busy
<1>2. CASE fault' # "none"
  <2>1. ~open
    BY <1>1, <1>2 DEF PointerUse, MailInv, StopInv, OpenInv
  <2>. QED
    BY <1>1, <1>2, <2>1, CrashBox
<1>3. CASE fault' = "none" /\ arg[t].slot >= SigCount
  <2>1. UNCHANGED <<strand, waits>>
    BY <1>3 DEF Proceed
  <2>. QED
    BY <1>1, <1>3, <2>1, QuietBox
<1>4. CASE fault' = "none" /\ ~(arg[t].slot >= SigCount) /\ arg[t].kind = "timer"
  <2>1. CancelWaits(<<>>)
    BY <1>4 DEF Proceed
  <2>. QED
    BY <1>1, <1>4, <2>1, CancelBox
<1>5. CASE fault' = "none" /\ ~(arg[t].slot >= SigCount) /\ arg[t].kind # "timer"
  <2>1. Post(arg[t]) /\ UNCHANGED waits
    BY <1>5 DEF Proceed
  <2>2. TypeOK /\ arg[t] \in Handler /\ arg[t].kind # "stop" /\ Fit(arg[t])
    BY <1>1 DEF MailInv, TypeInv, TypeOK, ArgOK, FitInv, ArgFit
  <2>3. IsMessage(arg[t])
    BY <2>2 DEF IsMessage, Fit
  <2>4. WaitingMessages' = WaitingMessages \cup {arg[t]}
    BY <2>1, <2>2, <2>3, WaitingPost
  <2>5. arg[t].slot < SigCount
    BY <1>5, <2>2, ChannelAssumption DEF Handler
  <2>. QED
    BY <1>1, <1>5, <2>4, <2>5, SendBox
<1>. QED
  BY <1>2, <1>3, <1>4, <1>5

LEMMA AsyncWaitBox ==
    ASSUME MailInv, NEW t \in Threads, AsyncWait(t)
    PROVE  BoxStep
<1>1. fault = "none" /\ Busy(t) /\ pc[t] = "wait" /\ UNCHANGED <<open, run, log, fault, strand>>
      /\ waits' = Append(waits, arg[t])
  BY DEF AsyncWait, Busy
<1>2. TypeOK /\ arg[t] \in {h \in Handler : h.kind = "timer" /\ h.ok} /\ arg[t].slot < SigCount
  BY <1>1 DEF MailInv, TypeInv, TypeOK, ArgOK, FitInv, ArgFit
<1>3. WaitingMessages' = WaitingMessages \cup {arg[t]}
  BY <1>1, <1>2, WaitingWait
<1>. QED
  BY <1>1, <1>2, <1>3, SendBox

\* stop() closes the box, or it came too late.
LEMMA StopCommitBox ==
    ASSUME MailInv, NEW t \in Threads, StopCommit(t)
    PROVE  BoxStep
<1>1. fault = "none" /\ pc[t] = "stopping" /\ open' = FALSE /\ UNCHANGED <<run, log, fault>>
  BY DEF StopCommit, ClearPointer
<1>2. CASE ptr[t]
  <2>0. TypeOK /\ OrderInv /\ open
    BY <1>1, <1>2 DEF MailInv, TypeInv, StopInv, StopperInv
  <2>1. StopPosts(t) \in Seq(Handler) /\ \A i \in 1 .. Len(StopPosts(t)) : StopPosts(t)[i].kind = "stop"
    BY StopMsgType DEF StopPosts
  <2>2. CancelWaits(StopPosts(t))
    BY <1>2 DEF StopCommit
  <2>3. PICK S \in SUBSET WaitingMessages :
            WaitingMessages' = WaitingMessages \ S /\ \A m \in S : m.kind = "timer"
    BY <2>0, <2>1, <2>2, WaitingCancel
  <2>4. HandledMessages' = HandledMessages /\ HasEnded' = HasEnded
    BY <1>1, HandledSame, EndedSame
  <2>5. Box!Close(S)
    BY <1>1, <2>0, <2>3, <2>4 DEF Box!Close, HasEnded
  <2>. QED
    BY <1>1, <2>3, <2>5 DEF BoxStep, Box!Next
<1>3. CASE ~ptr[t]
  <2>1. ~open
    BY <1>1, <1>3 DEF MailInv, FitInv, ArgFit
  <2>2. UNCHANGED <<strand, waits, open>>
    BY <1>1, <1>3, <2>1 DEF StopCommit, MailInv, TypeInv, TypeOK
  <2>. QED
    BY <1>1, <2>2, QuietBox
<1>. QED
  BY <1>2, <1>3

\* What a called slot adds to the history.
LEMMA EndedAppend ==
    ASSUME TypeOK, NEW h \in Handler, log' = Append(log, h)
    PROVE  HasEnded' = (HasEnded \/ h.kind = "stop")
<1>1. /\ Len(log) \in Nat /\ Len(log') = Len(log) + 1
      /\ \A i \in 1 .. Len(log) : log'[i] = log[i]
      /\ log'[Len(log) + 1] = h
  BY AppendProperties, LenProperties DEF TypeOK
<1>2. HasEnded' => HasEnded \/ h.kind = "stop"
  BY <1>1 DEF HasEnded
<1>3. HasEnded => HasEnded'
  BY <1>1 DEF HasEnded
<1>4. h.kind = "stop" => HasEnded'
  BY <1>1 DEF HasEnded
<1>. QED
  BY <1>2, <1>3, <1>4 DEF HasEnded

\* The strand takes a handler: the message is taken or, once the box is closed,
\* lost; an aborted wait was no message any more; the handler of stop() ends
\* the task.
LEMMA TakeBox ==
    ASSUME MailInv, RunTake
    PROVE  BoxStep
<1>. DEFINE h == Head(strand)
<1>0. TypeOK /\ OrderInv /\ StopInv /\ QueueFit
  BY DEF MailInv, TypeInv, FitInv
<1>1. /\ h \in Handler
      /\ IsMessage(h) => h \in WaitingMessages /\ WaitingMessages' = WaitingMessages \ {h}
      /\ ~IsMessage(h) => WaitingMessages' = WaitingMessages
      /\ IsMessage(h) => \A n \in WaitingMessages : n = h \/ Before(h, n)
  BY <1>0, WaitingTake
<1>2. fault = "none" /\ run.phase = "idle" /\ UNCHANGED open
  BY DEF RunTake
<1>3. 1 \in 1 .. Len(strand) /\ h = strand[1]
  BY <1>0, HeadTailProperties, LenProperties, EmptySeq DEF RunTake, TypeOK
<1>4. CASE h.kind = "stop"
  <2>1. log' = Append(log, h) /\ run' = [phase |-> "exec", h |-> h]
        /\ fault' = IF obj = "alive" THEN "none" ELSE "uaf"
    BY <1>4 DEF RunTake, Called
  <2>2. ~open /\ obj = "alive" /\ ~HasEnded
    BY <1>0, <1>3, <1>4 DEF StopInv, QueueInv, LogInv, HasEnded
  <2>3. ~IsMessage(h)
    BY <1>4 DEF IsMessage
  <2>. HIDE DEF h
  <2>4. HandledMessages' = HandledMessages /\ HasEnded'
    BY <1>0, <1>1, <1>4, <2>1, <2>3, HandledAppend, EndedAppend
  <2>5. WaitingMessages' = WaitingMessages
    BY <1>1, <2>3
  <2>6. fault' = "none" /\ run'.phase = "exec"
    BY <2>1, <2>2
  <2>7. Box!End
    BY <1>2, <2>2, <2>4, <2>5, <2>6 DEF Box!End, HasEnded
  <2>. QED
    BY <2>7 DEF BoxStep, Box!Next
<1>5. CASE h.kind # "stop" /\ Live(h) /\ open
  <2>1. run' = [phase |-> "checked", h |-> h] /\ UNCHANGED <<fault, log>>
    BY <1>5 DEF RunTake
  <2>2. IsMessage(h)
    BY <1>0, <1>3, <1>5 DEF QueueFit, Live, IsMessage
  <2>. HIDE DEF h
  <2>3. HandledMessages' = HandledMessages /\ HasEnded' = HasEnded
    BY <2>1, HandledSame, EndedSame
  <2>4. run'.phase = "checked" /\ run'.h = h /\ fault' = "none"
    BY <1>2, <2>1
  <2>5. Box!Oldest(h)
    <3>1. ASSUME NEW n \in WaitingMessages, Box!Ordered(h), Box!Ordered(n), h.by = n.by
          PROVE  h.id <= n.id
      <4>1. h.id \in Nat
        BY <1>1, ChannelAssumption DEF Handler, Ids
      <4>2. CASE n = h
        BY <4>1, <4>2
      <4>3. CASE Before(h, n)
        <5>1. h.id < n.id
          BY <3>1, <4>3 DEF Before, IsCall, Box!Ordered
        <5>2. n.id \in Nat
          <6>1. waits \in Seq(Handler) /\ strand \in Seq(Handler)
            <7>1. {k \in Handler : k.kind = "timer" /\ k.ok} \subseteq Handler
              OBVIOUS
            <7>. QED
              BY <1>0, <7>1, SeqMonotonic DEF TypeOK
          <6>2. n \in Handler
            BY <6>1, ElementOfSeq DEF WaitingMessages
          <6>. QED
            BY <6>2, ChannelAssumption DEF Handler, Ids
        <5>. QED
          BY <4>1, <5>1, <5>2
      <4>. QED
        BY <1>1, <2>2, <3>1, <4>2, <4>3
    <3>. QED
      BY <1>2, <3>1 DEF Box!Oldest
  <2>6. Box!Take(h)
    BY <1>1, <1>2, <1>5, <2>2, <2>3, <2>4, <2>5 DEF Box!Take, HasEnded
  <2>. QED
    BY <1>1, <1>2, <2>2, <2>6 DEF BoxStep, Box!Next
<1>6. CASE h.kind # "stop" /\ ~(Live(h) /\ open)
  <2>1. UNCHANGED <<run, fault, log>>
    BY <1>6 DEF RunTake
  <2>. HIDE DEF h
  <2>2. HandledMessages' = HandledMessages /\ HasEnded' = HasEnded
    BY <2>1, HandledSame, EndedSame
  <2>3. CASE IsMessage(h)
    <3>1. ~open
      BY <1>6, <2>3 DEF IsMessage, Live
    <3>2. Box!Lose(h)
      BY <1>1, <1>2, <2>1, <2>2, <2>3, <3>1 DEF Box!Lose, HasEnded
    <3>. QED
      BY <1>1, <1>2, <2>3, <3>2 DEF BoxStep, Box!Next
  <2>4. CASE ~IsMessage(h)
    <3>1. UNCHANGED Box!box
      BY <1>1, <1>2, <2>1, <2>2, <2>4 DEF Box!box, HasEnded
    <3>. QED
      BY <3>1 DEF BoxStep
  <2>. QED
    BY <2>3, <2>4
<1>. QED
  BY <1>4, <1>5, <1>6

\* The slot of the message in hand is called, or the pointer is gone.
LEMMA RunCallBox ==
    ASSUME MailInv, RunCall
    PROVE  BoxStep
<1>1. fault = "none" /\ run.phase = "checked" /\ UNCHANGED <<open, strand, waits>> /\ fault' \in PointerUse
  BY DEF RunCall
<1>2. TypeOK /\ run.h \in Handler /\ run.h.kind # "stop" /\ run.h.ok /\ obj = "alive"
  BY <1>1 DEF MailInv, TypeInv, TypeOK, StopInv, RunInv, StrandOwnsTask, FitInv, RunFit, Fit
<1>3. fault' = "none" \/ (fault' = "null" /\ ~open)
  BY <1>1, <1>2 DEF PointerUse
<1>4. CASE fault' = "none"
  <2>1. log' = Append(log, run.h) /\ run'.phase = "exec"
    BY <1>2, <1>4 DEF RunCall, Called, TypeOK
  <2>2. HandledMessages' = HandledMessages \cup {run.h}
    BY <1>2, <2>1, HandledAppend DEF IsMessage
  <2>3. HasEnded' = HasEnded
    BY <1>2, <2>1, EndedAppend DEF HasEnded
  <2>4. WaitingMessages' = WaitingMessages
    BY <1>1, WaitingSame
  <2>5. run.h # NoMessage
    BY <1>2, WorkerIsThread, StopMsgType DEF NoMessage
  <2>6. Box!Deliver
    BY <1>1, <1>4, <2>1, <2>2, <2>3, <2>4, <2>5 DEF Box!Deliver, HasEnded
  <2>. QED
    BY <2>6 DEF BoxStep, Box!Next
<1>5. CASE fault' = "null" /\ ~open
  <2>1. UNCHANGED log
    BY <1>5 DEF RunCall
  <2>. QED
    BY <1>1, <1>5, <2>1, CrashBox
<1>. QED
  BY <1>3, <1>4, <1>5

LEMMA ChannelStepIsBoxStep == MailInv /\ [Next]_vars => BoxStep
<1>. SUFFICES ASSUME MailInv, [Next]_vars PROVE BoxStep
  OBVIOUS
<1>1. ASSUME NEW t \in Threads, NEW slot \in Slots, NEW kind \in {"dispatch", "next", "timer"},
             Call(t, kind, slot)
      PROVE  BoxStep
  BY <1>1, QuietBox DEF Call, CanCall
<1>2. ASSUME NEW t \in Threads, CancelTimer(t)
      PROVE  BoxStep
  BY <1>2, CancelBox DEF CancelTimer, CanCall
<1>3. ASSUME NEW t \in Threads, StopLoad(t)
      PROVE  BoxStep
  BY <1>3, QuietBox DEF StopLoad, CanCall
<1>4. CASE TimerFires
  <2>1. WaitingMessages' = WaitingMessages
    BY <1>4, WaitingFires DEF MailInv, TypeInv
  <2>2. UNCHANGED <<open, run, log, fault>>
    BY <1>4 DEF TimerFires
  <2>3. HandledMessages' = HandledMessages /\ HasEnded' = HasEnded
    BY <2>2, HandledSame, EndedSame
  <2>4. UNCHANGED Box!box
    BY <2>1, <2>2, <2>3 DEF Box!box, HasEnded
  <2>. QED
    BY <2>4 DEF BoxStep
<1>5. CASE RunReturn
  <2>1. UNCHANGED <<open, strand, waits, log, fault>> /\ run.phase = "exec" /\ run'.phase = "idle"
    BY <1>5 DEF RunReturn, Idle
  <2>. QED
    BY <2>1, QuietBox
<1>6. CASE UNCHANGED vars
  BY <1>6, QuietBox DEF vars
<1>. QED
  BY <1>1, <1>2, <1>3, <1>4, <1>5, <1>6, ProceedBox, AsyncWaitBox, StopCommitBox, TakeBox,
     RunCallBox DEF Next

LEMMA ChannelInitIsBoxInit == Init => Box!Init
<1>. SUFFICES ASSUME Init PROVE Box!Init
  OBVIOUS
<1>1. strand = <<>> /\ waits = <<>> /\ log = <<>> /\ open = TRUE /\ fault = "none" /\ run.phase = "idle"
  BY DEF Init, Idle
<1>2. Len(strand) = 0 /\ Len(waits) = 0 /\ Len(log) = 0
  BY <1>1
<1>3. WaitingMessages = {} /\ HandledMessages = {} /\ ~HasEnded
  BY <1>2 DEF WaitingMessages, HandledMessages, HasEnded
<1>. QED
  BY <1>1, <1>3 DEF Box!Init, HasEnded

\* Every behaviour of a channel that no two threads stop at once is one of a mailbox:
\* whatever the threads, the timer and the strand do between the two reads of
\* task_, a message is accepted once, taken in the order of its sender, and
\* handled, called back, or lost behind stop(); the task ends once, with an
\* empty hand, and a crash needs a stop().
THEOREM ChannelIsMailbox == Spec /\ []StopsInTurn => IsMailbox
<1>1. Init => Box!Init
  BY ChannelInitIsBoxInit
<1>2. MailInv /\ [Next]_vars => [UNCHANGED Box!box \/ Box!Next]_(Box!box)
  BY ChannelStepIsBoxStep DEF BoxStep
<1>3. Spec /\ []StopsInTurn => []MailInv
  BY MailInvariant
<1>. QED
  BY <1>1, <1>2, <1>3, PTL DEF Spec, Box!Spec, IsMailbox
============================================================================

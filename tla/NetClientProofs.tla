-------------------------- MODULE NetClientProofs --------------------------
(***************************************************************************)
(* What NetClient promises of the write queue snd_, for any number of      *)
(* messages, connects, endpoints and packets: it never stalls, the         *)
(* messages reach the connections in the order of the send() calls, and    *)
(* (on a condition) a write that succeeded finds its message in the queue. *)
(*                                                                         *)
(* A message moves from a "send" handler in the strand to snd_ and from    *)
(* the head of snd_ to a connection.  The inductive invariant says that    *)
(* the three places hold the messages in this order, and that only the     *)
(* head of snd_ may already be on a connection.                            *)
(***************************************************************************)
EXTENDS NetClient, TLAPS, SequenceTheorems, FiniteSetTheorems

\* The part of the type invariant that the argument rests on.
QueueType ==
    /\ strand \in Seq(Handler)
    /\ snd \in Seq(Messages)
    /\ wire \in Seq(Messages)
    /\ sent \in 0 .. MaxSend

\* What is still to be queued is newer than all that was, and in order.
PostedInv ==
    \A i \in 1 .. Len(strand) : strand[i].kind = "send" =>
        /\ strand[i].msg \in 1 .. sent
        /\ \A j \in 1 .. Len(snd) : snd[j] < strand[i].msg
        /\ \A j \in 1 .. Len(wire) : wire[j] < strand[i].msg
        /\ \A j \in 1 .. Len(strand) :
              i < j /\ strand[j].kind = "send" => strand[i].msg < strand[j].msg

\* The queue is in order, and its head is the last message on the wire or
\* newer.
QueuedInv ==
    \A i \in 1 .. Len(snd) :
        /\ snd[i] \in 1 .. sent
        /\ \A j \in 1 .. Len(snd) : i < j => snd[i] < snd[j]
        /\ \A j \in 1 .. Len(wire) : wire[j] <= snd[i] /\ (i # 1 => wire[j] < snd[i])

WireInv ==
    /\ WireOrder
    /\ \A i \in 1 .. Len(wire) : wire[i] \in 1 .. sent

ClientInv ==
    /\ QueueType
    /\ PostedInv
    /\ QueuedInv
    /\ WireInv
    /\ NoStall

----------------------------------------------------------------------------
(* The strand. *)

LEMMA Appended ==
    ASSUME NEW S, NEW s \in Seq(S), NEW h \in S
    PROVE  /\ Append(s, h) \in Seq(S)
           /\ Len(s) \in Nat
           /\ Len(Append(s, h)) = Len(s) + 1
           /\ \A i \in 1 .. Len(s) : Append(s, h)[i] = s[i]
           /\ Append(s, h)[Len(s) + 1] = h
OBVIOUS

LEMMA Tailed ==
    ASSUME NEW S, NEW s \in Seq(S), s # <<>>
    PROVE  /\ Tail(s) \in Seq(S)
           /\ Len(s) \in Nat /\ 1 \in 1 .. Len(s)
           /\ Head(s) = s[1] /\ s[1] \in S
           /\ Len(Tail(s)) = Len(s) - 1
           /\ \A i \in 1 .. Len(Tail(s)) : i + 1 \in 1 .. Len(s) /\ Tail(s)[i] = s[i + 1]
OBVIOUS

\* The "send" handlers of t are those of s, d places further on.
Shifted(s, t, d) ==
    \A i \in 1 .. Len(t) : t[i].kind = "send" => i + d \in 1 .. Len(s) /\ t[i] = s[i + d]

HasWrite(s) == \E i \in 1 .. Len(s) : s[i].kind = "write"

LEMMA AppendShift ==
    ASSUME NEW s \in Seq(Handler), NEW h \in Handler
    PROVE  /\ Append(s, h) \in Seq(Handler)
           /\ h.kind # "send" => Shifted(s, Append(s, h), 0)
           /\ HasWrite(s) \/ h.kind = "write" => HasWrite(Append(s, h))
<1>. DEFINE t == Append(s, h)
<1>1. /\ t \in Seq(Handler) /\ Len(s) \in Nat /\ Len(t) = Len(s) + 1
      /\ \A i \in 1 .. Len(s) : t[i] = s[i]
      /\ t[Len(s) + 1] = h
  BY Appended
<1>. HIDE DEF t
<1>2. /\ Len(s) + 1 \in 1 .. Len(t)
      /\ \A i \in 1 .. Len(s) : i \in 1 .. Len(t)
      /\ \A i \in 1 .. Len(t) : i + 0 = i /\ (i = Len(s) + 1 \/ i \in 1 .. Len(s))
  BY <1>1
<1>3. h.kind # "send" => Shifted(s, t, 0)
  BY <1>1, <1>2 DEF Shifted
<1>4. HasWrite(s) => HasWrite(t)
  BY <1>1, <1>2 DEF HasWrite
<1>5. h.kind = "write" => HasWrite(t)
  BY <1>1, <1>2 DEF HasWrite
<1>. QED
  BY <1>1, <1>3, <1>4, <1>5 DEF t

LEMMA TailShift ==
    ASSUME NEW s \in Seq(Handler), s # <<>>
    PROVE  /\ Tail(s) \in Seq(Handler)
           /\ Shifted(s, Tail(s), 1)
           /\ HasWrite(s) /\ Head(s).kind # "write" => HasWrite(Tail(s))
<1>. DEFINE t == Tail(s)
<1>1. /\ t \in Seq(Handler) /\ Len(s) \in Nat /\ Head(s) = s[1] /\ Len(t) = Len(s) - 1
      /\ \A i \in 1 .. Len(t) : i + 1 \in 1 .. Len(s) /\ t[i] = s[i + 1]
  BY Tailed
<1>. HIDE DEF t
<1>2. \A i \in 1 .. Len(s) : i = 1 \/ (i - 1 \in 1 .. Len(t) /\ (i - 1) + 1 = i)
  BY <1>1
<1>3. Shifted(s, t, 1)
  BY <1>1 DEF Shifted
<1>4. ASSUME HasWrite(s), Head(s).kind # "write" PROVE HasWrite(t)
  <2>1. PICK i \in 1 .. Len(s) : s[i].kind = "write"
    BY <1>4 DEF HasWrite
  <2>2. i # 1
    BY <1>1, <1>4, <2>1
  <2>3. i - 1 \in 1 .. Len(t) /\ t[i - 1] = s[i]
    BY <1>1, <1>2, <2>2
  <2>. QED
    BY <2>1, <2>3 DEF HasWrite
<1>. QED
  BY <1>1, <1>3, <1>4 DEF t

\* A slot or completion handler that posts another one.
LEMMA TailAppendShift ==
    ASSUME NEW s \in Seq(Handler), s # <<>>, NEW h \in Handler, h.kind # "send"
    PROVE  /\ Append(Tail(s), h) \in Seq(Handler)
           /\ Shifted(s, Append(Tail(s), h), 1)
           /\ HasWrite(s) /\ Head(s).kind # "write" => HasWrite(Append(Tail(s), h))
<1>. DEFINE r == Tail(s)
            t == Append(r, h)
<1>1. r \in Seq(Handler) /\ Shifted(s, r, 1) /\ (HasWrite(s) /\ Head(s).kind # "write" => HasWrite(r))
  BY TailShift
<1>. HIDE DEF r
<1>2. t \in Seq(Handler) /\ Shifted(r, t, 0) /\ (HasWrite(r) => HasWrite(t))
  BY <1>1, AppendShift
<1>. HIDE DEF t
<1>3. ASSUME NEW i \in 1 .. Len(t), t[i].kind = "send" PROVE i + 1 \in 1 .. Len(s) /\ t[i] = s[i + 1]
  <2>1. i + 0 \in 1 .. Len(r) /\ t[i] = r[i + 0] /\ i + 0 = i
    BY <1>2, <1>3 DEF Shifted
  <2>. QED
    BY <1>1, <1>3, <2>1 DEF Shifted
<1>. QED
  BY <1>1, <1>2, <1>3 DEF Shifted, t, r

LEMMA Calls ==
    ASSUME NEW kind \in Slots \cup {"eod"}, NEW m \in Nat
    PROVE  Call(kind, m) \in Handler /\ Call(kind, m).kind = kind /\ Call(kind, m).msg = m
BY DEF Call, Handler

LEMMA Dones ==
    ASSUME NEW kind \in Completions, NEW ok \in BOOLEAN
    PROVE  Done(kind, ok) \in Handler /\ Done(kind, ok).kind = kind
BY DEF Done, Handler

----------------------------------------------------------------------------
(* How a step moves the messages. *)

\* A "send" handler that a step leaves in the strand.
LEMMA StillPosted ==
    ASSUME QueueType, PostedInv, NEW d \in {0, 1}, strand' \in Seq(Handler),
           Shifted(strand, strand', d), NEW i \in 1 .. Len(strand'), strand'[i].kind = "send"
    PROVE  /\ strand'[i].msg \in 1 .. sent
           /\ \A j \in 1 .. Len(snd) : snd[j] < strand'[i].msg
           /\ \A j \in 1 .. Len(wire) : wire[j] < strand'[i].msg
           /\ \A j \in 1 .. Len(strand') :
                 i < j /\ strand'[j].kind = "send" => strand'[i].msg < strand'[j].msg
           /\ d = 1 /\ strand[1].kind = "send" => strand[1].msg < strand'[i].msg
<1>1. i + d \in 1 .. Len(strand) /\ strand'[i] = strand[i + d]
  BY DEF Shifted
<1>2. /\ strand'[i].msg \in 1 .. sent
      /\ \A j \in 1 .. Len(snd) : snd[j] < strand'[i].msg
      /\ \A j \in 1 .. Len(wire) : wire[j] < strand'[i].msg
  BY <1>1 DEF PostedInv
<1>3. ASSUME NEW j \in 1 .. Len(strand'), i < j, strand'[j].kind = "send"
      PROVE  strand'[i].msg < strand'[j].msg
  <2>1. j + d \in 1 .. Len(strand) /\ strand'[j] = strand[j + d]
    BY <1>3 DEF Shifted
  <2>2. i + d < j + d
    BY <1>3
  <2>. QED
    BY <1>1, <1>3, <2>1, <2>2 DEF PostedInv
<1>4. ASSUME d = 1, strand[1].kind = "send" PROVE strand[1].msg < strand'[i].msg
  <2>1. i + 1 \in 1 .. Len(strand) /\ strand'[i] = strand[i + 1] /\ Len(strand) \in Nat
    BY <1>1, <1>4 DEF QueueType
  <2>2. 1 \in 1 .. Len(strand) /\ 1 < i + 1
    BY <2>1
  <2>. QED
    BY <1>4, <2>1, <2>2 DEF PostedInv
<1>. QED
  BY <1>2, <1>3, <1>4

\* Most steps leave the messages where they are, or empty the queue.
LEMMA CalmOrder ==
    ASSUME ClientInv, NEW d \in {0, 1}, strand' \in Seq(Handler), Shifted(strand, strand', d),
           UNCHANGED <<wire, sent>>, snd' \in {snd, <<>>}
    PROVE  QueueType' /\ PostedInv' /\ QueuedInv' /\ WireInv'
<1>0. QueueType /\ PostedInv /\ QueuedInv /\ WireInv
  BY DEF ClientInv
<1>1. snd' = snd \/ (snd' = <<>> /\ 1 .. Len(snd') = {})
  OBVIOUS
<1>2. QueueType'
  <2>1. <<>> \in Seq(Messages) /\ snd \in Seq(Messages)
    BY <1>0 DEF QueueType
  <2>2. snd' \in Seq(Messages)
    BY <2>1, Zenon
  <2>. QED
    BY <1>0, <2>2 DEF QueueType
<1>3. PostedInv'
  <2>. SUFFICES ASSUME NEW i \in 1 .. Len(strand'), strand'[i].kind = "send"
                PROVE  /\ strand'[i].msg \in 1 .. sent'
                       /\ \A j \in 1 .. Len(snd') : snd'[j] < strand'[i].msg
                       /\ \A j \in 1 .. Len(wire') : wire'[j] < strand'[i].msg
                       /\ \A j \in 1 .. Len(strand') :
                             i < j /\ strand'[j].kind = "send" => strand'[i].msg < strand'[j].msg
    BY DEF PostedInv
  <2>. QED
    BY <1>0, <1>1, StillPosted
<1>4. QueuedInv'
  BY <1>0, <1>1 DEF QueuedInv
<1>5. WireInv'
  BY <1>0 DEF WireInv, WireOrder
<1>. QED
  BY <1>2, <1>3, <1>4, <1>5

LEMMA CalmFlow ==
    ASSUME NoStall, fault = "none", chan' => chan, snd' = snd,
           writes' = writes \/ HasWrite(strand'), HasWrite(strand) => HasWrite(strand')
    PROVE  NoStall'
BY DEF NoStall, Running, HasWrite

\* A step that does not touch the queue at all.
LEMMA CalmStep ==
    ASSUME ClientInv, fault = "none", NEW d \in {0, 1}, strand' \in Seq(Handler),
           Shifted(strand, strand', d), UNCHANGED <<wire, sent, snd>>, chan' => chan,
           writes' = writes \/ HasWrite(strand'),
           \/ HasWrite(strand) => HasWrite(strand')
           \/ fault' # "none"
    PROVE  ClientInv'
<1>1. QueueType' /\ PostedInv' /\ QueuedInv' /\ WireInv'
  BY CalmOrder
<1>2. NoStall'
  <2>1. CASE fault' # "none"
    BY <2>1 DEF NoStall, Running
  <2>2. CASE HasWrite(strand) => HasWrite(strand')
    BY <2>2, CalmFlow DEF ClientInv
  <2>. QED
    BY <2>1, <2>2
<1>. QED
  BY <1>1, <1>2 DEF ClientInv

\* A step that empties the queue.
LEMMA EmptyStep ==
    ASSUME ClientInv, NEW d \in {0, 1}, strand' \in Seq(Handler),
           Shifted(strand, strand', d), UNCHANGED <<wire, sent>>, snd' = <<>>
    PROVE  ClientInv'
<1>1. QueueType' /\ PostedInv' /\ QueuedInv' /\ WireInv'
  BY CalmOrder
<1>2. NoStall'
  BY DEF NoStall
<1>. QED
  BY <1>1, <1>2 DEF ClientInv

\* A step beside the strand.
LEMMA QuietStep ==
    ASSUME ClientInv, fault = "none", UNCHANGED <<strand, snd, writes, wire, sent>>, chan' => chan
    PROVE  ClientInv'
<1>1. strand \in Seq(Handler) /\ strand' = strand /\ Len(strand) \in Nat
  BY DEF ClientInv, QueueType
<1>2. \A i \in 1 .. Len(strand) : i + 0 = i
  BY <1>1
<1>3. Shifted(strand, strand', 0)
  BY <1>1, <1>2 DEF Shifted
<1>. QED
  BY <1>1, <1>3, CalmStep

----------------------------------------------------------------------------
(* The steps that move a message. *)

LEMMA UserSendStep ==
    ASSUME ClientInv, UserSend
    PROVE  ClientInv'
<1>. DEFINE m == sent + 1
            h == Call("send", m)
<1>0. QueueType /\ PostedInv /\ QueuedInv /\ WireInv /\ NoStall
  BY DEF ClientInv
<1>1. /\ fault = "none" /\ sent < MaxSend /\ sent' = m /\ strand' = Append(strand, h)
      /\ UNCHANGED <<chan, snd, writes, wire>>
  BY DEF UserSend, Running, Dispatch, netVars, histVars
<1>2. /\ sent \in Nat /\ MaxSend \in Nat /\ sent' \in 0 .. MaxSend /\ m \in 1 .. sent'
      /\ \A x \in 1 .. sent : x \in 1 .. sent' /\ x < m
  BY <1>0, <1>1, NetClientAssumption DEF QueueType
<1>3. h \in Handler /\ h.kind = "send" /\ h.msg = m
  BY <1>2, Calls DEF Slots
<1>4. /\ strand' \in Seq(Handler) /\ Len(strand) \in Nat /\ Len(strand') = Len(strand) + 1
      /\ \A i \in 1 .. Len(strand) : strand'[i] = strand[i]
      /\ strand'[Len(strand) + 1] = h
  BY <1>0, <1>1, <1>3, Appended DEF QueueType
<1>. HIDE DEF m, h
<1>5. \A i \in 1 .. Len(strand') :
        /\ i \in 1 .. Len(strand) \/ i = Len(strand) + 1
        /\ i = Len(strand) + 1 => i \notin 1 .. Len(strand) /\ \A j \in 1 .. Len(strand') : ~(i < j)
  BY <1>4
<1>6. QueueType'
  BY <1>0, <1>1, <1>2, <1>4 DEF QueueType
<1>7. PostedInv'
  <2>. SUFFICES ASSUME NEW i \in 1 .. Len(strand'), strand'[i].kind = "send"
                PROVE  /\ strand'[i].msg \in 1 .. sent'
                       /\ \A j \in 1 .. Len(snd) : snd[j] < strand'[i].msg
                       /\ \A j \in 1 .. Len(wire) : wire[j] < strand'[i].msg
                       /\ \A j \in 1 .. Len(strand') :
                             i < j /\ strand'[j].kind = "send" => strand'[i].msg < strand'[j].msg
    BY <1>1 DEF PostedInv
  <2>1. CASE i \in 1 .. Len(strand)
    <3>1. strand'[i] = strand[i] /\ strand[i].msg \in 1 .. sent
      BY <1>0, <1>4, <2>1 DEF PostedInv
    <3>2. ASSUME NEW j \in 1 .. Len(strand'), i < j, strand'[j].kind = "send"
          PROVE  strand'[i].msg < strand'[j].msg
      BY <1>0, <1>2, <1>3, <1>4, <1>5, <2>1, <3>1, <3>2 DEF PostedInv
    <3>. QED
      BY <1>0, <1>2, <2>1, <3>1, <3>2 DEF PostedInv
  <2>2. CASE i = Len(strand) + 1
    <3>1. strand'[i].msg = m
      BY <1>3, <1>4, <2>2
    <3>2. \A j \in 1 .. Len(strand') : ~(i < j)
      BY <1>5, <2>2
    <3>3. /\ \A j \in 1 .. Len(snd) : snd[j] < m
          /\ \A j \in 1 .. Len(wire) : wire[j] < m
      BY <1>0, <1>2 DEF QueuedInv, WireInv
    <3>. QED
      BY <1>2, <3>1, <3>2, <3>3
  <2>. QED
    BY <1>5, <2>1, <2>2
<1>8. QueuedInv' /\ WireInv'
  BY <1>0, <1>1, <1>2 DEF QueuedInv, WireInv, WireOrder
<1>9. NoStall'
  <2>1. HasWrite(strand) => HasWrite(strand')
    BY <1>0, <1>1, <1>3, AppendShift DEF QueueType
  <2>. QED
    BY <1>0, <1>1, <2>1, CalmFlow
<1>. QED
  BY <1>6, <1>7, <1>8, <1>9 DEF ClientInv

\* do_write() hands a message to the connection that is newer than all others.
LEMMA WireGrows ==
    ASSUME QueueType, WireInv, NEW m \in 1 .. sent, \A j \in 1 .. Len(wire) : wire[j] < m,
           wire' = Append(wire, m), UNCHANGED sent
    PROVE  /\ wire' \in Seq(Messages)
           /\ WireInv'
           /\ \A j \in 1 .. Len(wire') : wire'[j] = m \/ (j \in 1 .. Len(wire) /\ wire'[j] = wire[j])
<1>1. m \in Messages
  BY NetClientAssumption DEF QueueType, Messages
<1>2. /\ wire' \in Seq(Messages) /\ Len(wire) \in Nat /\ Len(wire') = Len(wire) + 1
      /\ \A j \in 1 .. Len(wire) : wire'[j] = wire[j]
      /\ wire'[Len(wire) + 1] = m
  BY <1>1, Appended DEF QueueType
<1>3. \A j \in 1 .. Len(wire') : j \in 1 .. Len(wire) \/ j = Len(wire) + 1
  BY <1>2
<1>4. \A i, j \in 1 .. Len(wire') : i < j => i \in 1 .. Len(wire)
  BY <1>2
<1>5. WireOrder'
  BY <1>2, <1>3, <1>4 DEF WireInv, WireOrder
<1>6. WireInv'
  BY <1>2, <1>3, <1>5 DEF WireInv
<1>. QED
  BY <1>2, <1>3, <1>6

LEMMA SendStep ==
    ASSUME ClientInv, Send
    PROVE  ClientInv'
<1>. DEFINE m == strand[1].msg
            n == Len(snd) + 1
<1>0. QueueType /\ PostedInv /\ QueuedInv /\ WireInv /\ NoStall
  BY DEF ClientInv
<1>1. /\ fault = "none" /\ strand # <<>> /\ Head(strand).kind = "send" /\ chan
      /\ strand' = Tail(strand) /\ snd' = Append(snd, Head(strand).msg)
      /\ UNCHANGED <<chan, sent, fault>>
  BY DEF Send, Take, Running, userVars
<1>2. Head(strand) = strand[1] /\ 1 \in 1 .. Len(strand)
  BY <1>0, <1>1, Tailed DEF QueueType
<1>3. /\ m \in 1 .. sent
      /\ \A j \in 1 .. Len(snd) : snd[j] < m
      /\ \A j \in 1 .. Len(wire) : wire[j] < m
  BY <1>0, <1>1, <1>2 DEF PostedInv
<1>4. m \in Messages
  BY <1>0, <1>3, NetClientAssumption DEF QueueType, Messages
<1>5. /\ strand' \in Seq(Handler) /\ Shifted(strand, strand', 1)
      /\ HasWrite(strand) => HasWrite(strand')
  BY <1>0, <1>1, TailShift DEF QueueType
<1>6. strand[1].kind = "send" /\ snd' = Append(snd, m)
  BY <1>1, <1>2
<1>. HIDE DEF m
<1>7. /\ snd' \in Seq(Messages) /\ Len(snd) \in Nat /\ Len(snd') = n
      /\ \A i \in 1 .. Len(snd) : snd'[i] = snd[i]
      /\ snd'[n] = m
  BY <1>0, <1>4, <1>6, Appended DEF QueueType
<1>8. /\ \A i \in 1 .. Len(snd') : i \in 1 .. Len(snd) \/ i = n
      /\ \A i, j \in 1 .. Len(snd') : i < j => i \in 1 .. Len(snd)
      /\ n # 1 => snd # <<>>
  BY <1>0, <1>7 DEF QueueType
<1>9. \/ snd # <<>> /\ writes' = writes /\ wire' = wire
      \/ snd = <<>> /\ writes' # {} /\ wire' \in {wire, Append(wire, m)}
  <2>1. CASE snd # <<>>
    BY <2>1 DEF Send, FirstIn
  <2>2. CASE snd = <<>>
    <3>1. Head(snd') = m
      BY <1>6, <2>2
    <3>2. StartWrite(snd')
      BY <2>2 DEF Send, FirstIn
    <3>. QED
      BY <1>1, <2>2, <3>1, <3>2 DEF StartWrite
  <2>. QED
    BY <2>1, <2>2
<1>. HIDE DEF n
<1>10. /\ wire' \in Seq(Messages)
       /\ WireInv'
       /\ \A j \in 1 .. Len(wire') :
            (wire'[j] = m /\ snd = <<>>) \/ (j \in 1 .. Len(wire) /\ wire'[j] = wire[j])
  <2>1. CASE wire' = wire
    BY <1>0, <1>1, <2>1 DEF WireInv, WireOrder, QueueType
  <2>2. CASE wire' = Append(wire, m) /\ snd = <<>>
    BY <1>0, <1>1, <1>3, <2>2, WireGrows
  <2>. QED
    BY <1>9, <2>1, <2>2
<1>11. QueueType'
  BY <1>0, <1>1, <1>5, <1>7, <1>10 DEF QueueType
<1>12. PostedInv'
  <2>. SUFFICES ASSUME NEW i \in 1 .. Len(strand'), strand'[i].kind = "send"
                PROVE  /\ strand'[i].msg \in 1 .. sent'
                       /\ \A j \in 1 .. Len(snd') : snd'[j] < strand'[i].msg
                       /\ \A j \in 1 .. Len(wire') : wire'[j] < strand'[i].msg
                       /\ \A j \in 1 .. Len(strand') :
                             i < j /\ strand'[j].kind = "send" => strand'[i].msg < strand'[j].msg
    BY DEF PostedInv
  <2>1. /\ strand'[i].msg \in 1 .. sent
        /\ \A j \in 1 .. Len(snd) : snd[j] < strand'[i].msg
        /\ \A j \in 1 .. Len(wire) : wire[j] < strand'[i].msg
        /\ \A j \in 1 .. Len(strand') :
              i < j /\ strand'[j].kind = "send" => strand'[i].msg < strand'[j].msg
        /\ m < strand'[i].msg
    BY <1>0, <1>5, <1>6, StillPosted DEF m
  <2>2. \A j \in 1 .. Len(snd') : snd'[j] < strand'[i].msg
    BY <1>7, <1>8, <2>1
  <2>3. \A j \in 1 .. Len(wire') : wire'[j] < strand'[i].msg
    BY <1>10, <2>1
  <2>. QED
    BY <1>1, <2>1, <2>2, <2>3
<1>13. QueuedInv'
  <2>. SUFFICES ASSUME NEW i \in 1 .. Len(snd')
                PROVE  /\ snd'[i] \in 1 .. sent'
                       /\ \A j \in 1 .. Len(snd') : i < j => snd'[i] < snd'[j]
                       /\ \A j \in 1 .. Len(wire') :
                             wire'[j] <= snd'[i] /\ (i # 1 => wire'[j] < snd'[i])
    BY DEF QueuedInv
  <2>1. snd'[i] \in 1 .. sent'
    BY <1>0, <1>1, <1>3, <1>7, <1>8 DEF QueuedInv
  <2>2. ASSUME NEW j \in 1 .. Len(snd'), i < j PROVE snd'[i] < snd'[j]
    <3>1. i \in 1 .. Len(snd) /\ snd'[i] = snd[i]
      BY <1>7, <1>8, <2>2
    <3>2. CASE j \in 1 .. Len(snd)
      BY <1>0, <1>7, <2>2, <3>1, <3>2 DEF QueuedInv
    <3>3. CASE j = n
      BY <1>3, <1>7, <3>1, <3>3
    <3>. QED
      BY <1>8, <3>2, <3>3
  <2>3. ASSUME NEW j \in 1 .. Len(wire') PROVE wire'[j] <= snd'[i] /\ (i # 1 => wire'[j] < snd'[i])
    <3>1. CASE i \in 1 .. Len(snd)
      <4>1. snd # <<>>
        BY <1>7, <3>1
      <4>. QED
        BY <1>0, <1>7, <1>10, <3>1, <4>1 DEF QueuedInv
    <3>2. CASE i = n
      <4>1. snd'[i] = m /\ m \in Nat
        BY <1>3, <1>7, <3>2
      <4>2. CASE wire'[j] = m /\ snd = <<>>
        BY <1>8, <3>2, <4>1, <4>2
      <4>3. CASE j \in 1 .. Len(wire) /\ wire'[j] = wire[j]
        <5>1. wire[j] < m /\ wire[j] \in Nat
          BY <1>0, <1>3, <4>3 DEF WireInv
        <5>. QED
          BY <4>1, <4>3, <5>1
      <4>. QED
        BY <1>10, <4>2, <4>3
    <3>. QED
      BY <1>8, <3>1, <3>2
  <2>. QED
    BY <2>1, <2>2, <2>3
<1>14. NoStall'
  <2>1. CASE snd # <<>>
    <3>1. writes # {} \/ HasWrite(strand)
      BY <1>0, <1>1, <2>1 DEF NoStall, Running, HasWrite
    <3>. QED
      BY <1>5, <1>9, <2>1, <3>1 DEF NoStall, HasWrite
  <2>2. CASE snd = <<>>
    BY <1>9, <2>2 DEF NoStall
  <2>. QED
    BY <2>1, <2>2
<1>. QED
  BY <1>10, <1>11, <1>12, <1>13, <1>14 DEF ClientInv

\* The error branches of handle_write() and handle_read().
LEMMA DropStep ==
    ASSUME ClientInv, strand # <<>>, Drop, UNCHANGED <<wire, sent>>
    PROVE  ClientInv'
<1>1. strand \in Seq(Handler) /\ snd' = <<>>
  BY DEF ClientInv, QueueType, Drop, Reset
<1>2. Call("disconnect", 0) \in Handler /\ Call("disconnect", 0).kind # "send"
  BY Calls DEF Slots
<1>3. strand' = Append(Tail(strand), Call("disconnect", 0)) \/ strand' = Tail(strand)
  BY DEF Drop
<1>4. strand' \in Seq(Handler) /\ Shifted(strand, strand', 1)
  BY <1>1, <1>2, <1>3, TailShift, TailAppendShift
<1>. QED
  BY <1>1, <1>4, EmptyStep

LEMMA HandleWriteStep ==
    ASSUME ClientInv, HandleWrite
    PROVE  ClientInv'
<1>0. QueueType /\ PostedInv /\ QueuedInv /\ WireInv /\ NoStall
  BY DEF ClientInv
<1>1. /\ fault = "none" /\ strand # <<>> /\ strand \in Seq(Handler) /\ UNCHANGED <<chan, sent>>
  BY <1>0 DEF HandleWrite, Take, Running, userVars, QueueType
<1>2. CASE ~Head(strand).ok
  <2>1. Drop /\ UNCHANGED wire
    BY <1>2 DEF HandleWrite
  <2>. QED
    BY <1>1, <2>1, DropStep
<1>3. CASE Head(strand).ok /\ snd = <<>>
  <2>1. strand' = Tail(strand) /\ fault' = "empty" /\ UNCHANGED <<snd, writes, wire>>
    BY <1>3 DEF HandleWrite
  <2>2. strand' \in Seq(Handler) /\ Shifted(strand, strand', 1)
    BY <1>1, <2>1, TailShift
  <2>. QED
    BY <1>1, <2>1, <2>2, CalmStep
<1>5. CASE Head(strand).ok /\ snd # <<>> /\ InFlight(Head(snd))
  <2>1. strand' = Tail(strand) /\ fault' = "freed" /\ UNCHANGED <<snd, writes, wire>>
    BY <1>5 DEF HandleWrite
  <2>2. strand' \in Seq(Handler) /\ Shifted(strand, strand', 1)
    BY <1>1, <2>1, TailShift
  <2>. QED
    BY <1>1, <2>1, <2>2, CalmStep
<1>4. CASE Head(strand).ok /\ snd # <<>> /\ ~InFlight(Head(snd))
  <2>. DEFINE m == snd[2]
  <2>1. strand' = Tail(strand) /\ snd' = Tail(snd) /\ WriteNext(snd') /\ UNCHANGED fault
    BY <1>4 DEF HandleWrite
  <2>2. strand' \in Seq(Handler) /\ Shifted(strand, strand', 1)
    BY <1>1, <2>1, TailShift
  <2>3. /\ snd' \in Seq(Messages) /\ Len(snd) \in Nat /\ Len(snd') = Len(snd) - 1
        /\ \A i \in 1 .. Len(snd') : i + 1 \in 1 .. Len(snd) /\ snd'[i] = snd[i + 1]
    BY <1>0, <1>4, <2>1, Tailed DEF QueueType
  <2>4. /\ \A i \in 1 .. Len(snd') : i + 1 # 1 /\ (i # 1 => 2 < i + 1) /\ (i = 1 => i + 1 = 2)
        /\ \A i, j \in 1 .. Len(snd') : i < j => i + 1 < j + 1
        /\ snd' # <<>> => 2 \in 1 .. Len(snd) /\ Head(snd') = m
    BY <2>3
  <2>5. /\ snd' # <<>> => /\ m \in 1 .. sent
                          /\ \A j \in 1 .. Len(wire) : wire[j] < m
    BY <1>0, <2>4 DEF QueuedInv
  <2>6. \/ snd' = <<>> /\ wire' = wire
        \/ snd' # <<>> /\ wire' \in {wire, Append(wire, m)} /\ (chan => writes' # {})
    BY <2>1, <2>4 DEF WriteNext, StartWrite
  <2>. HIDE DEF m
  <2>7. /\ wire' \in Seq(Messages)
        /\ WireInv'
        /\ \A j \in 1 .. Len(wire') :
             (wire'[j] = m /\ snd' # <<>>) \/ (j \in 1 .. Len(wire) /\ wire'[j] = wire[j])
    <3>1. CASE wire' = wire
      BY <1>0, <1>1, <3>1 DEF WireInv, WireOrder, QueueType
    <3>2. CASE wire' = Append(wire, m) /\ snd' # <<>>
      BY <1>0, <1>1, <2>5, <3>2, WireGrows
    <3>. QED
      BY <2>6, <3>1, <3>2
  <2>8. QueueType'
    BY <1>0, <1>1, <2>2, <2>3, <2>7 DEF QueueType
  <2>9. PostedInv'
    <3>. SUFFICES ASSUME NEW i \in 1 .. Len(strand'), strand'[i].kind = "send"
                  PROVE  /\ strand'[i].msg \in 1 .. sent'
                         /\ \A j \in 1 .. Len(snd') : snd'[j] < strand'[i].msg
                         /\ \A j \in 1 .. Len(wire') : wire'[j] < strand'[i].msg
                         /\ \A j \in 1 .. Len(strand') :
                               i < j /\ strand'[j].kind = "send" => strand'[i].msg < strand'[j].msg
      BY DEF PostedInv
    <3>1. /\ strand'[i].msg \in 1 .. sent
          /\ \A j \in 1 .. Len(snd) : snd[j] < strand'[i].msg
          /\ \A j \in 1 .. Len(wire) : wire[j] < strand'[i].msg
          /\ \A j \in 1 .. Len(strand') :
                i < j /\ strand'[j].kind = "send" => strand'[i].msg < strand'[j].msg
      BY <1>0, <2>2, StillPosted
    <3>2. \A j \in 1 .. Len(snd') : snd'[j] < strand'[i].msg
      BY <2>3, <3>1
    <3>3. snd' # <<>> => m < strand'[i].msg
      BY <2>4, <3>1 DEF m
    <3>4. \A j \in 1 .. Len(wire') : wire'[j] < strand'[i].msg
      BY <2>7, <3>1, <3>3
    <3>. QED
      BY <1>1, <3>1, <3>2, <3>4
  <2>10. QueuedInv'
    <3>. SUFFICES ASSUME NEW i \in 1 .. Len(snd')
                  PROVE  /\ snd'[i] \in 1 .. sent'
                         /\ \A j \in 1 .. Len(snd') : i < j => snd'[i] < snd'[j]
                         /\ \A j \in 1 .. Len(wire') :
                               wire'[j] <= snd'[i] /\ (i # 1 => wire'[j] < snd'[i])
      BY DEF QueuedInv
    <3>1. i + 1 \in 1 .. Len(snd) /\ snd'[i] = snd[i + 1] /\ i + 1 # 1
      BY <2>3, <2>4
    <3>2. snd'[i] \in 1 .. sent'
      BY <1>0, <1>1, <3>1 DEF QueuedInv
    <3>3. ASSUME NEW j \in 1 .. Len(snd'), i < j PROVE snd'[i] < snd'[j]
      BY <1>0, <2>3, <2>4, <3>1, <3>3 DEF QueuedInv
    <3>4. ASSUME NEW j \in 1 .. Len(wire') PROVE wire'[j] <= snd'[i] /\ (i # 1 => wire'[j] < snd'[i])
      <4>1. CASE wire'[j] = m /\ snd' # <<>>
        <5>1. CASE i = 1
          <6>1. snd'[i] = m /\ m \in Nat
            BY <2>4, <2>5, <3>1, <4>1, <5>1 DEF m
          <6>. QED
            BY <4>1, <5>1, <6>1
        <5>2. CASE i # 1
          <6>1. 2 \in 1 .. Len(snd) /\ 2 < i + 1
            BY <2>4, <4>1, <5>2
          <6>2. m < snd'[i] /\ m \in Nat /\ snd'[i] \in Nat
            BY <1>0, <2>5, <3>1, <3>2, <4>1, <6>1 DEF QueuedInv, m
          <6>. QED
            BY <4>1, <6>2
        <5>. QED
          BY <5>1, <5>2
      <4>2. CASE j \in 1 .. Len(wire) /\ wire'[j] = wire[j]
        BY <1>0, <3>1, <4>2 DEF QueuedInv
      <4>. QED
        BY <2>7, <4>1, <4>2
    <3>. QED
      BY <3>2, <3>3, <3>4
  <2>11. NoStall'
    BY <1>1, <2>6 DEF NoStall
  <2>. QED
    BY <2>7, <2>8, <2>9, <2>10, <2>11 DEF ClientInv
<1>. QED
  BY <1>2, <1>3, <1>4, <1>5

----------------------------------------------------------------------------
(* The other steps. *)

LEMMA UserStep ==
    ASSUME ClientInv, UserConnect \/ UserStop \/ TimerFires
    PROVE  ClientInv'
<1>1. PICK kind \in {"connect", "eod"} : strand' = Append(strand, Call(kind, 0))
  BY DEF UserConnect, Dispatch, UserStop, TimerFires
<1>2. fault = "none" /\ (chan' => chan) /\ UNCHANGED <<snd, writes, wire, sent>>
  BY DEF UserConnect, Dispatch, UserStop, TimerFires, Running, userVars, netVars, histVars
<1>3. Call(kind, 0) \in Handler /\ Call(kind, 0).kind # "send"
  BY Calls DEF Slots
<1>4. /\ strand' \in Seq(Handler) /\ Shifted(strand, strand', 0)
      /\ HasWrite(strand) => HasWrite(strand')
  BY <1>1, <1>3, AppendShift DEF ClientInv, QueueType
<1>. QED
  BY <1>2, <1>4, CalmStep

LEMMA NetworkStep ==
    ASSUME ClientInv, Network
    PROVE  ClientInv'
<1>1. strand \in Seq(Handler)
  BY DEF ClientInv, QueueType
<1>2. CASE Lose
  <2>1. fault = "none" /\ UNCHANGED <<chan, strand, snd, writes, wire, sent>>
    BY <1>2 DEF Lose, Running, userVars
  <2>. QED
    BY <2>1, QuietStep
<1>3. ASSUME NEW op \in writes, NEW ok \in BOOLEAN, WriteEnds(op, ok) PROVE ClientInv'
  <2>. DEFINE h == Done("write", ok)
  <2>1. /\ fault = "none" /\ strand' = Append(strand, h)
        /\ UNCHANGED <<chan, snd, wire, sent>>
    BY <1>3 DEF WriteEnds, Running, userVars, histVars
  <2>2. h \in Handler /\ h.kind = "write"
    BY Dones DEF Completions
  <2>. HIDE DEF h
  <2>3. strand' \in Seq(Handler) /\ Shifted(strand, strand', 0) /\ HasWrite(strand')
    BY <1>1, <2>1, <2>2, AppendShift
  <2>. QED
    BY <2>1, <2>3, CalmStep
<1>4. ASSUME NEW c \in Conns, NEW ok \in BOOLEAN, ReadEnds(c, ok) PROVE ClientInv'
  <2>. DEFINE h == Done("read", ok)
  <2>1. /\ fault = "none" /\ strand' = Append(strand, h)
        /\ UNCHANGED <<chan, snd, writes, wire, sent>>
    BY <1>4 DEF ReadEnds, Running, userVars, histVars
  <2>2. h \in Handler /\ h.kind = "read"
    BY Dones DEF Completions
  <2>. HIDE DEF h
  <2>3. /\ strand' \in Seq(Handler) /\ Shifted(strand, strand', 0)
        /\ HasWrite(strand) => HasWrite(strand')
    BY <1>1, <2>1, <2>2, AppendShift
  <2>. QED
    BY <2>1, <2>3, CalmStep
<1>. QED
  BY <1>2, <1>3, <1>4 DEF Network, WriteDone, ReadDone

\* Handlers that only leave the strand.
LEMMA TakenStep ==
    ASSUME ClientInv, fault = "none", strand # <<>>, strand' = Tail(strand),
           Head(strand).kind # "write" \/ fault' # "none",
           UNCHANGED <<chan, snd, writes, wire, sent>>
    PROVE  ClientInv'
<1>1. /\ strand' \in Seq(Handler) /\ Shifted(strand, strand', 1)
      /\ HasWrite(strand) /\ Head(strand).kind # "write" => HasWrite(strand')
  BY TailShift DEF ClientInv, QueueType
<1>. QED
  BY <1>1, CalmStep

LEMMA HandleReadStep ==
    ASSUME ClientInv, HandleRead
    PROVE  ClientInv'
<1>1. /\ fault = "none" /\ strand # <<>> /\ Head(strand).kind = "read" /\ strand \in Seq(Handler)
      /\ UNCHANGED <<chan, writes, wire, sent>>
  BY DEF HandleRead, Take, Running, userVars, histVars, ClientInv, QueueType
<1>2. CASE ~Head(strand).ok
  <2>1. Drop
    BY <1>2 DEF HandleRead
  <2>. QED
    BY <1>1, <2>1, DropStep
<1>3. CASE Head(strand).ok
  <2>1. strand' = Append(Tail(strand), Call("receive", 0)) \/ strand' = Tail(strand)
    BY <1>3 DEF HandleRead
  <2>2. Call("receive", 0) \in Handler /\ Call("receive", 0).kind # "send"
    BY Calls DEF Slots
  <2>3. /\ strand' \in Seq(Handler) /\ Shifted(strand, strand', 1)
        /\ HasWrite(strand) => HasWrite(strand')
    BY <1>1, <2>1, <2>2, TailShift, TailAppendShift
  <2>4. UNCHANGED snd
    BY <1>3 DEF HandleRead
  <2>. QED
    BY <1>1, <2>3, <2>4, CalmStep
<1>. QED
  BY <1>2, <1>3

LEMMA StrandStep ==
    ASSUME ClientInv, Strand
    PROVE  ClientInv'
<1>1. CASE \/ \E kind \in Slots : Skip(kind)
           \/ Connect \/ OnReceive \/ OnDisconnect
  <2>1. /\ fault = "none" /\ strand # <<>> /\ strand' = Tail(strand)
        /\ Head(strand).kind # "write"
    BY <1>1 DEF Skip, Connect, OnReceive, OnDisconnect, Take, Running, Slots
  <2>2. UNCHANGED <<chan, snd, writes, wire, sent>>
    BY <1>1 DEF Skip, Connect, OnReceive, OnDisconnect, userVars, netVars, histVars
  <2>. QED
    BY <2>1, <2>2, TakenStep
<1>2. ASSUME NEW kind \in Completions, OnFreed(kind) PROVE ClientInv'
  <2>1. fault = "none" /\ strand # <<>> /\ strand' = Tail(strand) /\ fault' # "none"
    BY <1>2 DEF OnFreed, Take, Running
  <2>2. UNCHANGED <<chan, snd, writes, wire, sent>>
    BY <1>2 DEF OnFreed, userVars, netVars, histVars
  <2>. QED
    BY <2>1, <2>2, TakenStep
<1>3. CASE Eod
  <2>1. strand # <<>> /\ strand' = Tail(strand) /\ snd' = <<>> /\ UNCHANGED <<wire, sent>>
    BY <1>3 DEF Eod, Take, Reset, userVars, histVars
  <2>2. strand' \in Seq(Handler) /\ Shifted(strand, strand', 1)
    BY <2>1, TailShift DEF ClientInv, QueueType
  <2>. QED
    BY <2>1, <2>2, EmptyStep
<1>. QED
  BY <1>1, <1>2, <1>3, SendStep, HandleWriteStep, HandleReadStep DEF Strand

LEMMA ResolvingStep ==
    ASSUME ClientInv, NEW r \in Resolvers, Resolving(r)
    PROVE  ClientInv'
<1>1. fault = "none"
  BY DEF Resolving, ResolveFails, Resolve, ConnectFails, ConnectSucceeds, ConnectThrows, OnConnectFreed, Leave, Running
<1>2. UNCHANGED <<chan, strand, snd, writes, wire, sent>>
  BY DEF Resolving, ResolveFails, Resolve, ConnectFails, ConnectSucceeds, ConnectThrows, OnConnectFreed, Leave,
         userVars, netVars, histVars
<1>. QED
  BY <1>1, <1>2, QuietStep

----------------------------------------------------------------------------
LEMMA ClientInit == Init => ClientInv
<1>. SUFFICES ASSUME Init PROVE ClientInv
  OBVIOUS
<1>1. strand = <<>> /\ snd = <<>> /\ wire = <<>> /\ sent = 0
  BY DEF Init
<1>2. 1 .. Len(strand) = {} /\ 1 .. Len(snd) = {} /\ 1 .. Len(wire) = {}
  BY <1>1
<1>3. QueueType
  <2>1. sent \in 0 .. MaxSend
    BY <1>1, NetClientAssumption
  <2>. QED
    BY <1>1, <2>1 DEF QueueType
<1>4. PostedInv /\ QueuedInv /\ WireInv
  BY <1>2 DEF PostedInv, QueuedInv, WireInv, WireOrder
<1>5. NoStall
  BY <1>1 DEF NoStall
<1>. QED
  BY <1>3, <1>4, <1>5 DEF ClientInv

LEMMA ClientNext == ClientInv /\ [Next]_vars => ClientInv'
<1>. SUFFICES ASSUME ClientInv, [Next]_vars PROVE ClientInv'
  OBVIOUS
<1>1. CASE UNCHANGED vars
  <2>1. UNCHANGED <<chan, strand, snd, writes, wire, sent, fault>>
    BY <1>1 DEF vars
  <2>2. QueueType' /\ PostedInv' /\ QueuedInv' /\ WireInv'
    BY <2>1 DEF ClientInv, QueueType, PostedInv, QueuedInv, WireInv, WireOrder
  <2>3. NoStall'
    BY <2>1 DEF ClientInv, NoStall, Running
  <2>. QED
    BY <2>2, <2>3 DEF ClientInv
<1>2. CASE User
  BY <1>2, UserSendStep, UserStep DEF User
<1>3. CASE Network
  BY <1>3, NetworkStep
<1>4. CASE Strand
  BY <1>4, StrandStep
<1>5. ASSUME NEW r \in Resolvers, Resolving(r) PROVE ClientInv'
  BY <1>5, ResolvingStep
<1>. QED
  BY <1>1, <1>2, <1>3, <1>4, <1>5 DEF Next

LEMMA ClientInvariant == Spec => []ClientInv
BY ClientInit, ClientNext, PTL DEF Spec

\* As long as the channel is open, a message in snd_ has a write in flight or
\* the completion handler of one queued, so that somebody will go on with the
\* queue: through lost connections, reconnects that leave old completions in
\* the strand, and any number of send() calls in between.
THEOREM QueueFlows == Spec => []NoStall
<1>1. ClientInv => NoStall
  BY DEF ClientInv
<1>. QED
  BY <1>1, ClientInvariant, PTL

\* Whatever connections come and go, messages are handed to them in the order
\* of the send() calls and none of them a second time, for any number of
\* messages and connects.
THEOREM SendOrder == Spec => []WireOrder
<1>1. ClientInv => WireOrder
  BY DEF ClientInv, WireInv
<1>. QED
  BY <1>1, ClientInvariant, PTL

----------------------------------------------------------------------------
(* The message of a write that succeeded. *)

\* The handler of a write that succeeded.
Succeeded(h) == h.kind = "write" /\ h.ok

HasSuccess(s) == \E i \in 1 .. Len(s) : Succeeded(s[i])

OneSuccess(s) == \A i, j \in 1 .. Len(s) : Succeeded(s[i]) /\ Succeeded(s[j]) => i = j

\* A write that can still succeed.
Current(w) == socket # 0 /\ w.conn = socket

\* Of the writes that succeeded or still can there is one at a time, and its
\* message is in the queue.
WriteInv ==
    /\ OneSuccess(strand)
    /\ \A v, w \in writes : Current(v) /\ Current(w) => v = w
    /\ HasSuccess(strand) => \A w \in writes : ~Current(w)
    /\ task = "alive" /\ (HasSuccess(strand) \/ \E w \in writes : Current(w)) => snd # <<>>
    /\ task = "alive" \/ (task = "deleted" /\ socket = 0)
    /\ fault # "empty"

\* The resolver of connection c has handed out its socket.
Past(c) == res[c].phase \in {"leaving", "leavingPinned", "done"}

\* Connections are never used twice: the socket and the writes belong to
\* resolvers that are done, and connect() takes a resolver of its own.
ResolverInv ==
    /\ res \in [Resolvers -> [phase : Phases, left : Nat]]
    /\ \E k \in Nat : Created = 1 .. k
    /\ socket # 0 => socket \in Resolvers /\ Past(socket)
    /\ \A w \in writes : w.conn # 0 => w.conn \in Resolvers /\ Past(w.conn)

KeptInv == QueueType /\ WriteInv /\ ResolverInv

\* The success of a write is not late: it comes while its connection is in
\* socket_, and reset() never runs with it queued behind the handler that
\* reports the error.
NoneOvertaken ==
    /\ \A op \in writes : WriteEnds(op, TRUE) => Current(op)
    /\ (HandleWrite \/ HandleRead) /\ ~Head(strand).ok => ~HasSuccess(strand)

LEMMA AppendSuccess ==
    ASSUME NEW s \in Seq(Handler), NEW h \in Handler
    PROVE  /\ HasSuccess(Append(s, h)) => HasSuccess(s) \/ Succeeded(h)
           /\ OneSuccess(s) /\ ~Succeeded(h) => OneSuccess(Append(s, h))
           /\ ~HasSuccess(s) => OneSuccess(Append(s, h))
<1>. DEFINE t == Append(s, h)
<1>1. /\ Len(s) \in Nat /\ Len(t) = Len(s) + 1
      /\ \A i \in 1 .. Len(s) : t[i] = s[i]
      /\ t[Len(s) + 1] = h
  BY Appended
<1>. HIDE DEF t
<1>2. \A i \in 1 .. Len(t) : i = Len(s) + 1 \/ i \in 1 .. Len(s)
  BY <1>1
<1>. QED
  BY <1>1, <1>2 DEF HasSuccess, OneSuccess, t

LEMMA TailSuccess ==
    ASSUME NEW s \in Seq(Handler), s # <<>>
    PROVE  /\ HasSuccess(Tail(s)) => HasSuccess(s)
           /\ OneSuccess(s) => OneSuccess(Tail(s))
           /\ OneSuccess(s) /\ Succeeded(Head(s)) => ~HasSuccess(Tail(s))
           /\ Succeeded(Head(s)) => HasSuccess(s)
<1>. DEFINE t == Tail(s)
<1>1. /\ Len(s) \in Nat /\ 1 \in 1 .. Len(s) /\ Head(s) = s[1] /\ Len(t) = Len(s) - 1
      /\ \A i \in 1 .. Len(t) : i + 1 \in 1 .. Len(s) /\ t[i] = s[i + 1]
  BY Tailed
<1>. HIDE DEF t
<1>2. /\ \A i, j \in 1 .. Len(t) : i + 1 = j + 1 => i = j
      /\ \A i \in 1 .. Len(t) : i + 1 # 1
  BY <1>1
<1>. QED
  BY <1>1, <1>2 DEF HasSuccess, OneSuccess, t

LEMMA TailAppendSuccess ==
    ASSUME NEW s \in Seq(Handler), s # <<>>, NEW h \in Handler, ~Succeeded(h)
    PROVE  /\ HasSuccess(Append(Tail(s), h)) => HasSuccess(s)
           /\ OneSuccess(s) => OneSuccess(Append(Tail(s), h))
<1>1. Tail(s) \in Seq(Handler)
  BY TailShift
<1>. QED
  BY <1>1, TailSuccess, AppendSuccess, Zenon

\* A step that leaves the queue, the socket and the writes alone.
LEMMA CalmWrites ==
    ASSUME WriteInv, UNCHANGED <<writes, socket, snd, task>>, fault' # "empty",
           HasSuccess(strand') => HasSuccess(strand), OneSuccess(strand')
    PROVE  WriteInv'
BY DEF WriteInv, Current

\* What becomes of the resolvers when neither socket nor writes change: no
\* resolver that has handed out its socket starts again.
LEMMA CalmResolvers ==
    ASSUME ResolverInv, UNCHANGED <<writes, socket>>,
           res' \in [Resolvers -> [phase : Phases, left : Nat]],
           \A q \in Resolvers : Past(q) => Past(q)',
           \E k \in Nat : Created' = 1 .. k
    PROVE  ResolverInv'
BY DEF ResolverInv

\* do_write() for a queue q.
LEMMA StartWriteKeeps ==
    ASSUME KeptInv, NEW q, StartWrite(q), UNCHANGED <<socket, res, task>>, fault' # "empty",
           OneSuccess(strand'),
           task = "alive" => /\ snd' # <<>> /\ ~HasSuccess(strand')
                             /\ \A w \in writes : ~Current(w)
    PROVE  WriteInv' /\ ResolverInv'
<1>. DEFINE op == [conn |-> socket, msg |-> Head(q)]
<1>1. writes' \subseteq writes \cup {op} /\ op.conn = socket
  BY DEF StartWrite
<1>. HIDE DEF op
<1>2. WriteInv'
  BY <1>1 DEF KeptInv, WriteInv, Current
<1>3. ResolverInv'
  <2>1. ResolverInv
    BY DEF KeptInv
  <2>2. \A w \in writes' : w.conn # 0 => w.conn \in Resolvers /\ Past(w.conn)
    BY <1>1, <2>1 DEF ResolverInv
  <2>. QED
    BY <2>1, <2>2 DEF ResolverInv, Past, Created
<1>. QED
  BY <1>2, <1>3

\* The handlers that are no completed writes.
LEMMA NoSuccess ==
    /\ \A kind \in Slots \cup {"eod"} : Call(kind, 0) \in Handler /\ ~Succeeded(Call(kind, 0))
    /\ \A m \in Nat : Call("send", m) \in Handler /\ ~Succeeded(Call("send", m))
    /\ \A ok \in BOOLEAN : Done("read", ok) \in Handler /\ ~Succeeded(Done("read", ok))
    /\ Done("write", FALSE) \in Handler /\ ~Succeeded(Done("write", FALSE))
    /\ Done("write", TRUE) \in Handler /\ Succeeded(Done("write", TRUE))
BY DEF Call, Done, Handler, Slots, Completions, Succeeded

\* A handler that is no completed write joins the strand.
LEMMA PostKeeps ==
    ASSUME KeptInv, NEW h \in Handler, ~Succeeded(h), strand' = Append(strand, h),
           UNCHANGED <<writes, socket, snd, task, res>>, fault' # "empty"
    PROVE  WriteInv' /\ ResolverInv'
<1>1. strand \in Seq(Handler) /\ WriteInv /\ ResolverInv
  BY DEF KeptInv, QueueType
<1>2. (HasSuccess(strand') => HasSuccess(strand)) /\ OneSuccess(strand')
  BY <1>1, AppendSuccess DEF WriteInv
<1>3. WriteInv'
  BY <1>1, <1>2, CalmWrites
<1>4. ResolverInv'
  BY <1>1 DEF ResolverInv, Past, Created
<1>. QED
  BY <1>3, <1>4

LEMMA UserKeeps ==
    ASSUME KeptInv, User
    PROVE  WriteInv' /\ ResolverInv'
<1>1. fault = "none" /\ UNCHANGED <<writes, socket, snd, task, res, fault>>
  BY DEF User, UserConnect, UserSend, UserStop, TimerFires, Running, netVars
<1>2. CASE UserSend
  <2>1. sent + 1 \in Nat /\ strand' = Append(strand, Call("send", sent + 1))
    BY <1>2, NetClientAssumption DEF UserSend, Dispatch, KeptInv, QueueType
  <2>. QED
    BY <1>1, <2>1, NoSuccess, PostKeeps
<1>3. CASE UserConnect \/ UserStop \/ TimerFires
  <2>1. PICK kind \in Slots \cup {"eod"} : strand' = Append(strand, Call(kind, 0))
    BY <1>3 DEF UserConnect, Dispatch, UserStop, TimerFires, Slots
  <2>. QED
    BY <1>1, <2>1, NoSuccess, PostKeeps
<1>. QED
  BY <1>2, <1>3 DEF User

LEMMA WriteDoneKeeps ==
    ASSUME KeptInv, NEW op \in writes, WriteDone(op), NoneOvertaken
    PROVE  WriteInv' /\ ResolverInv'
<1>0. strand \in Seq(Handler) /\ WriteInv /\ ResolverInv
  BY DEF KeptInv, QueueType
<1>1. PICK ok \in BOOLEAN : WriteEnds(op, ok)
  BY DEF WriteDone
<1>2. /\ writes' = writes \ {op} /\ strand' = Append(strand, Done("write", ok))
      /\ fault = "none" /\ UNCHANGED <<socket, snd, task, res, fault>>
  BY <1>1 DEF WriteEnds, Running
<1>3. ResolverInv'
  <2>1. \A w \in writes' : w.conn # 0 => w.conn \in Resolvers /\ Past(w.conn)
    BY <1>0, <1>2 DEF ResolverInv
  <2>. QED
    BY <1>0, <1>2, <2>1 DEF ResolverInv, Past, Created
<1>4. CASE ok = FALSE
  <2>1. strand' = Append(strand, Done("write", FALSE))
    BY <1>2, <1>4
  <2>2. (HasSuccess(strand') => HasSuccess(strand)) /\ OneSuccess(strand')
    BY <1>0, <2>1, NoSuccess, AppendSuccess DEF WriteInv
  <2>3. WriteInv'
    BY <1>0, <1>2, <2>2 DEF WriteInv, Current
  <2>. QED
    BY <1>3, <2>3
<1>5. CASE ok = TRUE
  <2>1. Current(op)
    BY <1>1, <1>5 DEF NoneOvertaken
  <2>2. ~HasSuccess(strand) /\ \A w \in writes' : ~Current(w)
    BY <1>0, <1>2, <2>1 DEF WriteInv
  <2>3. OneSuccess(strand')
    <3>1. Done("write", ok) \in Handler
      BY Dones DEF Completions
    <3>. QED
      BY <1>0, <1>2, <2>2, <3>1, AppendSuccess
  <2>4. task = "alive" => snd' # <<>>
    BY <1>0, <1>2, <2>1 DEF WriteInv
  <2>5. \A w \in writes' : ~Current(w)'
    BY <1>2, <2>2 DEF Current
  <2>6. WriteInv'
    BY <1>0, <1>2, <2>3, <2>4, <2>5 DEF WriteInv
  <2>. QED
    BY <1>3, <2>6
<1>. QED
  BY <1>4, <1>5

LEMMA NetworkKeeps ==
    ASSUME KeptInv, Network, NoneOvertaken
    PROVE  WriteInv' /\ ResolverInv'
<1>1. CASE Lose
  <2>1. fault = "none" /\ UNCHANGED <<strand, writes, socket, snd, task, res, fault>>
    BY <1>1 DEF Lose, Running
  <2>2. WriteInv'
    BY <2>1, CalmWrites DEF KeptInv, WriteInv
  <2>3. ResolverInv'
    BY <2>1 DEF KeptInv, ResolverInv, Past, Created
  <2>. QED
    BY <2>2, <2>3
<1>2. ASSUME NEW c \in Conns, NEW ok \in BOOLEAN, ReadEnds(c, ok) PROVE WriteInv' /\ ResolverInv'
  <2>1. /\ fault = "none" /\ strand' = Append(strand, Done("read", ok))
        /\ UNCHANGED <<writes, socket, snd, task, res, fault>>
    BY <1>2 DEF ReadEnds, Running
  <2>. QED
    BY <2>1, NoSuccess, PostKeeps
<1>. QED
  BY <1>1, <1>2, WriteDoneKeeps DEF Network, ReadDone

\* A handler leaves the strand and posts another one or none.
LEMMA TakeKeeps ==
    ASSUME KeptInv, strand # <<>>, NEW h \in Handler, ~Succeeded(h),
           strand' \in {Tail(strand), Append(Tail(strand), h)},
           UNCHANGED <<writes, socket, snd, task>>, fault' # "empty"
    PROVE  WriteInv'
<1>1. strand \in Seq(Handler) /\ WriteInv
  BY DEF KeptInv, QueueType
<1>2. OneSuccess(strand)
  BY <1>1 DEF WriteInv
<1>3. CASE strand' = Tail(strand)
  <2>1. (HasSuccess(strand') => HasSuccess(strand)) /\ OneSuccess(strand')
    BY <1>1, <1>2, <1>3, TailSuccess, Zenon
  <2>. QED
    BY <1>1, <2>1, CalmWrites
<1>4. CASE strand' = Append(Tail(strand), h)
  <2>1. (HasSuccess(strand') => HasSuccess(strand)) /\ OneSuccess(strand')
    BY <1>1, <1>2, <1>4, TailAppendSuccess, Zenon
  <2>. QED
    BY <1>1, <2>1, CalmWrites
<1>. QED
  BY <1>3, <1>4

\* The error branches: the writes in flight belong to a closed socket now.
LEMMA DropKeeps ==
    ASSUME KeptInv, strand # <<>>, Drop, ~HasSuccess(strand), UNCHANGED <<writes, res, task>>,
           fault' # "empty"
    PROVE  WriteInv' /\ ResolverInv'
<1>1. strand \in Seq(Handler) /\ WriteInv /\ ResolverInv /\ socket' = 0
  BY DEF KeptInv, QueueType, Drop, Reset
<1>2. strand' \in {Tail(strand), Append(Tail(strand), Call("disconnect", 0))}
  BY DEF Drop
<1>3. Call("disconnect", 0) \in Handler /\ ~Succeeded(Call("disconnect", 0))
  BY NoSuccess DEF Slots
<1>4. ~HasSuccess(strand') /\ OneSuccess(strand')
  BY <1>1, <1>2, <1>3, TailSuccess, TailAppendSuccess DEF WriteInv
<1>5. WriteInv'
  BY <1>1, <1>4 DEF WriteInv, Current
<1>6. ResolverInv'
  BY <1>1 DEF ResolverInv, Past, Created
<1>. QED
  BY <1>5, <1>6

LEMMA SendKeeps ==
    ASSUME KeptInv, Send
    PROVE  WriteInv' /\ ResolverInv'
<1>0. strand \in Seq(Handler) /\ snd \in Seq(Messages) /\ WriteInv /\ ResolverInv
  BY DEF KeptInv, QueueType
<1>1. /\ fault = "none" /\ strand # <<>> /\ strand' = Tail(strand)
      /\ snd' = Append(snd, Head(strand).msg)
      /\ UNCHANGED <<socket, task, res, fault>>
  BY DEF Send, Take, Running
<1>2. snd' # <<>>
  BY <1>0, <1>1
<1>3. (HasSuccess(strand') => HasSuccess(strand)) /\ OneSuccess(strand')
  BY <1>0, <1>1, TailSuccess DEF WriteInv
<1>4. CASE snd # <<>>
  <2>1. UNCHANGED writes
    BY <1>4 DEF Send, FirstIn
  <2>2. WriteInv'
    BY <1>0, <1>1, <1>2, <1>3, <2>1 DEF WriteInv, Current
  <2>3. ResolverInv'
    BY <1>0, <1>1, <2>1 DEF ResolverInv, Past, Created
  <2>. QED
    BY <2>2, <2>3
<1>5. CASE snd = <<>>
  <2>1. StartWrite(snd')
    BY <1>5 DEF Send, FirstIn
  <2>2. task = "alive" => ~HasSuccess(strand') /\ \A w \in writes : ~Current(w)
    BY <1>0, <1>3, <1>5 DEF WriteInv
  <2>. QED
    BY <1>1, <1>2, <1>3, <2>1, <2>2, StartWriteKeeps
<1>. QED
  BY <1>4, <1>5

LEMMA HandleWriteKeeps ==
    ASSUME KeptInv, HandleWrite, NoneOvertaken
    PROVE  WriteInv' /\ ResolverInv'
<1>0. strand \in Seq(Handler) /\ snd \in Seq(Messages) /\ WriteInv /\ ResolverInv
  BY DEF KeptInv, QueueType
<1>1. /\ fault = "none" /\ strand # <<>> /\ Head(strand).kind = "write" /\ task = "alive"
      /\ UNCHANGED <<task, res>>
  BY DEF HandleWrite, Take, Running
<1>2. CASE ~Head(strand).ok
  <2>1. Drop /\ UNCHANGED <<writes, fault>> /\ ~HasSuccess(strand)
    BY <1>2 DEF HandleWrite, NoneOvertaken
  <2>. QED
    BY <1>1, <2>1, DropKeeps
<1>3. CASE Head(strand).ok
  <2>1. Succeeded(Head(strand))
    BY <1>1, <1>3 DEF Succeeded
  <2>2. HasSuccess(strand) /\ OneSuccess(strand)
    BY <1>0, <1>1, <2>1, TailSuccess DEF WriteInv
  <2>3. snd # <<>> /\ \A w \in writes : ~Current(w)
    BY <1>0, <1>1, <2>2 DEF WriteInv
  <2>8. CASE InFlight(Head(snd))
    <3>1. /\ strand' = Tail(strand) /\ fault' = "freed" /\ UNCHANGED <<snd, writes, socket>>
      BY <1>3, <2>3, <2>8 DEF HandleWrite
    <3>2. ~HasSuccess(strand') /\ OneSuccess(strand')
      BY <1>0, <1>1, <2>1, <2>2, <3>1, TailSuccess
    <3>3. WriteInv'
      BY <1>0, <1>1, <2>3, <3>1, <3>2 DEF WriteInv, Current
    <3>4. ResolverInv'
      BY <1>0, <1>1, <3>1 DEF ResolverInv, Past, Created
    <3>. QED
      BY <3>3, <3>4
  <2>. SUFFICES ASSUME ~InFlight(Head(snd)) PROVE WriteInv' /\ ResolverInv'
    BY <2>8
  <2>4. /\ strand' = Tail(strand) /\ snd' = Tail(snd) /\ WriteNext(snd')
        /\ UNCHANGED <<fault, socket, lost>>
    BY <1>3, <2>3 DEF HandleWrite
  <2>5. ~HasSuccess(strand') /\ OneSuccess(strand')
    BY <1>0, <1>1, <2>1, <2>2, <2>4, TailSuccess
  <2>6. CASE snd' # <<>>
    <3>1. StartWrite(snd')
      BY <2>4, <2>6 DEF WriteNext
    <3>. QED
      BY <1>1, <2>3, <2>4, <2>5, <2>6, <3>1, StartWriteKeeps
  <2>7. CASE snd' = <<>>
    <3>1. UNCHANGED writes
      BY <2>4, <2>7 DEF WriteNext
    <3>2. WriteInv'
      BY <1>0, <1>1, <2>3, <2>4, <2>5, <3>1 DEF WriteInv, Current
    <3>3. ResolverInv'
      BY <1>0, <1>1, <2>4, <3>1 DEF ResolverInv, Past, Created
    <3>. QED
      BY <3>2, <3>3
  <2>. QED
    BY <2>6, <2>7
<1>. QED
  BY <1>2, <1>3

LEMMA HandleReadKeeps ==
    ASSUME KeptInv, HandleRead, NoneOvertaken
    PROVE  WriteInv' /\ ResolverInv'
<1>0. fault = "none" /\ strand # <<>> /\ UNCHANGED <<task, res, writes, fault>>
  BY DEF HandleRead, Take, Running
<1>1. CASE ~Head(strand).ok
  <2>1. Drop /\ ~HasSuccess(strand)
    BY <1>1 DEF HandleRead, NoneOvertaken
  <2>. QED
    BY <1>0, <2>1, DropKeeps
<1>2. CASE Head(strand).ok
  <2>1. strand' \in {Tail(strand), Append(Tail(strand), Call("receive", 0))}
    BY <1>2 DEF HandleRead
  <2>2. UNCHANGED <<socket, snd>>
    BY <1>2 DEF HandleRead
  <2>3. Call("receive", 0) \in Handler /\ ~Succeeded(Call("receive", 0))
    BY NoSuccess DEF Slots
  <2>4. WriteInv'
    BY <1>0, <2>1, <2>2, <2>3, TakeKeeps
  <2>5. ResolverInv'
    BY <1>0, <2>2 DEF KeptInv, ResolverInv, Past, Created
  <2>. QED
    BY <2>4, <2>5
<1>. QED
  BY <1>1, <1>2

\* connect() takes the first resolver that was never used.
LEMMA ConnectKeeps ==
    ASSUME KeptInv, Connect
    PROVE  WriteInv' /\ ResolverInv'
<1>. DEFINE r == Cardinality(Created) + 1
<1>0. ResolverInv
  BY DEF KeptInv
<1>1. /\ strand # <<>> /\ strand' = Tail(strand) /\ fault = "none"
      /\ res' = [res EXCEPT ![r].phase = "posted"]
      /\ UNCHANGED <<writes, socket, snd, task, fault>>
  BY DEF Connect, Take, Running, netVars
<1>2. WriteInv'
  BY <1>1, NoSuccess, TakeKeeps DEF Slots
<1>3. PICK k \in Nat : Created = 1 .. k
  BY <1>0 DEF ResolverInv
<1>4. r = k + 1
  <2>1. Cardinality(1 .. k) = k
    BY FS_Interval
  <2>. QED
    BY <1>3, <2>1
<1>. HIDE DEF r
<1>5. r \notin Created
  BY <1>3, <1>4
<1>6. res \in [Resolvers -> [phase : Phases, left : Nat]]
  BY <1>0 DEF ResolverInv
<1>7. CASE r \notin Resolvers
  <2>1. UNCHANGED <<res, writes, socket>>
    BY <1>1, <1>6, <1>7
  <2>2. ResolverInv'
    BY <1>0, <2>1 DEF ResolverInv, Past, Created
  <2>. QED
    BY <1>2, <2>2
<1>8. CASE r \in Resolvers
  <2>1. res[r].phase = "none"
    BY <1>5, <1>8 DEF Created
  <2>2. /\ res' \in [Resolvers -> [phase : Phases, left : Nat]]
        /\ res'[r].phase = "posted"
        /\ \A q \in Resolvers : q # r => res'[q] = res[q]
    BY <1>1, <1>6, <1>8 DEF Phases
  <2>3. \A q \in Resolvers : Past(q) => Past(q)'
    BY <2>1, <2>2 DEF Past
  <2>4. Created' = Created \cup {r}
    BY <1>8, <2>1, <2>2 DEF Created
  <2>5. Created' = 1 .. (k + 1) /\ k + 1 \in Nat
    BY <1>3, <1>4, <2>4
  <2>6. ResolverInv'
    BY <1>0, <1>1, <2>2, <2>3, <2>5, CalmResolvers
  <2>. QED
    BY <1>2, <2>6
<1>. QED
  BY <1>7, <1>8

LEMMA StrandKeeps ==
    ASSUME KeptInv, Strand, NoneOvertaken
    PROVE  WriteInv' /\ ResolverInv'
<1>1. CASE \/ \E kind \in Slots : Skip(kind)
           \/ \E kind \in Completions : OnFreed(kind)
           \/ OnReceive \/ OnDisconnect
  <2>1. /\ strand # <<>> /\ strand' = Tail(strand) /\ fault' # "empty"
    BY <1>1 DEF Skip, OnFreed, OnReceive, OnDisconnect, Take, Running
  <2>2. UNCHANGED <<writes, socket, snd, task, res>>
    BY <1>1 DEF Skip, OnFreed, OnReceive, OnDisconnect, netVars
  <2>3. WriteInv'
    BY <2>1, <2>2, NoSuccess, TakeKeeps DEF Slots
  <2>4. ResolverInv'
    BY <2>2 DEF KeptInv, ResolverInv, Past, Created
  <2>. QED
    BY <2>3, <2>4
<1>2. CASE Eod
  <2>0. strand \in Seq(Handler) /\ WriteInv /\ ResolverInv
    BY DEF KeptInv, QueueType
  <2>1. /\ strand # <<>> /\ strand' = Tail(strand) /\ fault = "none" /\ socket' = 0
        /\ task' = "deleted" /\ UNCHANGED <<writes, res, fault>>
    BY <1>2 DEF Eod, Take, Running, Reset
  <2>2. OneSuccess(strand')
    BY <2>0, <2>1, TailSuccess DEF WriteInv
  <2>3. WriteInv'
    BY <2>1, <2>2 DEF WriteInv, Current
  <2>4. ResolverInv'
    BY <2>0, <2>1 DEF ResolverInv, Past, Created
  <2>. QED
    BY <2>3, <2>4
<1>. QED
  BY <1>1, <1>2, ConnectKeeps, SendKeeps, HandleWriteKeeps, HandleReadKeeps DEF Strand

\* Resolvers move on: none is created, and none takes back its socket.
Moved ==
    /\ res' \in [Resolvers -> [phase : Phases, left : Nat]]
    /\ \A q \in Resolvers : (res'[q].phase = "none") = (res[q].phase = "none")
    /\ \A q \in Resolvers : Past(q) => Past(q)'

LEMMA MovedKeeps ==
    ASSUME ResolverInv, Moved, UNCHANGED writes,
           socket' # 0 => socket' = socket \/ (socket' \in Resolvers /\ Past(socket)')
    PROVE  ResolverInv'
<1>1. Created' = Created
  BY DEF Created, Moved
<1>2. \E k \in Nat : Created' = 1 .. k
  BY <1>1 DEF ResolverInv
<1>3. socket' # 0 => socket' \in Resolvers /\ Past(socket)'
  BY DEF ResolverInv, Moved, Past
<1>4. \A w \in writes' : w.conn # 0 => w.conn \in Resolvers /\ Past(w.conn)'
  BY DEF ResolverInv, Moved
<1>. QED
  BY <1>2, <1>3, <1>4 DEF ResolverInv, Moved

LEMMA PhaseMoves ==
    ASSUME ResolverInv, NEW r \in Resolvers, NEW p \in Phases \ {"none"}, NEW n \in Nat,
           res[r].phase # "none", ~Past(r), res' = [res EXCEPT ![r] = [phase |-> p, left |-> n]]
    PROVE  Moved /\ res'[r].phase = p
<1>1. res \in [Resolvers -> [phase : Phases, left : Nat]]
  BY DEF ResolverInv
<1>2. /\ res' \in [Resolvers -> [phase : Phases, left : Nat]]
      /\ res'[r] = [phase |-> p, left |-> n]
      /\ \A q \in Resolvers : q # r => res'[q] = res[q]
  BY <1>1
<1>. QED
  BY <1>2 DEF Moved, Past

LEMMA ResolvingKeeps ==
    ASSUME KeptInv, NEW r \in Resolvers, Resolving(r)
    PROVE  WriteInv' /\ ResolverInv'
<1>0. /\ WriteInv /\ ResolverInv /\ res \in [Resolvers -> [phase : Phases, left : Nat]]
  BY DEF KeptInv, ResolverInv
<1>1. res' = res => Moved
  BY <1>0 DEF Moved, Past
<1>2. UNCHANGED <<strand, snd, writes, task>> /\ fault = "none" /\ fault' # "empty"
  <2>1. UNCHANGED <<strand, snd, writes, task>>
    BY DEF Resolving, ResolveFails, Resolve, ConnectFails, ConnectSucceeds, ConnectThrows, OnConnectFreed, Leave,
           netVars
  <2>2. fault = "none"
    BY DEF Resolving, ResolveFails, Resolve, ConnectFails, ConnectSucceeds, ConnectThrows, OnConnectFreed, Leave,
           Running
  <2>3. fault' # "empty"
    BY <2>2 DEF Resolving, ResolveFails, Resolve, ConnectFails, ConnectSucceeds, ConnectThrows, OnConnectFreed,
                Leave, CallBackFailed
  <2>. QED
    BY <2>1, <2>2, <2>3
\* All but a connect that succeeds leave the socket alone.
<1>3. ASSUME Moved, UNCHANGED socket PROVE WriteInv' /\ ResolverInv'
  <2>1. ResolverInv'
    BY <1>0, <1>2, <1>3, MovedKeeps
  <2>2. WriteInv'
    BY <1>0, <1>2, <1>3, CalmWrites DEF WriteInv
  <2>. QED
    BY <2>1, <2>2
<1>4. ASSUME NEW pinned \in BOOLEAN, CallBackFailed(r, pinned), res[r].phase \in {"posted", "trying"}
      PROVE  Moved
  <2>1. CASE res' = res
    BY <1>1, <2>1
  <2>2. CASE res' # res
    <3>1. PICK p \in {"leaving", "leavingPinned"} : res' = [res EXCEPT ![r] = [phase |-> p, left |-> 0]]
      BY <1>4, <2>2 DEF CallBackFailed, SetPhase
    <3>2. p \in Phases \ {"none"} /\ res[r].phase # "none" /\ ~Past(r)
      BY <1>4 DEF Phases, Past
    <3>. QED
      BY <1>0, <3>1, <3>2, PhaseMoves
  <2>. QED
    BY <2>1, <2>2
<1>5. CASE ResolveFails(r)
  <2>1. CallBackFailed(r, TRUE) /\ res[r].phase = "posted" /\ UNCHANGED socket
    BY <1>5 DEF ResolveFails
  <2>. QED
    BY <1>3, <1>4, <2>1
<1>6. CASE \E n \in 1 .. MaxEndpoints : Resolve(r, n)
  <2>1. PICK n \in 1 .. MaxEndpoints : Resolve(r, n)
    BY <1>6
  <2>2. /\ res[r].phase = "posted" /\ UNCHANGED socket
        /\ res' = [res EXCEPT ![r] = [phase |-> "trying", left |-> n]]
    BY <2>1 DEF Resolve
  <2>3. "trying" \in Phases \ {"none"} /\ res[r].phase # "none" /\ ~Past(r) /\ n \in Nat
    BY <2>2 DEF Phases, Past
  <2>4. Moved
    BY <1>0, <2>2, <2>3, PhaseMoves
  <2>. QED
    BY <1>3, <2>2, <2>4
<1>7. CASE ConnectFails(r)
  <2>1. res[r].phase = "trying" /\ UNCHANGED socket
    BY <1>7 DEF ConnectFails
  <2>2. CASE MoreEndpoints(r)
    <3>1. res[r].left - 1 \in Nat
      <4>1. res[r].left \in Nat /\ res[r].left > 1
        BY <1>0, <2>2 DEF MoreEndpoints
      <4>. QED
        BY <4>1
    <3>2. res' = [res EXCEPT ![r].left = res[r].left - 1]
      BY <1>7, <2>2 DEF ConnectFails
    <3>3. /\ res' \in [Resolvers -> [phase : Phases, left : Nat]]
          /\ \A q \in Resolvers : res'[q].phase = res[q].phase
      BY <1>0, <3>1, <3>2
    <3>4. Moved
      BY <3>3 DEF Moved, Past
    <3>. QED
      BY <1>3, <2>1, <3>4
  <2>3. CASE ~MoreEndpoints(r)
    <3>1. CallBackFailed(r, FALSE)
      BY <1>7, <2>3 DEF ConnectFails
    <3>. QED
      BY <1>3, <1>4, <2>1, <3>1
  <2>. QED
    BY <2>2, <2>3
\* The writes in flight belong to older connections.
<1>8. CASE ConnectSucceeds(r) /\ task = "alive"
  <2>1. /\ res[r].phase = "trying" /\ socket' = r /\ r # 0
        /\ res' = [res EXCEPT ![r] = [phase |-> "leaving", left |-> 0]]
    BY <1>8 DEF ConnectSucceeds, SetPhase, Resolvers
  <2>2. "leaving" \in Phases \ {"none"} /\ res[r].phase # "none" /\ ~Past(r)
    BY <2>1 DEF Phases, Past
  <2>3. Moved /\ Past(r)'
    BY <1>0, <2>1, <2>2, PhaseMoves DEF Past
  <2>4. ResolverInv'
    BY <1>0, <1>2, <2>1, <2>3, MovedKeeps DEF Past
  <2>5. \A w \in writes' : ~Current(w)'
    BY <1>0, <1>2, <2>1, <2>2 DEF ResolverInv, Current
  <2>6. WriteInv'
    BY <1>0, <1>2, <1>8, <2>5 DEF WriteInv
  <2>. QED
    BY <2>4, <2>6
<1>9. CASE ConnectThrows(r) \/ OnConnectFreed(r) \/ (ConnectSucceeds(r) /\ task # "alive")
  <2>1. task # "alive" => task = "deleted"
    BY <1>0 DEF WriteInv
  <2>2. UNCHANGED <<res, socket>>
    BY <1>9, <2>1 DEF ConnectThrows, OnConnectFreed, ConnectSucceeds
  <2>. QED
    BY <1>1, <1>3, <2>2
<1>10. CASE Leave(r)
  <2>1. UNCHANGED socket
    BY <1>10 DEF Leave
  <2>2. CASE res' = res
    BY <1>1, <1>3, <2>1, <2>2
  <2>3. CASE res' # res
    <3>1. /\ res[r].phase \in {"leaving", "leavingPinned"}
          /\ res' = [q \in Resolvers |->
                       IF q = r \/ (q = resolver /\ res[q].phase = "posted")
                       THEN [res[q] EXCEPT !.phase = "done"]
                       ELSE res[q]]
      BY <1>10, <2>3 DEF Leave
    <3>2. res' \in [Resolvers -> [phase : Phases, left : Nat]]
      BY <1>0, <3>1 DEF Phases
    <3>3. \A q \in Resolvers :
            \/ res'[q] = res[q]
            \/ res'[q].phase = "done" /\ res[q].phase # "none"
      BY <1>0, <3>1
    <3>4. Moved
      BY <3>2, <3>3 DEF Moved, Past
    <3>. QED
      BY <1>3, <2>1, <3>4
  <2>. QED
    BY <2>2, <2>3
<1>. QED
  BY <1>5, <1>6, <1>7, <1>8, <1>9, <1>10 DEF Resolving

----------------------------------------------------------------------------
LEMMA KeptInit == Init => KeptInv
<1>. SUFFICES ASSUME Init PROVE KeptInv
  OBVIOUS
<1>1. QueueType
  BY ClientInit DEF ClientInv
<1>2. 1 .. Len(strand) = {} /\ writes = {} /\ socket = 0 /\ task = "alive" /\ fault = "none"
  BY DEF Init
<1>3. WriteInv
  BY <1>2 DEF WriteInv, OneSuccess, HasSuccess
<1>4. res \in [Resolvers -> [phase : Phases, left : Nat]]
  BY DEF Init, Phases
<1>5. Created = 1 .. 0
  BY DEF Init, Created
<1>6. ResolverInv
  BY <1>2, <1>4, <1>5 DEF ResolverInv
<1>. QED
  BY <1>1, <1>3, <1>6 DEF KeptInv

LEMMA KeptNext ==
    ASSUME ClientInv, KeptInv, [Next]_vars, [NoneOvertaken]_vars
    PROVE  KeptInv'
<1>0. QueueType'
  BY ClientNext DEF ClientInv
<1>1. CASE UNCHANGED vars
  <2>1. UNCHANGED <<strand, snd, writes, socket, task, fault, res>>
    BY <1>1 DEF vars
  <2>2. WriteInv' /\ ResolverInv'
    BY <2>1 DEF KeptInv, WriteInv, ResolverInv, Current, Past, Created
  <2>. QED
    BY <1>0, <2>2 DEF KeptInv
<1>2. CASE Next /\ NoneOvertaken
  BY <1>0, <1>2, UserKeeps, NetworkKeeps, StrandKeeps, ResolvingKeeps DEF Next, KeptInv
<1>. QED
  BY <1>1, <1>2

\* The assertion BOOST_ASSERT(!snd_.empty()) of handle_write() (client.hpp:164)
\* has one weak point, reset() with the handler of a write that succeeded still
\* queued.  Where that does not happen, the message of every such write is in
\* the queue when its handler runs, through lost connections, reconnects that
\* replace the socket under a write in flight, and messages sent before there
\* is a connection.
THEOREM WrittenStaysQueued ==
    Spec /\ [][NoneOvertaken]_vars => []WrittenIsQueued
<1>1. ClientInv /\ KeptInv /\ [Next]_vars /\ [NoneOvertaken]_vars => KeptInv'
  BY KeptNext
<1>2. KeptInv => WrittenIsQueued
  BY DEF KeptInv, WriteInv, WrittenIsQueued
<1>. QED
  BY <1>1, <1>2, KeptInit, ClientInvariant, PTL DEF Spec
============================================================================

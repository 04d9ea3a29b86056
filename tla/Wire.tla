-------------------------------- MODULE Wire --------------------------------
(***************************************************************************)
(* The binary format: objects are written as a sequence of instructions,   *)
(* leaves and op codes that build the containers again (the binary         *)
(* serializers), each one as type, length and value; the parser reads it   *)
(* byte by byte.                                                           *)
(*                                                                         *)
(* A byte has Base values in the place of 256.  The marks of the length    *)
(* field and the limits scale with it: 0x7e is Base / 2 - 2, 0x7f is       *)
(* Base / 2 - 1, and 0xFFFF is Base ^ 2 - 1.                               *)
(***************************************************************************)
EXTENDS Stack

CONSTANT Base       \* number of values of a byte

ASSUME WireAssumption == Base \in Nat /\ Base > 4 /\ Base % 2 = 0

Mark16 == Base \div 2 - 2
Mark64 == Base \div 2 - 1

TypeCodes ==
    <<"null", "string", "uint64", "op", "uuid", "obis", "buffer", "system">>

TypeCode(t) == CHOOSE i \in DOMAIN TypeCodes : TypeCodes[i] = t

Bytes == 0 .. Base - 1

\* Numbers below these limits have 2 and 8 bytes.
Limit2 == Base * Base
Limit8 == Limit2 * Limit2 * Limit2 * Limit2

\* write_binary(): n bytes in network order, each one what a shift leaves.
Digits(x, n) ==
    LET shifted[i \in 0 .. n] == IF i = 0 THEN x ELSE shifted[i - 1] \div Base
    IN [i \in 1 .. n |-> shifted[n - i] % Base]

\* to_numeric()
Number(bs) ==
    LET value[i \in 0 .. Len(bs)] == IF i = 0 THEN 0 ELSE value[i - 1] * Base + bs[i]
    IN value[Len(bs)]

----------------------------------------------------------------------------
(* Serializer. *)

\* What has a type code of its own and is written as it is.
Instructions ==
    [t : {"uint64"}, v : [1 .. 1 -> 0 .. Limit8 - 1], items : {<<>>}]
        \cup [t : {"op"}, v : [1 .. 1 -> 0 .. Limit2 - 1], items : {<<>>}]
        \cup [t : ToSet(TypeCodes) \ {"uint64", "op"}, v : Seq(Bytes), items : {<<>>}]

\* Mutant: one length too many in the short form.
SerializeLengthOff(n) ==
    IF n <= Mark16 THEN <<n>>
    ELSE IF n < Limit2 - 1 THEN <<Mark16>> \o Digits(n, 2)
    ELSE <<Mark64>> \o Digits(n, 8)

SerializeLength(n) ==
    IF n < Mark16 THEN <<n>>
    ELSE IF n < Limit2 - 1 THEN <<Mark16>> \o Digits(n, 2)
    ELSE <<Mark64>> \o Digits(n, 8)

Payload(o) ==
    CASE o.t = "uint64" -> Digits(o.v[1], 8)
      [] o.t = "op" -> Digits(o.v[1], 2)
      [] OTHER -> o.v

Serialize(o) ==
    Digits(TypeCode(o.t), 2) \o SerializeLength(Len(Payload(o))) \o Payload(o)

\* Objects one after the other; behind[n] are the bytes of the last n.
SerializeAll(os) ==
    LET behind[n \in 0 .. Len(os)] ==
            IF n = 0 THEN <<>> ELSE Serialize(os[Len(os) + 1 - n]) \o behind[n - 1]
    IN behind[Len(os)]

----------------------------------------------------------------------------
(* Parser: a record of the members of cyng::io::parser. *)

Members(state, buffer, type, length) ==
    [state |-> state, buffer |-> buffer, type |-> type, length |-> length]

Parser == Members("TYPE", <<>>, 0, 0)

SizeOfLengthField(b) == IF b = Mark16 THEN 3 ELSE IF b = Mark64 THEN 9 ELSE 1

SetLength(buf) == IF Len(buf) = 1 THEN buf[1] ELSE Number(Tail(buf))

\* deserialize(); a type code nobody wrote gives a buffer.
Deserialize(type, buf) ==
    LET t == IF type \in DOMAIN TypeCodes THEN TypeCodes[type] ELSE "buffer" IN
    Leaf(t, IF t \in {"uint64", "op"} THEN <<Number(buf)>> ELSE buf)

\* put(): the next state of the parser, and the objects handed to its callback.
Put(p, b) ==
    LET buf == Append(p.buffer, b) IN
    CASE p.state = "TYPE" ->
             IF Len(buf) = 2
             THEN <<Members("LENGTH", <<>>, Number(buf), 0), <<>>>>
             ELSE <<Members("TYPE", buf, p.type, p.length), <<>>>>
      [] p.state = "LENGTH" ->
             LET n == SetLength(buf) IN
             IF Len(buf) # SizeOfLengthField(buf[1])
             THEN <<Members("LENGTH", buf, p.type, p.length), <<>>>>
             ELSE IF n = 0
                  THEN <<Members("TYPE", <<>>, p.type, p.length),
                         <<Deserialize(p.type, <<>>)>>>>
                  ELSE <<Members("VALUE", <<>>, p.type, n), <<>>>>
      [] p.state = "VALUE" ->
             IF p.length = 1
             THEN <<Members("TYPE", <<>>, p.type, 0), <<Deserialize(p.type, buf)>>>>
             ELSE <<Members("VALUE", buf, p.type, p.length - 1), <<>>>>

\* put() of the next byte, unless the callback was called already.
Feed(r, b) ==
    LET q == Put(r.parser, b) IN
    IF r.out # <<>> THEN r ELSE [parser |-> q[1], out |-> q[2], used |-> r.used + 1]

\* read() up to the byte whose put() calls the callback.  The one outcome (as a
\* set, whose element TLC evaluates once) has the parser, what it handed out, and
\* the number of bytes used.
Read(p, bs) ==
    LET fed[i \in 0 .. Len(bs)] ==
            IF i = 0 THEN {[parser |-> p, out |-> <<>>, used |-> 0]}
            ELSE {Feed(r, bs[i]) : r \in fed[i - 1]}
    IN fed[Len(bs)]
============================================================================

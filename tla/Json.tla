-------------------------------- MODULE Json --------------------------------
(***************************************************************************)
(* The JSON parser: parser::read() takes bytes (json_parser.h), the        *)
(* sanitizer makes code points of them (utf-8.cpp), the tokenizer symbols  *)
(* (json_tokenizer.cpp) and the parser objects (json_parser.cpp).  Every   *)
(* call of tokenizer::put() is a step.                                     *)
(*                                                                         *)
(* The input is a stream of documents, cut into calls of read() anywhere.  *)
(***************************************************************************)
EXTENDS JsonText, FiniteSets

CONSTANTS
    Documents,  \* a set of [text, value, kept]: a text, what it was written
                \* from (<<"none">>: it is malformed), and whether that comes back
    MaxDocs     \* how many documents a stream has at most

ASSUME MaxDocs \in Nat \ {0}

NoCp == "none"  \* no code point waits for the tokenizer

Limit == 32     \* how often a code point may be rejected

VARIABLES
    docs,       \* the stream: a sequence of documents
    marked,     \* the stream starts with a byte order mark
    doc,        \* the document that is read
    pos,        \* how many of its bytes have been read
    counter,    \* counter_, as far as it is looked at: 0, 1, 2, more
    bom,        \* read(): inside what may be a byte order mark
    trailer,    \* read(): its bytes
    cut,        \* history: a call of read() ended inside of it
    chars,      \* u8_to_u32: the bytes of an incomplete glyph
    cp,         \* the code point offered to the tokenizer, or NoCp
    limit,      \* how often it may still be rejected
    tok,        \* tokenizer::state_
    buffer,     \* tokenizer::buffer_
    state,      \* parser::state_
    stack,      \* parser::stack_
    out         \* the objects given to the callback

input == <<docs, marked, doc, pos, counter, bom, trailer, cut, chars>>
token == <<tok, buffer>>
parser == <<state, stack, out>>
vars == <<input, cp, limit, token, parser>>

Text(d) ==
    (IF d = 1 /\ marked THEN Mark ELSE <<>>) \o docs[d].text

Init ==
    /\ docs \in UNION {[1 .. n -> Documents] : n \in 1 .. MaxDocs}
    /\ marked \in BOOLEAN
    /\ doc = 1 /\ pos = 0
    /\ counter = 0 /\ bom = FALSE /\ trailer = <<>> /\ cut = FALSE /\ chars = <<>>
    /\ cp = NoCp /\ limit = Limit
    /\ tok = "START" /\ buffer = <<>>
    /\ state = <<>> /\ stack = <<>> /\ out = <<>>

-----------------------------------------------------------------------------
(* read()                                                                  *)

(* sanitizer::put(): a byte may complete a code point.                     *)
Sanitize(c) ==
    LET glyph == Append(chars, c)
    IN  IF c \notin HighBytes /\ chars = <<>>
        THEN cp' = c /\ UNCHANGED chars
        ELSE IF Len(glyph) = ByteCount(glyph[1])
             THEN cp' = Glyph(glyph) /\ chars' = <<>>
             ELSE chars' = glyph /\ UNCHANGED cp

(* A mark is looked for in front of the very first byte only.              *)
MarkBegins(c) == counter = 0 /\ c = "EF"

(* The next byte.  Three bytes that are no mark are one code point.        *)
ReadByte ==
    /\ cp = NoCp
    /\ doc <= Len(docs)
    /\ LET c == Text(doc)[pos + 1]
       IN  IF bom \/ MarkBegins(c)
           THEN /\ trailer' = Append(trailer, c)
                /\ bom' = (counter # 2)
                /\ cp' = IF counter # 2 \/ trailer' = Mark
                         THEN NoCp ELSE Glyph(trailer')
                /\ UNCHANGED chars
           ELSE Sanitize(c) /\ UNCHANGED <<bom, trailer>>
    /\ counter' = IF counter < 3 THEN counter + 1 ELSE counter
    /\ limit' = Limit
    /\ IF pos + 1 = Len(Text(doc))
       THEN doc' = doc + 1 /\ pos' = 0
       ELSE pos' = pos + 1 /\ UNCHANGED doc
    /\ UNCHANGED <<docs, marked, cut, token, parser>>

(* One call of read() ends and the next one begins: bom and trailer are    *)
(* variables of the call.                                                  *)
NewRead ==
    /\ bom
    /\ bom' = FALSE /\ trailer' = <<>> /\ cut' = TRUE
    /\ UNCHANGED <<docs, marked, doc, pos, counter, chars, cp, limit, token,
                   parser>>

-----------------------------------------------------------------------------
(* The parser: what a symbol does to state_, stack_ and the callback.      *)

EOD == <<"eod">>

Replaced(s, x) == Append(Front(s), x)

(* The objects above the last eod, from the top down, and what is below.   *)
Bottom(stk) == SelectLastInSeq(stk, LAMBDA v : v[1] = "eod")
Popped(stk) == Reverse(SubSeq(stk, Bottom(stk) + 1, Len(stk)))
Below(stk) == SubSeq(stk, 1, Bottom(stk) - 1)

(* build_object(): a name and a value become a parameter.                  *)
MadeParam(stk) ==
    IF Last(state) = "VALUE" /\ Len(stk) > 2
    THEN Append(SubSeq(stk, 1, Len(stk) - 2),
                <<"param", stk[Len(stk) - 1][2], Last(stk)>>)
    ELSE stk

(* Mutant: the elements stay in the order they were popped in.             *)
MadeVectorReversed(stk) == <<"vec", Popped(stk)>>

(* build_array()                                                           *)
MadeVector(stk) == <<"vec", Reverse(Popped(stk))>>

(* container_cast(): what is no parameter becomes an empty one.            *)
AsParam(o) == IF o[1] = "param" THEN o ELSE <<"param", <<>>, <<"null">>>>

(* build_member(): emplace() keeps the first one of a name.                *)
MadeMap(stk) ==
    LET ps == [i \in DOMAIN Popped(stk) |-> AsParam(Popped(stk)[i])]
    IN  <<"map", {<<ps[i][2], ps[i][3]>> :
                    i \in {j \in DOMAIN ps :
                             \A k \in 1 .. j - 1 : ps[k][2] # ps[j][2]}}>>

(* Mutant: state_ keeps the entry of a closed container.                   *)
CompleteKept(obj, stk) ==
    IF Len(state) = 1
    THEN out' = Append(out, obj) /\ stack' = Below(stk) /\ state' = state
    ELSE /\ stack' = Append(Below(stk), obj) /\ UNCHANGED out
         /\ state' = Front(state)

(* A container is closed.  The outermost one goes to the callback.         *)
Complete(obj, stk) ==
    /\ state' = Front(state)
    /\ IF state' = <<>>
       THEN out' = Append(out, obj) /\ stack' = Below(stk)
       ELSE stack' = Append(Below(stk), obj) /\ UNCHANGED out

(* process_symbol().  The documents are well-formed: state_ is not empty   *)
(* where its top is used.                                                  *)
ProcessSymbol ==
    CASE cp \in {"[", "{"} ->
            /\ stack' = Append(stack, EOD)
            /\ state' = Append(state, IF cp = "[" THEN "ARRAY"
                                                       ELSE "OBJECT")
            /\ UNCHANGED out
      [] cp = ":" -> state' = Replaced(state, "VALUE")
                       /\ UNCHANGED <<stack, out>>
      [] cp = "," ->
            /\ stack' = MadeParam(stack)
            /\ state' = IF Last(state) = "VALUE"
                        THEN Replaced(state, "OBJECT") ELSE state
            /\ UNCHANGED out
      [] cp = "]" -> Complete(MadeVector(stack), stack)
      [] cp = "}" -> Complete(MadeMap(MadeParam(stack)), MadeParam(stack))

Push(obj) == stack' = Append(stack, obj) /\ UNCHANGED <<state, out>>

Unsigned(s) == IF s # <<>> /\ s[1] \in {"-", "+"} THEN Tail(s) ELSE s

AllDigits(s) == s # <<>> /\ ToSet(s) \subseteq Digits

(* process_number(): a text that is no number is kept as a string.         *)
Number(s) == <<IF AllDigits(Unsigned(s)) THEN "int" ELSE "str", s>>

(* process_float(): digits with a point between them, and an exponent.     *)
Float(s) ==
    LET e == SelectInSeq(s, LAMBDA c : c \in {"e", "E"})
        mant == Unsigned(IF e = 0 THEN s ELSE SubSeq(s, 1, e - 1))
        expo == IF e = 0 THEN <<"0">> ELSE Unsigned(SubSeq(s, e + 1, Len(s)))
    IN  <<IF AllDigits(Remove(mant, ".")) /\ AllDigits(expo) THEN "dbl" ELSE "str", s>>

(* The symbol of a string: the conversion to UTF-8 throws for what is      *)
(* beyond Unicode.                                                         *)
Converts(s) == "U+110000" \notin ToSet(s)

(* build_literal() keeps the text of the exception instead.                *)
Literal(s) ==
    CASE s = NullWord -> <<"null">>
      [] s \in {TrueWord, FalseWord} -> <<"bool", s = TrueWord>>
      [] OTHER -> <<"str", IF Converts(s) THEN s ELSE <<"what">>>>

-----------------------------------------------------------------------------
(* The tokenizer: one action for each state.                               *)

Advance == cp' = NoCp /\ UNCHANGED limit

(* next_code_point() offers the code point again, Limit times at most.     *)
Reject ==
    IF limit = 0 THEN Advance ELSE limit' = limit - 1 /\ UNCHANGED cp

Offered(s) == tok = s /\ cp # NoCp

Collect(text, s) == buffer' = buffer \o text /\ tok' = s /\ UNCHANGED parser

(* A symbol is complete: its object goes to the parser.                    *)
Emit(obj) == Push(obj) /\ buffer' = <<>> /\ tok' = "START"

StateStart ==
    /\ Offered("START")
    /\ Advance
    /\ \/ cp \in Structural /\ ProcessSymbol /\ UNCHANGED token
       \/ cp \in White /\ UNCHANGED <<token, parser>>
       \/ cp = "\"" /\ Collect(<<>>, "STRING")
       \/ cp = "0" /\ Collect(<<>>, "EXPONENT")
       \/ cp \in {"-"} \cup (Digits \ {"0"}) /\ Collect(<<cp>>, "NUMBER")
       \/ /\ cp \notin Structural \cup White \cup Digits \cup {"\"", "-"}
          /\ Collect(<<cp>>, "LITERAL")

StateString ==
    /\ Offered("STRING")
    /\ Advance
    /\ \/ cp = "\"" /\ Converts(buffer) /\ Emit(<<"str", buffer>>)
       \/ cp = "\\" /\ Collect(<<>>, "ESCAPE")
       \/ cp \notin {"\"", "\\"} /\ Collect(<<cp>>, "STRING")

(* The exception leaves read(): the tokenizer stays in the string, and the *)
(* rest of the bytes of this call is lost, none or those of the document.  *)
StringThrows ==
    /\ Offered("STRING")
    /\ cp = "\""
    /\ ~Converts(buffer)
    /\ cp' = NoCp
    /\ \/ UNCHANGED <<doc, pos>>
       \/ doc' = doc + 1 /\ pos' = 0
    /\ UNCHANGED <<docs, marked, counter, bom, trailer, cut, chars, limit, token, parser>>

StateLiteral ==
    /\ Offered("LITERAL")
    /\ \/ cp \in White /\ Emit(Literal(buffer)) /\ Advance
       \/ cp \in Structural \cup {"\"", "'"} /\ Emit(Literal(buffer)) /\ Reject
       \/ /\ cp \notin White \cup Structural \cup {"\"", "'"}
          /\ Collect(<<cp>>, "LITERAL") /\ Advance

(* What a letter behind a backslash stands for; nothing if it is unknown.  *)
Unescaped(c) ==
    LET letters == [b |-> "BS", f |-> "FF", n |-> "LF", r |-> "CR", t |-> "TAB"]
    IN  CASE c \in {"\"", "\\", "/"} -> <<c>>
          [] c \in DOMAIN letters -> <<letters[c]>>
          [] OTHER -> <<>>

StateEscape ==
    /\ Offered("ESCAPE")
    /\ Advance
    /\ \/ cp = "u" /\ Collect(<<"SOH">>, "UNICODE")
       \/ cp # "u" /\ Collect(Unescaped(cp), "STRING")

(* The value of hex digits, in capitals or not.                            *)
LowerOf == [A |-> "a", B |-> "b", C |-> "c", D |-> "d", E |-> "e", F |-> "f"]
HexChars == Digits \cup DOMAIN LowerOf \cup Range(LowerOf)
FromHex(ds) ==
    CHOOSE c \in DOMAIN HexOf :
        HexOf[c] = [i \in DOMAIN ds |-> IF ds[i] \in DOMAIN LowerOf THEN LowerOf[ds[i]]
                                                                  ELSE ds[i]]

(* convert_to_unicode(): behind the last SOH in the buffer are four digits. *)
StateUnicode ==
    LET b == Append(buffer, cp)
        mark == SelectLastInSeq(b, LAMBDA c : c = "SOH")
    IN  /\ Offered("UNICODE")
        /\ Advance
        /\ \/ cp \notin HexChars /\ Collect(<<>>, "ERROR_")
           \/ cp \in HexChars /\ Len(b) - mark < 4 /\ Collect(<<cp>>, "UNICODE")
           \/ /\ cp \in HexChars
              /\ Len(b) - mark = 4
              /\ buffer' = Append(SubSeq(b, 1, mark - 1), FromHex(SubSeq(b, mark + 1, Len(b))))
              /\ tok' = "STRING"
              /\ UNCHANGED parser

StateNumber ==
    /\ Offered("NUMBER")
    /\ \/ cp = "." /\ Collect(<<cp>>, "FRACTION") /\ Advance
       \/ cp \in Digits /\ Collect(<<cp>>, "NUMBER") /\ Advance
       \/ cp \in {"e", "E"} /\ Collect(<<".", "0", cp>>, "EXPONENT") /\ Advance
       \/ cp \notin Digits \cup {".", "e", "E"} /\ Emit(Number(buffer)) /\ Reject

StateFraction ==
    /\ Offered("FRACTION")
    /\ \/ cp \in Digits /\ Collect(<<cp>>, "FRACTION") /\ Advance
       \/ cp \in {"e", "E"} /\ Collect(<<cp>>, "EXPONENT") /\ Advance
       \/ cp \notin Digits \cup {"e", "E"} /\ Emit(Float(buffer)) /\ Reject

StateExponent ==
    /\ Offered("EXPONENT")
    /\ \/ cp \in {"-", "+"} /\ Collect(<<cp>>, "DIGITS") /\ Advance
       \/ cp \notin {"-", "+"} /\ Collect(<<>>, "DIGITS") /\ Reject

StateDigits ==
    /\ Offered("DIGITS")
    /\ \/ cp \in Digits /\ Collect(<<cp>>, "DIGITS") /\ Advance
       \/ cp \notin Digits /\ Emit(Float(buffer)) /\ Reject

(* There is no way out of the error state.                                 *)
StateError == Offered("ERROR_") /\ Advance /\ UNCHANGED <<token, parser>>

Put ==
    /\ \/ StateStart \/ StateString \/ StateLiteral \/ StateEscape
       \/ StateUnicode \/ StateNumber \/ StateFraction \/ StateExponent
       \/ StateDigits \/ StateError
    /\ UNCHANGED input

Next == ReadByte \/ NewRead \/ Put \/ StringThrows

Spec == Init /\ [][Next]_vars

-----------------------------------------------------------------------------
(* Properties.                                                             *)

(* How many documents stand in front of the first malformed one.           *)
Sound ==
    LET bad == SelectInSeq(docs, LAMBDA d : d.value[1] = "none")
    IN  IF bad = 0 THEN Len(docs) ELSE bad - 1

(* The parser rests between two documents, all of them sound so far.       *)
Between == cp = NoCp /\ pos = 0 /\ doc - 1 <= Sound

(* Every document gives one object, with its last byte, in the order of    *)
(* the documents, however the stream is cut and whatever the state the     *)
(* document before left behind.  The object is the one that was written,   *)
(* but for those the writer or the reader is known to spoil (Survives).    *)
Delivered ==
    /\ Between => Len(out) = doc - 1
    /\ \A i \in 1 .. Sound : i <= Len(out) => (docs[i].kept <=> out[i] = docs[i].value)

(* Between two documents the tokenizer is at its start with an empty       *)
(* buffer, no container is open, no glyph is half read, and stack_ is      *)
(* empty, as cleanup() asserts (json_parser.cpp:294): a document is read   *)
(* the same way wherever it stands.  The one exception: a byte order mark  *)
(* that two calls of read() share leaves one string behind, for good.      *)
CleanBetween ==
    Between =>
        /\ tok = "START" /\ buffer = <<>> /\ state = <<>> /\ chars = <<>>
        /\ Len(stack) = IF cut /\ doc > 1 THEN 1 ELSE 0
=============================================================================

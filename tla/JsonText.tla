------------------------------ MODULE JsonText ------------------------------
(***************************************************************************)
(* How cyng writes JSON (src/io/src/serializer/json.cpp) and how it takes  *)
(* UTF-8 apart (src/io/src/parser/utf-8.cpp).                              *)
(*                                                                         *)
(* A character is named by a string: an ASCII character by itself, or by   *)
(* its abbreviation (LF, BEL), any other by its code point (U+E9).  A text *)
(* is a sequence of bytes; a byte is an ASCII character or two hex digits  *)
(* with the top bit set.  Four characters stand for the lengths UTF-8 has  *)
(* and the leads the code takes for something else, the rest are alike.    *)
(*                                                                         *)
(* An object is a tuple that starts with its type: <<"null">>,             *)
(* <<"bool", b>>, <<"int", n>>, <<"dbl", n>>, <<"str", s>>, <<"vec", seq>>, *)
(* <<"map", set of <<name, object>>>>.  A number n is denoted by the text   *)
(* that is written of it.                                                  *)
(* The parser's stack also holds <<"eod">> and <<"param", name, object>>.  *)
(***************************************************************************)
EXTENDS Naturals, Sequences, SequencesExt

White == {" ", "LF", "CR", "TAB"}
Digits == {"0", "1", "2", "3", "4", "5", "6", "7", "8", "9"}
Structural == {",", ":", "[", "]", "{", "}"}

(* The words of the literals.                                              *)
NullWord == <<"n", "u", "l", "l">>
TrueWord == <<"t", "r", "u", "e">>
FalseWord == <<"f", "a", "l", "s", "e">>

-----------------------------------------------------------------------------
(* UTF-8.                                                                  *)

(* The bytes of the characters that have more than one.  The last one is   *)
(* beyond Unicode; only a writer in error sends it.                        *)
Utf8 ==
    "U+E9" :> <<"C3", "A9">> @@ "U+430" :> <<"D0", "B0">>
        @@ "U+6C34" :> <<"E6", "B0", "B4">> @@ "U+FF3B" :> <<"EF", "BC", "BB">>
        @@ "U+1F34C" :> <<"F0", "9F", "8D", "8C">>
        @@ "U+110000" :> <<"F4", "90", "80", "80">>

(* The byte order mark.                                                    *)
Mark == <<"EF", "BB", "BF">>

HighBytes == UNION {ToSet(bytes) : bytes \in Range(Utf8) \cup {Mark}}

Encode(c) == IF c \in DOMAIN Utf8 THEN Utf8[c] ELSE <<c>>

EncodeAll(s) == FlattenSeq([i \in DOMAIN s |-> Encode(s[i])])

(* utf8_byte_count() looks at four bits: 0xD0 .. 0xDF are taken for bytes  *)
(* that stand alone.                                                       *)
ByteCount(b) ==
    CASE b = "C3" -> 2
      [] b \in {"E6", "EF"} -> 3
      [] b \in {"F0", "F4"} -> 4
      [] OTHER -> 1

(* What the mask leaves of a byte that stands alone.                       *)
Alone == [D0 |-> "P", B0 |-> "0", BB |-> ";", BC |-> "<", BF |-> "?"]

(* The code point of a complete glyph.                                     *)
Glyph(bytes) ==
    IF Len(bytes) = 1 THEN Alone[bytes[1]]
    ELSE CHOOSE c \in DOMAIN Utf8 : Utf8[c] = bytes

(* u8_to_u32_iterator: the code points found in the bytes of a character.  *)
Decoded(c) ==
    LET bytes == Encode(c)
    IN  IF ByteCount(bytes[1]) = Len(bytes) THEN <<c>>
        ELSE [i \in DOMAIN bytes |-> Glyph(<<bytes[i]>>)]

-----------------------------------------------------------------------------
(* Writing.                                                                *)

(* std::hex of what is not printed, padded to four digits.                 *)
HexOf ==
    "SOH" :> <<"0", "0", "0", "1">> @@ "U+E9" :> <<"0", "0", "e", "9">>
        @@ "U+6C34" :> <<"6", "c", "3", "4">> @@ "U+1F34" :> <<"1", "f", "3", "4">>
        @@ "U+1F34C" :> <<"1", "f", "3", "4", "c">>

(* The characters written as a backslash and a letter.                     *)
LetterOf ==
    [BEL |-> "a", BS |-> "b", FF |-> "f", LF |-> "n", CR |-> "r", TAB |-> "t",
     VT |-> "v"] @@ "\\" :> "\\" @@ "'" :> "'" @@ "\"" :> "\""

WriteChar(c) ==
    CASE c \in DOMAIN LetterOf -> <<"\\", LetterOf[c]>>
      [] c \in DOMAIN HexOf -> <<"\\", "u">> \o HexOf[c]
      [] OTHER -> <<c>>

WriteString(s) ==
    LET u32 == FlattenSeq([i \in DOMAIN s |-> Decoded(s[i])])
    IN  <<"\"">> \o FlattenSeq([i \in DOMAIN u32 |-> WriteChar(u32[i])]) \o <<"\"">>

(* A separator in front of every text but the first.                       *)
Joined(texts, sep) ==
    FlattenSeq([i \in DOMAIN texts |-> IF i = 1 THEN texts[i] ELSE sep \o texts[i]])

(* serialize_json().  The names of a map are written as they are.          *)
RECURSIVE ToJson(_)
ToJson(v) ==
    CASE v[1] = "null" -> NullWord
      [] v[1] = "bool" -> IF v[2] THEN TrueWord ELSE FalseWord
      [] v[1] \in {"int", "dbl"} -> v[2]
      [] v[1] = "str" -> WriteString(v[2])
      [] v[1] = "vec" ->
            IF v[2] = <<>> THEN NullWord
            ELSE <<"[">>
                 \o Joined([i \in DOMAIN v[2] |-> ToJson(v[2][i])], <<",", " ">>)
                 \o <<"]">>
      [] v[1] = "map" ->
            LET Member(p) == <<"\"">> \o EncodeAll(p[1]) \o <<"\"", ":">> \o ToJson(p[2])
                ps == SetToSeq(v[2])
            IN  IF ps = <<>> THEN NullWord
                ELSE <<"{">> \o Joined([i \in DOMAIN ps |-> Member(ps[i])], <<",">>)
                     \o <<"}">>

-----------------------------------------------------------------------------
(* What comes back of what was written.                                    *)

(* A name that holds a quote or a backslash, which nobody escapes, ends    *)
(* somewhere else: the text is no JSON.                                    *)
RECURSIVE Framed(_)
Framed(v) ==
    CASE v[1] = "vec" -> \A i \in DOMAIN v[2] : Framed(v[2][i])
      [] v[1] = "map" -> \A p \in v[2] :
            Framed(p[2]) /\ {"\"", "\\"} \cap ToSet(p[1]) = {}
      [] OTHER -> TRUE

(* The values that come back as they were.  Lost are numbers that start    *)
(* with a zero, characters escaped by a letter the reader does not know or *)
(* by more than four digits, characters whose first byte is taken for one  *)
(* that stands alone, and empty containers.                                *)
RECURSIVE Survives(_)
Survives(v) ==
    CASE v[1] \in {"int", "dbl"} -> v[2][1] # "0"
      [] v[1] = "str" -> ToSet(v[2]) \cap {"BEL", "VT", "'", "U+1F34C", "U+430"} = {}
      [] v[1] = "vec" -> v[2] # <<>> /\ \A i \in DOMAIN v[2] : Survives(v[2][i])
      [] v[1] = "map" -> v[2] # {} /\ \A p \in v[2] :
            Survives(p[2]) /\ "U+430" \notin ToSet(p[1])
      [] OTHER -> TRUE
=============================================================================

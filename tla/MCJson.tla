------------------------------- MODULE MCJson -------------------------------
(* Documents for Json: objects that cyng wrote itself, and texts of other  *)
(* writers.                                                                *)
EXTENDS Json

Num(n) == <<"int", n>>
Dbl(n) == <<"dbl", n>>
Str(s) == <<"str", s>>
Vec(s) == <<"vec", s>>
Map(s) == <<"map", s>>
Null == <<"null">>
True == <<"bool", TRUE>>

One == Num(<<"1">>)

Written(v) ==
    [text |-> ToJson(v), value |-> IF Framed(v) THEN v ELSE <<"none">>, kept |-> Survives(v)]

Foreign(text, v) == [text |-> text, value |-> v, kept |-> TRUE]

(* Names and strings of one to four bytes a character, with and without    *)
(* something to escape.  One name holds a quote.                           *)
Names == {<<"k">>, <<"U+E9">>, <<"U+6C34", "k">>, <<"U+1F34C">>, <<"U+430">>, <<"k", "\"">>}

Strings ==
    {<<>>, <<"a">>, <<"\"", "\\">>, <<"LF", "SOH">>, <<"U+E9", "b">>, <<"U+6C34">>,
     <<"'">>, <<"BEL">>, <<"U+430">>, <<"U+1F34C">>}

Numbers ==
    {One, Num(<<"-", "2", "0">>), Num(<<"0">>), Dbl(<<"1", ".", "5", "0">>),
     Dbl(<<"-", "0", ".", "5", "0">>), Dbl(<<"0", ".", "5", "0">>)}

Atoms == {Null, True, <<"bool", FALSE>>, Vec(<<>>)} \cup Numbers \cup {Str(s) : s \in Strings}

Values ==
    {Vec(<<a>>) : a \in Atoms} \cup {Map({<<n, One>>}) : n \in Names}
    \cup {Vec(<<One, Vec(<<Num(<<"2">>), Num(<<"3">>)>>), True>>),
          Map({<<<<"k">>, Dbl(<<"0", ".", "5", "0">>)>>}),
          Map({<<<<"k">>, Map({<<<<"k">>, One>>, <<<<"l">>, Str(<<>>)>>})>>,
               <<<<"l">>, Vec(<<Map({<<<<"k">>, Null>>}), Str(<<"a">>)>>)>>})}

Others ==
    {Foreign(<<"[", " ", "]", "LF">>, Vec(<<>>)),
     Foreign(<<"{", "}">>, Map({})),
     \* [1e2 ,25.0E-1]
     Foreign(<<"[", "1", "e", "2", " ", ",", "2", "5", ".", "0", "E", "-", "1", "]">>,
             Vec(<<Dbl(<<"1", ".", "0", "e", "2">>),
                   Dbl(<<"2", "5", ".", "0", "E", "-", "1">>)>>)),
     \* { "k" : "\/\u00E9" }
     Foreign(<<"{", "LF", "\"", "k", "\"", " ", ":", " ", "\"", "\\", "/",
               "\\", "u", "0", "0", "E", "9", "\"", "TAB", "}">>,
             Map({<<<<"k">>, Str(<<"/", "U+E9">>)>>})),
     Foreign(<<"[">> \o TrueWord \o <<"LF", ",">> \o NullWord \o <<"]">>, Vec(<<True, Null>>)),
     \* Malformed: ["\u0g"], a string and a literal beyond Unicode, a wide
     \* bracket in front of the text.
     Foreign(<<"[", "\"", "\\", "u", "0", "g", "\"", "]">>, <<"none">>),
     Foreign(<<"[", "\"">> \o Encode("U+110000") \o <<"\"", "]">>, <<"none">>),
     Foreign(<<"[">> \o Encode("U+110000") \o <<"]">>, <<"none">>),
     Foreign(Encode("U+FF3B") \o <<"[", "]">>, <<"none">>)}

MCDocuments == {Written(v) : v \in Values} \cup Others
=============================================================================

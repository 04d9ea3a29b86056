-------------------------------- MODULE MCVm --------------------------------
(***************************************************************************)
(* Programs for Vm that cover the instructions, the three forms of the     *)
(* length field, nested containers, and both ways to load.                 *)
(***************************************************************************)
EXTENDS Programs

Text(n) == Str([i \in 1 .. n |-> i % Base])

Pair(t, k, o) == Obj(t, <<k>>, <<o>>)

\* One string of each length at the borders of the length field.
Borders ==
    {<<Invoke(1, <<Text(n), Null>>)>> :
        n \in {0, 1, Mark16 - 1, Mark16, Mark64, Limit2 - 2, Limit2 - 1}}

Nest ==
    Obj("tuple", <<>>,
        <<Text(1),
          Obj("vector", <<>>, <<Num(1), Null>>),
          Obj("param_map", <<>>, <<Pair("param", 3, Null)>>)>>)

Trees ==
    {<<Invoke(1, <<Nest>>)>>,
     <<Nested(2, 3, <<Num(7), Null>>)>>,
     <<Spread(1, Obj("deque", <<>>, <<Num(1), Num(2)>>)), Invoke(7, <<Null>>)>>,
     <<Invoke(2, <<Obj("attr_map", <<>>, <<Pair("attr", 1, Null), Pair("attr", 2, Num(1))>>)>>)>>,
     <<Framed(2, <<Num(1), Num(2)>>)>>,
     <<Effect(2, <<Null>>)>>,
     <<Between(3, 1, <<Null>>, Num(2))>>,
     <<Probe(2)>>}

Forwards ==
    {<<ForwardTo(2, 1, <<Num(1)>>),
       ForwardTo(2, 2, <<Obj("prop_map", <<>>, <<Pair("prop", 1, Null)>>)>>)>>,
     <<ForwardTo(1, 3, <<Obj("prg", <<>>, <<Leaf("buffer", <<1>>), Leaf("buffer", <<2>>)>>)>>)>>}

\* A direct call of an unknown function, with nothing beside it.
Unknown == {<<Effect(7, <<Num(5)>>)>>}

\* Functions 4 .. 6 are the ones the other threads call; 7 and VM 3 are unknown.
MCWorkloads ==
    [conn : Borders \cup Unknown, job : {<<>>}]
        \cup [conn : Trees, job : {<<Nested(4, 5, <<Num(1), Num(2)>>)>>}]
        \cup [conn : Forwards, job : {<<ForwardTo(2, 6, <<Null>>)>>, <<ForwardTo(3, 4, <<Null>>)>>}]
============================================================================

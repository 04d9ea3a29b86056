------------------------------ MODULE Programs ------------------------------
(***************************************************************************)
(* Programs for Vm, as generator.hpp and the users of execute() write      *)
(* them: the instructions of an object, of a call and of a forwarded call, *)
(* and the calls they are meant to make.                                   *)
(***************************************************************************)
EXTENDS Vm

\* The instructions that build an object.
RECURSIVE Linear(_)
Linear(o) ==
    LET name == CHOOSE n \in ToSet(OpNames) :
                    \/ n \in DOMAIN Lists /\ Lists[n] = o.t
                    \/ n \in DOMAIN Pairs /\ Pairs[n] = o.t
                    \/ n \in DOMAIN Maps /\ Maps[n] = o.t
        parts == FoldLeft(LAMBDA acc, x : acc \o Linear(x), <<>>, o.items)
    IN CASE o.t \in ToSet(TypeCodes) -> <<o>>
         [] o.t \in DOMAIN KeyType -> parts \o <<Leaf(KeyType[o.t], o.v), Op(name)>>
         [] OTHER -> parts \o <<Num(Len(o.items)), Op(name)>>

\* What the instructions of an object leave on the stack: the elements of a
\* sequence come out in the opposite order.
RECURSIVE Rebuilt(_)
Rebuilt(o) ==
    LET xs == [i \in DOMAIN o.items |-> Rebuilt(o.items[i])] IN
    CASE o.t \in {"tuple", "vector", "deque", "prg"} -> [o EXCEPT !.items = Reverse(xs)]
      [] o.t \in {"attr_map", "param_map", "prop_map"} -> [o EXCEPT !.items = SetToSeq(ToSet(xs))]
      [] OTHER -> [o EXCEPT !.items = xs]

LinearAll(os) == FoldLeft(LAMBDA acc, o : acc \o Linear(o), <<>>, os)

Arriving(args) == [i \in DOMAIN args |-> Rebuilt(args[i])]

\* generate_invoke(); an unknown function is not called.
Invoke(fn, args) ==
    [code  |-> LinearAll(args) \o <<Num(Len(args)), Str(<<fn>>), Op("INVOKE")>>,
     calls |-> IF fn \in Functions THEN <<Called(Home, "channel", fn, Arriving(args))>>
               ELSE <<>>,
     astray |-> {}]

\* generate_forward()
ForwardTo(vm, fn, args) ==
    [code  |-> LinearAll(args)
                   \o <<Num(Len(args)), Str(<<fn>>), Uuid(vm), Op("FORWARD")>>,
     calls |-> IF vm \in Vms THEN <<Called(vm, "channel", fn, Arriving(args))>> ELSE <<>>,
     astray |-> {}]

\* g(f(args)): a call frame with a direct call, whose result stays on the stack.
Nested(f, g, args) ==
    [code  |-> <<Op("ESBA")>> \o LinearAll(args)
                   \o <<Num(Len(args)), Str(<<f>>), Op("RESOLVE"), Op("INVOKE_R"),
                        Op("PULL"), Num(1), Str(<<g>>), Op("INVOKE")>>,
     calls |-> <<Called(Home, "direct", f, Arriving(args)),
                 Called(Home, "channel", g, <<Result(args)>>)>>,
     astray |-> {}]

\* g(all of the frame), the frame dropped afterwards.
Framed(g, args) ==
    [code  |-> <<Op("ESBA")>> \o LinearAll(args)
                   \o <<Op("FRM"), Str(<<g>>), Op("INVOKE"), Op("REBA")>>,
     calls |-> <<Called(Home, "channel", g, Arriving(args))>>,
     astray |-> {}]

\* f(args) for its effect: a direct call in a frame that is dropped with
\* whatever the call left in it.
Effect(f, args) ==
    [code  |-> <<Op("ESBA")>> \o LinearAll(args)
                   \o <<Num(Len(args)), Str(<<f>>), Op("RESOLVE"), Op("INVOKE_R"), Op("REBA")>>,
     calls |-> IF f \in Functions THEN <<Called(Home, "direct", f, Arriving(args))>> ELSE <<>>,
     astray |-> IF f \in Functions THEN {} ELSE {Rebuilt(args[1])}]

\* f(args), then g(value) with what lay below.
Between(f, g, args, value) ==
    [code  |-> <<value>> \o LinearAll(args)
                   \o <<Num(Len(args)), Str(<<f>>), Op("RESOLVE"), Op("INVOKE_R"),
                        Num(1), Str(<<g>>), Op("INVOKE")>>,
     calls |-> <<Called(Home, "direct", f, Arriving(args)),
                 Called(Home, "channel", g, <<value>>)>>,
     astray |-> {}]

\* g(the elements of a container)
Spread(g, c) ==
    [code  |-> Linear(c) \o <<Op("SPLIT"), Str(<<g>>), Op("INVOKE")>>,
     calls |-> <<Called(Home, "channel", g, Rebuilt(c).items)>>,
     astray |-> {}]

\* g(time, tag), past the instructions that leave no trace.
Probe(g) ==
    [code  |-> <<Op("TIDY"), Op("NOW"), Num(0), Op("ASSERT_TYPE"), Op("IDENT"),
                 Num(2), Str(<<g>>), Op("INVOKE")>>,
     calls |-> <<Called(Home, "channel", g, <<Leaf("system", <<>>), Uuid(Home)>>)>>,
     astray |-> {}]

\* README.md:16 promises "efficient binary serialization": an object that was
\* serialized, parsed and built again should be the same object.  Does not hold
\* for tuples, vectors, deques and programs, which come out reversed.
ContainersKeepOrder ==
    \A i \in DOMAIN log : \A j \in DOMAIN CallsOf(programs.conn) :
        LET c == CallsOf(programs.conn)[j] IN
        log[i].fn = c.fn => log[i].args = Arriving(c.args)
============================================================================

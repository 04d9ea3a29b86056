------------------------------- MODULE Stack -------------------------------
(***************************************************************************)
(* Objects, the stack of the virtual machine (cyng::stack) and the         *)
(* instructions that work on the stack alone, as operators on a record     *)
(* [s |-> sequence of objects, bp |-> base pointer].                       *)
(*                                                                         *)
(* An object is a leaf with a value v, a pair with a key v and one item,   *)
(* or a container of items.  Every v is a sequence of numbers: the         *)
(* characters of a string, or one number.                                  *)
(***************************************************************************)
EXTENDS Naturals, Sequences, SequencesExt

Obj(t, v, items) == [t |-> t, v |-> v, items |-> items]

Leaf(t, v) == Obj(t, v, <<>>)
Null == Leaf("null", <<>>)
Str(v) == Leaf("string", v)
Num(n) == Leaf("uint64", <<n>>)
Uuid(n) == Leaf("uuid", [i \in 1 .. 16 |-> n])

\* op.h; the position is the code.
OpNames ==
    <<"MAKE_ATTR", "MAKE_PARAM", "MAKE_PROP", "MAKE_ATTR_MAP", "MAKE_PARAM_MAP",
      "MAKE_PROP_MAP", "MAKE_TUPLE", "MAKE_VECTOR", "MAKE_DEQUE", "MAKE_PRG",
      "SPLIT", "ASSERT_TYPE", "ASSERT_VALUE", "ESBA", "REBA", "PULL", "FRM",
      "NOW", "PID", "TID", "TIDY", "NOOP", "HALT",
      "IDENT", "INVOKE", "INVOKE_R", "FORWARD", "RESOLVE">>

Op(name) == Leaf("op", <<CHOOSE i \in DOMAIN OpNames : OpNames[i] = name>>)

\* What each assembling instruction builds.
Lists == [MAKE_TUPLE |-> "tuple", MAKE_VECTOR |-> "vector",
               MAKE_DEQUE |-> "deque", MAKE_PRG |-> "prg"]
Pairs == [MAKE_ATTR |-> "attr", MAKE_PARAM |-> "param", MAKE_PROP |-> "prop"]
Maps == [MAKE_ATTR_MAP |-> "attr_map", MAKE_PARAM_MAP |-> "param_map",
         MAKE_PROP_MAP |-> "prop_map"]

KeyType == [attr |-> "uint64", param |-> "string", prop |-> "obis"]

----------------------------------------------------------------------------
Push(st, o) == [st EXCEPT !.s = Append(@, o)]
Top(st) == Last(st.s)
Pop(st) == [st EXCEPT !.s = Front(@)]

\* The n objects on top, the topmost first, and the stack without them.
TopMost(st, n) == [i \in 1 .. n |-> st.s[Len(st.s) + 1 - i]]
Drop(st, n) == [st EXCEPT !.s = SubSeq(@, 1, Len(@) - n)]

\* Pop the element count, then the elements: the last one comes first.
Collect(st) ==
    LET n == Top(st).v[1] IN <<TopMost(Pop(st), n), Drop(Pop(st), n)>>

MakeSequence(st, t) == Push(Collect(st)[2], Obj(t, <<>>, Collect(st)[1]))

\* A map is ordered by its keys, so the order of insertion does not show.
MakeMap(st, t) ==
    Push(Collect(st)[2], Obj(t, <<>>, SetToSeq(ToSet(Collect(st)[1]))))

\* Key on top, value below.
MakePair(st, t) == Push(Drop(st, 2), Obj(t, Top(st).v, <<Top(Pop(st))>>))

\* disassemble(): elements first to last, then their number.
Split(st) ==
    LET c == Top(st) IN
    Push([Pop(st) EXCEPT !.s = @ \o c.items], Num(Len(c.items)))

\* Establish a base address: the old one is pushed where the new one points.
Esba(st) == [Push(st, Num(st.bp)) EXCEPT !.bp = Len(st.s)]

SavedBp(st) == st.s[st.bp + 1].v[1]

\* Restore it and drop the frame.
Reba(st) == [s |-> SubSeq(st.s, 1, st.bp), bp |-> SavedBp(st)]

\* Restore it and keep what is above it.
Pull(st) == [s |-> RemoveAt(st.s, st.bp + 1), bp |-> SavedBp(st)]

\* The size of the frame.
Frm(st) == Push(st, Num(Len(st.s) - st.bp - 1))

\* Instructions that need nothing but the stack.  The release build only pops
\* the operand of the two assertions; TIDY, NOOP and HALT do nothing.
ExecStack(st, name) ==
    CASE name \in DOMAIN Lists -> MakeSequence(st, Lists[name])
      [] name \in DOMAIN Pairs -> MakePair(st, Pairs[name])
      [] name \in DOMAIN Maps -> MakeMap(st, Maps[name])
      [] name = "SPLIT" -> Split(st)
      [] name \in {"ASSERT_TYPE", "ASSERT_VALUE"} -> Pop(st)
      [] name = "ESBA" -> Esba(st)
      [] name = "REBA" -> Reba(st)
      [] name = "PULL" -> Pull(st)
      [] name = "FRM" -> Frm(st)
      [] name \in {"NOW", "PID", "TID"} -> Push(st, Leaf("system", <<>>))
      [] OTHER -> st

\* Mutant: the arguments are left in the order of the tuple.
ArgumentsReversed(st) == TopMost(Pop(st), Top(st).v[1])

\* stack::invoke() below the function name: make_tuple() reverses the
\* arguments, and they are reversed once more.
Arguments(st) == Reverse(TopMost(Pop(st), Top(st).v[1]))
============================================================================

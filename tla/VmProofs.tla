------------------------------ MODULE VmProofs ------------------------------
(***************************************************************************)
(* Proofs about the binary format and the connection that reads it: what   *)
(* the serializers write is what the parser hands out, for any number of   *)
(* values of a byte and any objects, and whatever the rest of the VM does. *)
(*                                                                         *)
(* The recursive functions of Wire are met in two ways: a function exists  *)
(* that satisfies the recursion (Recursion), and it agrees with any other  *)
(* function that does (Agree).                                             *)
(***************************************************************************)
EXTENDS Vm, TLAPS, SequenceTheorems, WellFoundedInduction

----------------------------------------------------------------------------
(* Induction, with a set in the place of a predicate, and recursion, with a *)
(* function in the place of an operator.                                    *)

LEMMA Smallest ==
    ASSUME NEW T \in SUBSET Nat, T # {}
    PROVE  \E x \in T : \A y \in T : x <= y
<1>. DEFINE R == {p \in Nat \X Nat : p[1] < p[2]}
<1>1. IsWellFoundedOn(R, Nat)
  BY NatLessThanWellFounded, Zenon DEF OpToRel
<1>2. PICK x \in T : \A y \in T : ~(<<y, x>> \in R)
  <2>. HIDE DEF R
  <2>. QED
    BY <1>1, WFMin
<1>3. \A y \in T : ~(y < x)
  BY <1>2
<1>. QED
  BY <1>3

LEMMA Induction ==
    ASSUME NEW G, 0 \in G, \A n \in Nat : n \in G => n + 1 \in G
    PROVE  \A n \in Nat : n \in G
<1>. SUFFICES ASSUME Nat \ G # {} PROVE FALSE
  OBVIOUS
<1>1. PICK x \in Nat \ G : \A y \in Nat \ G : x <= y
  BY Smallest
<1>2. x - 1 \in Nat /\ (x - 1) + 1 = x /\ ~(x <= x - 1)
  BY <1>1
<1>3. x - 1 \in G
  BY <1>1, <1>2
<1>. QED
  BY <1>1, <1>2, <1>3

\* f starts with a and goes on, n times, as g says.
Runs(f, n, S, a, g) ==
    f \in [0 .. n -> S] /\ f[0] = a /\ \A i \in 1 .. n : f[i] = g[i][f[i - 1]]

LEMMA Recursion ==
    ASSUME NEW S, NEW a \in S, NEW g \in [Nat -> [S -> S]]
    PROVE  \A n \in Nat : \E f : Runs(f, n, S, a, g)
<1>. USE DEF Runs
<1>. DEFINE P(n) == \E f : Runs(f, n, S, a, g)
            G == {n \in Nat : P(n)}
<1>1. 0 \in G
  <2>. DEFINE f == [i \in 0 .. 0 |-> a]
  <2>1. f \in [0 .. 0 -> S] /\ f[0] = a /\ \A i \in 1 .. 0 : f[i] = g[i][f[i - 1]]
    OBVIOUS
  <2>. QED
    BY <2>1
<1>2. ASSUME NEW n \in Nat, n \in G PROVE n + 1 \in G
  <2>1. PICK b : b \in [0 .. n -> S] /\ b[0] = a /\ \A i \in 1 .. n : b[i] = g[i][b[i - 1]]
    BY <1>2
  <2>. DEFINE m == n + 1
              f == [i \in 0 .. m |-> IF i = m THEN g[m][b[n]] ELSE b[i]]
  <2>2. /\ \A i \in 0 .. m : i = m \/ i \in 0 .. n
        /\ m # 0 /\ m - 1 = n /\ m \in Nat /\ n # m /\ n \in 0 .. n /\ 0 \in 0 .. m
        /\ \A i \in 1 .. m : i \in 0 .. m /\ i - 1 \in 0 .. n /\ i - 1 \in 0 .. m /\ i - 1 # m
        /\ \A i \in 1 .. m : i = m \/ i \in 1 .. n
    OBVIOUS
  <2>. HIDE DEF m
  <2>3. g[m] \in [S -> S] /\ b[n] \in S
    BY <2>1, <2>2
  <2>4. f \in [0 .. m -> S]
    BY <2>1, <2>2, <2>3
  <2>5. f[0] = a
    BY <2>1, <2>2
  <2>6. ASSUME NEW i \in 1 .. m PROVE f[i] = g[i][f[i - 1]]
    <3>1. f[i - 1] = b[i - 1]
      BY <2>1, <2>2
    <3>2. CASE i = m
      BY <2>2, <3>1, <3>2
    <3>3. CASE i # m
      BY <2>1, <2>2, <3>1, <3>3
    <3>. QED
      BY <3>2, <3>3
  <2>7. P(m)
    BY <2>4, <2>5, <2>6
  <2>. QED
    BY <2>2, <2>7 DEF m
<1>3. \A n \in Nat : n \in G
  <2>. HIDE DEF G
  <2>. QED
    BY <1>1, <1>2, Induction
<1>. QED
  BY <1>3

\* Two functions that start alike and go on alike are alike.
LEMMA Agree ==
    ASSUME NEW n \in Nat, NEW f, NEW c, f[0] = c[0],
           \A i \in 1 .. n : f[i - 1] = c[i - 1] => f[i] = c[i]
    PROVE  \A i \in 0 .. n : f[i] = c[i]
<1>. DEFINE G == {i \in Nat : i <= n => f[i] = c[i]}
<1>1. 0 \in G
  OBVIOUS
<1>2. ASSUME NEW i \in Nat, i \in G PROVE i + 1 \in G
  <2>. DEFINE m == i + 1
  <2>. SUFFICES ASSUME m <= n PROVE f[m] = c[m]
    OBVIOUS
  <2>1. m \in 1 .. n /\ m - 1 = i /\ i <= n
    OBVIOUS
  <2>2. f[m - 1] = c[m - 1]
    BY <1>2, <2>1
  <2>. HIDE DEF m
  <2>. QED
    BY <2>1, <2>2
<1>3. \A i \in Nat : i \in G
  <2>. HIDE DEF G
  <2>. QED
    BY <1>1, <1>2, Induction
<1>. QED
  BY <1>3

----------------------------------------------------------------------------
(* Numbers as bytes. *)

LEMMA DivMod ==
    ASSUME NEW x \in Nat
    PROVE  /\ x \div Base \in Nat /\ x % Base \in Bytes
           /\ (x \div Base) * Base + (x % Base) = x
BY WireAssumption DEF Bytes

LEMMA DivLess ==
    ASSUME NEW x \in Nat, NEW m \in Nat, x < Base * m
    PROVE  x \div Base < m
BY WireAssumption

\* The quotients in Digits(): x shifted by 0 to n bytes.
Shifts(x, n) ==
    CHOOSE f : f = [i \in 0 .. n |-> IF i = 0 THEN x ELSE f[i - 1] \div Base]

LEMMA ShiftsDef ==
    ASSUME NEW x \in Nat, NEW n \in Nat
    PROVE  /\ Shifts(x, n) \in [0 .. n -> Nat]
           /\ Shifts(x, n)[0] = x
           /\ \A i \in 1 .. n : Shifts(x, n)[i] = Shifts(x, n)[i - 1] \div Base
<1>. DEFINE g == [i \in Nat |-> [s \in Nat |-> s \div Base]]
            Q(f) == f = [i \in 0 .. n |-> IF i = 0 THEN x ELSE f[i - 1] \div Base]
<1>1. g \in [Nat -> [Nat -> Nat]]
  BY DivMod
<1>2. PICK f : Runs(f, n, Nat, x, g)
  <2>. HIDE DEF g
  <2>. QED
    BY <1>1, Recursion
<1>3. ASSUME NEW i \in 1 .. n PROVE f[i] = f[i - 1] \div Base
  <2>1. i \in Nat /\ i - 1 \in 0 .. n
    OBVIOUS
  <2>. QED
    BY <1>2, <2>1 DEF Runs
<1>4. Q(f)
  <2>1. \A i \in 0 .. n : i = 0 \/ i \in 1 .. n
    OBVIOUS
  <2>. QED
    BY <1>2, <1>3, <2>1 DEF Runs
<1>5. Q(Shifts(x, n))
  <2>. HIDE DEF Q
  <2>1. Q(CHOOSE h : Q(h))
    BY <1>4
  <2>. QED
    BY <2>1 DEF Q, Shifts
<1>. DEFINE s == Shifts(x, n)
<1>6. /\ \A i \in 0 .. n : s[i] = IF i = 0 THEN x ELSE s[i - 1] \div Base
      /\ s = [i \in 0 .. n |-> s[i]]
  BY <1>5
<1>. HIDE DEF s
<1>7. s[0] = x /\ \A i \in 1 .. n : s[i] = s[i - 1] \div Base
  <2>1. 0 \in 0 .. n /\ \A i \in 1 .. n : i \in 0 .. n /\ i # 0
    OBVIOUS
  <2>. QED
    BY <1>6, <2>1
<1>8. \A i \in 0 .. n : s[i] = f[i]
  <2>1. s[0] = f[0] /\ \A i \in 1 .. n : s[i - 1] = f[i - 1] => s[i] = f[i]
    BY <1>2, <1>3, <1>7 DEF Runs
  <2>. QED
    BY <2>1, Agree
<1>. QED
  BY <1>2, <1>6, <1>7, <1>8 DEF s, Runs

LEMMA DigitsDef ==
    ASSUME NEW x \in Nat, NEW n \in Nat
    PROVE  /\ Digits(x, n) = [i \in 1 .. n |-> Shifts(x, n)[n - i] % Base]
           /\ Digits(x, n) \in Seq(Bytes) /\ Len(Digits(x, n)) = n
<1>. DEFINE s == Shifts(x, n)
            d == [i \in 1 .. n |-> s[n - i] % Base]
<1>1. Digits(x, n) = d
  BY DEF Digits, Shifts
<1>2. s \in [0 .. n -> Nat]
  BY ShiftsDef
<1>. HIDE DEF s
<1>3. \A i \in 1 .. n : s[n - i] % Base \in Bytes
  <2>. SUFFICES ASSUME NEW i \in 1 .. n PROVE s[n - i] % Base \in Bytes
    OBVIOUS
  <2>1. n - i \in 0 .. n
    OBVIOUS
  <2>. QED
    BY <1>2, <2>1, DivMod
<1>4. d \in Seq(Bytes) /\ Len(d) = n
  BY <1>3
<1>. QED
  BY <1>1, <1>4 DEF s

LEMMA DigitsType ==
    ASSUME NEW x \in Nat, NEW n \in Nat
    PROVE  Digits(x, n) \in Seq(Bytes) /\ Len(Digits(x, n)) = n
BY DigitsDef

\* A number that n bytes can hold is read back from them.
LEMMA NumberOfDigits ==
    ASSUME NEW x \in Nat, NEW n \in Nat, Shifts(x, n)[n] = 0
    PROVE  Number(Digits(x, n)) = x
<1>. DEFINE s == Shifts(x, n)
            d == Digits(x, n)
            c == [i \in 0 .. n |-> s[n - i]]
            Q(f) == f = [i \in 0 .. n |-> IF i = 0 THEN 0 ELSE f[i - 1] * Base + d[i]]
            v == CHOOSE f : Q(f)
<1>1. Len(d) = n /\ d = [i \in 1 .. n |-> s[n - i] % Base]
  BY DigitsDef
<1>2. Number(d) = v[n]
  BY <1>1 DEF Number
<1>3. s \in [0 .. n -> Nat] /\ s[0] = x /\ \A i \in 1 .. n : s[i] = s[i - 1] \div Base
  BY ShiftsDef
<1>4. s[n] = 0
  OBVIOUS
<1>. HIDE DEF s, d
<1>5. ASSUME NEW i \in 1 .. n PROVE c[i] = c[i - 1] * Base + d[i]
  <2>. DEFINE k == n - i
  <2>1. k \in 0 .. n /\ k + 1 \in 1 .. n /\ n - (i - 1) = k + 1 /\ (k + 1) - 1 = k
        /\ i \in 0 .. n /\ i - 1 \in 0 .. n
    OBVIOUS
  <2>2. c[i] = s[k] /\ c[i - 1] = s[k + 1]
    BY <2>1
  <2>3. d[i] = s[k] % Base
    BY <1>1
  <2>. HIDE DEF k, c
  <2>4. s[k + 1] = s[k] \div Base /\ s[k] \in Nat
    BY <1>3, <2>1
  <2>5. (s[k] \div Base) * Base + (s[k] % Base) = s[k]
    BY <2>4, DivMod
  <2>. QED
    BY <2>2, <2>3, <2>4, <2>5
<1>6. c[0] = 0 /\ c[n] = x
  <2>1. 0 \in 0 .. n /\ n \in 0 .. n /\ n - 0 = n /\ n - n = 0
    OBVIOUS
  <2>. QED
    BY <1>3, <1>4, <2>1
<1>7. Q(c)
  <2>1. \A i \in 0 .. n : c[i] = IF i = 0 THEN 0 ELSE c[i - 1] * Base + d[i]
    <3>1. \A i \in 0 .. n : i = 0 \/ i \in 1 .. n
      OBVIOUS
    <3>2. \A i \in 1 .. n : i # 0
      OBVIOUS
    <3>. HIDE DEF c
    <3>. QED
      BY <1>5, <1>6, <3>1, <3>2
  <2>. QED
    BY <2>1
<1>8. Q(v)
  <2>. HIDE DEF Q, c
  <2>. QED
    BY <1>7
<1>9. /\ v[0] = 0
      /\ \A i \in 1 .. n : v[i] = v[i - 1] * Base + d[i]
  <2>1. \A i \in 0 .. n : v[i] = IF i = 0 THEN 0 ELSE v[i - 1] * Base + d[i]
    <3>. HIDE DEF v
    <3>. QED
      BY <1>8
  <2>2. 0 \in 0 .. n /\ \A i \in 1 .. n : i \in 0 .. n /\ i # 0
    OBVIOUS
  <2>. HIDE DEF v
  <2>. QED
    BY <2>1, <2>2
<1>. HIDE DEF v, c
<1>10. \A i \in 0 .. n : v[i] = c[i]
  BY <1>5, <1>6, <1>9, Agree
<1>. QED
  BY <1>2, <1>6, <1>10 DEF d

\* One shift less.
LEMMA ShiftLess ==
    ASSUME NEW x \in Nat, NEW n \in Nat, NEW i \in 1 .. n, NEW m \in Nat,
           Shifts(x, n)[i - 1] < Base * m
    PROVE  Shifts(x, n)[i] < m
<1>1. i - 1 \in 0 .. n
  OBVIOUS
<1>2. Shifts(x, n)[i - 1] \in Nat /\ Shifts(x, n)[i] = Shifts(x, n)[i - 1] \div Base
  BY <1>1, ShiftsDef
<1>. QED
  BY <1>2, DivLess

LEMMA Fits2 ==
    ASSUME NEW x \in Nat, x < Limit2
    PROVE  Number(Digits(x, 2)) = x
<1>. DEFINE s == Shifts(x, 2)
<1>1. s[0] = x /\ s \in [0 .. 2 -> Nat]
  BY ShiftsDef
<1>2. s[1] < Base
  <2>1. s[1 - 1] < Base * Base /\ Base \in Nat
    BY <1>1, WireAssumption DEF Limit2
  <2>. HIDE DEF s
  <2>. QED
    BY <2>1, ShiftLess DEF s
<1>3. s[2] < 1
  <2>1. s[2 - 1] < Base * 1
    BY <1>2, WireAssumption
  <2>. QED
    BY <2>1, ShiftLess
<1>4. s[2] = 0
  BY <1>1, <1>3
<1>. QED
  BY <1>4, NumberOfDigits

LEMMA Fits8 ==
    ASSUME NEW x \in Nat, x < Limit8
    PROVE  Number(Digits(x, 8)) = x
<1>. DEFINE s == Shifts(x, 8)
            M2 == Base * Base
            M3 == Base * M2
            M4 == Base * M3
            M5 == Base * M4
            M6 == Base * M5
            M7 == Base * M6
            M8 == Base * M7
<1>1. s[0] = x /\ s \in [0 .. 8 -> Nat]
  BY ShiftsDef
<1>2. Limit8 = M8
  BY WireAssumption DEF Limit8, Limit2
<1>3. Base \in Nat /\ M2 \in Nat /\ M3 \in Nat /\ M4 \in Nat /\ M5 \in Nat /\ M6 \in Nat /\ M7 \in Nat
  BY WireAssumption
<1>. HIDE DEF s
<1>4. s[1] < M7
  <2>1. s[1 - 1] < Base * M7
    BY <1>1, <1>2
  <2>. HIDE DEF M7
  <2>. QED
    BY <1>3, <2>1, ShiftLess DEF s
<1>5. s[2] < M6
  <2>1. s[2 - 1] < Base * M6
    BY <1>4
  <2>. HIDE DEF M6
  <2>. QED
    BY <1>3, <2>1, ShiftLess DEF s
<1>6. s[3] < M5
  <2>1. s[3 - 1] < Base * M5
    BY <1>5
  <2>. HIDE DEF M5
  <2>. QED
    BY <1>3, <2>1, ShiftLess DEF s
<1>7. s[4] < M4
  <2>1. s[4 - 1] < Base * M4
    BY <1>6
  <2>. HIDE DEF M4
  <2>. QED
    BY <1>3, <2>1, ShiftLess DEF s
<1>8. s[5] < M3
  <2>1. s[5 - 1] < Base * M3
    BY <1>7
  <2>. HIDE DEF M3
  <2>. QED
    BY <1>3, <2>1, ShiftLess DEF s
<1>9. s[6] < M2
  <2>1. s[6 - 1] < Base * M2
    BY <1>8
  <2>. HIDE DEF M2
  <2>. QED
    BY <1>3, <2>1, ShiftLess DEF s
<1>10. s[7] < Base
  <2>1. s[7 - 1] < Base * Base
    BY <1>9
  <2>. QED
    BY <1>3, <2>1, ShiftLess DEF s
<1>11. s[8] < 1
  <2>1. s[8 - 1] < Base * 1
    BY <1>3, <1>10
  <2>. QED
    BY <1>3, <2>1, ShiftLess DEF s
<1>12. s[8] = 0
  BY <1>1, <1>11
<1>. QED
  BY <1>12, NumberOfDigits DEF s

----------------------------------------------------------------------------
(* What the serializer writes. *)

\* An object the serializers can write, as the workloads have it.
Writable(o) == o \in Instructions /\ Len(o.v) < Limit8

LEMMA Limits ==
    /\ Base \in Nat /\ Base >= 6
    /\ Limit2 \in Nat /\ Limit8 \in Nat /\ 8 < Limit2 /\ 8 < Limit8
    /\ Mark16 \in Bytes /\ Mark64 \in Bytes /\ Mark16 # Mark64 /\ Mark16 < Mark64
<1>1. Base \in Nat /\ Base >= 6
  BY WireAssumption
<1>2. Limit2 \in Nat /\ Limit2 >= 36
  BY <1>1 DEF Limit2
<1>3. Limit2 * Limit2 \in Nat /\ Limit2 * Limit2 >= 36
  BY <1>2
<1>4. Limit8 \in Nat /\ Limit8 >= 36
  <2>1. Limit2 * Limit2 * Limit2 \in Nat /\ Limit2 * Limit2 * Limit2 >= 36
    BY <1>2, <1>3
  <2>. QED
    BY <1>2, <2>1 DEF Limit8
<1>5. Mark16 \in Bytes /\ Mark64 \in Bytes /\ Mark16 < Mark64
  BY <1>1 DEF Mark16, Mark64, Bytes
<1>. QED
  BY <1>1, <1>2, <1>4, <1>5 DEF Bytes

LEMMA TypeCodeDef ==
    ASSUME NEW t \in ToSet(TypeCodes)
    PROVE  TypeCode(t) \in 1 .. 8 /\ TypeCode(t) \in DOMAIN TypeCodes /\ TypeCodes[TypeCode(t)] = t
<1>1. DOMAIN TypeCodes = 1 .. 8
  BY DEF TypeCodes
<1>2. \E i \in DOMAIN TypeCodes : TypeCodes[i] = t
  BY DEF ToSet
<1>. QED
  BY <1>1, <1>2 DEF TypeCode

LEMMA TypesOf ==
    ASSUME NEW o \in Instructions
    PROVE  /\ o.t \in ToSet(TypeCodes)
           /\ o = Leaf(o.t, o.v)
           /\ o.t = "uint64" => o.v = <<o.v[1]>> /\ o.v[1] \in 0 .. Limit8 - 1
           /\ o.t = "op" => o.v = <<o.v[1]>> /\ o.v[1] \in 0 .. Limit2 - 1
           /\ o.t \notin {"uint64", "op"} => o.v \in Seq(Bytes)
<1>1. {"uint64", "op"} \subseteq ToSet(TypeCodes)
  <2>1. TypeCodes[3] = "uint64" /\ TypeCodes[4] = "op" /\ 3 \in DOMAIN TypeCodes /\ 4 \in DOMAIN TypeCodes
    BY DEF TypeCodes
  <2>. QED
    BY <2>1 DEF ToSet
<1>2. CASE o \in [t : {"uint64"}, v : [1 .. 1 -> 0 .. Limit8 - 1], items : {<<>>}]
  <2>1. o.t = "uint64" /\ o.v \in [1 .. 1 -> 0 .. Limit8 - 1] /\ o = [t |-> o.t, v |-> o.v, items |-> <<>>]
    BY <1>2
  <2>2. o.v = <<o.v[1]>>
    BY <2>1
  <2>. QED
    BY <1>1, <2>1, <2>2 DEF Leaf, Obj
<1>3. CASE o \in [t : {"op"}, v : [1 .. 1 -> 0 .. Limit2 - 1], items : {<<>>}]
  <2>1. o.t = "op" /\ o.v \in [1 .. 1 -> 0 .. Limit2 - 1] /\ o = [t |-> o.t, v |-> o.v, items |-> <<>>]
    BY <1>3
  <2>2. o.v = <<o.v[1]>>
    BY <2>1
  <2>. QED
    BY <1>1, <2>1, <2>2 DEF Leaf, Obj
<1>4. CASE o \in [t : ToSet(TypeCodes) \ {"uint64", "op"}, v : Seq(Bytes), items : {<<>>}]
  BY <1>4 DEF Leaf, Obj
<1>. QED
  BY <1>2, <1>3, <1>4 DEF Instructions

LEMMA PayloadType ==
    ASSUME NEW o, Writable(o)
    PROVE  /\ Payload(o) \in Seq(Bytes) /\ Len(Payload(o)) \in Nat /\ Len(Payload(o)) < Limit8
           /\ Deserialize(TypeCode(o.t), Payload(o)) = o
<1>1. /\ o \in Instructions /\ Len(o.v) < Limit8
      /\ TypeCode(o.t) \in DOMAIN TypeCodes /\ TypeCodes[TypeCode(o.t)] = o.t
      /\ o = Leaf(o.t, o.v)
  BY TypeCodeDef, TypesOf DEF Writable
<1>2. CASE o.t = "uint64"
  <2>1. o.v = <<o.v[1]>> /\ o.v[1] \in Nat /\ o.v[1] < Limit8
    BY <1>1, <1>2, TypesOf, Limits
  <2>2. Payload(o) = Digits(o.v[1], 8)
    BY <1>2 DEF Payload
  <2>3. Payload(o) \in Seq(Bytes) /\ Len(Payload(o)) = 8 /\ Number(Payload(o)) = o.v[1]
    <3>. DEFINE x == o.v[1]
    <3>1. x \in Nat /\ x < Limit8
      BY <2>1
    <3>. HIDE DEF x
    <3>2. Digits(x, 8) \in Seq(Bytes) /\ Len(Digits(x, 8)) = 8
      BY <3>1, DigitsType
    <3>3. Number(Digits(x, 8)) = x
      BY <3>1, Fits8
    <3>. QED
      BY <2>2, <3>2, <3>3 DEF x
  <2>. QED
    BY <1>1, <1>2, <2>1, <2>3, Limits DEF Deserialize
<1>3. CASE o.t = "op"
  <2>1. o.v = <<o.v[1]>> /\ o.v[1] \in Nat /\ o.v[1] < Limit2
    BY <1>1, <1>3, TypesOf, Limits
  <2>2. Payload(o) = Digits(o.v[1], 2)
    BY <1>3 DEF Payload
  <2>3. Payload(o) \in Seq(Bytes) /\ Len(Payload(o)) = 2 /\ Number(Payload(o)) = o.v[1]
    <3>. DEFINE x == o.v[1]
    <3>1. x \in Nat /\ x < Limit2
      BY <2>1
    <3>. HIDE DEF x
    <3>2. Digits(x, 2) \in Seq(Bytes) /\ Len(Digits(x, 2)) = 2
      BY <3>1, DigitsType
    <3>3. Number(Digits(x, 2)) = x
      BY <3>1, Fits2
    <3>. QED
      BY <2>2, <3>2, <3>3 DEF x
  <2>. QED
    BY <1>1, <1>3, <2>1, <2>3, Limits DEF Deserialize
<1>4. CASE o.t \notin {"uint64", "op"}
  <2>1. Payload(o) = o.v /\ o.v \in Seq(Bytes)
    BY <1>1, <1>4, TypesOf DEF Payload
  <2>. QED
    BY <1>1, <1>4, <2>1 DEF Deserialize
<1>. QED
  BY <1>2, <1>3, <1>4

LEMMA Prefixed ==
    ASSUME NEW E, NEW b \in E, NEW d \in Seq(E)
    PROVE  /\ <<b>> \o d \in Seq(E)
           /\ Len(<<b>> \o d) = 1 + Len(d)
           /\ (<<b>> \o d)[1] = b
           /\ Tail(<<b>> \o d) = d
OBVIOUS

\* The first byte of the length field tells its size, and the field the length.
LEMMA LengthField ==
    ASSUME NEW n \in Nat, n < Limit8
    PROVE  /\ SerializeLength(n) \in Seq(Bytes)
           /\ Len(SerializeLength(n)) \in 1 .. 9
           /\ Len(SerializeLength(n)) = SizeOfLengthField(SerializeLength(n)[1])
           /\ SetLength(SerializeLength(n)) = n
<1>. DEFINE lf == SerializeLength(n)
<1>1. CASE n < Mark16
  <2>1. lf = <<n>> /\ n \in Bytes /\ n # Mark16 /\ n # Mark64
    BY <1>1, Limits DEF SerializeLength, Bytes
  <2>. QED
    BY <2>1 DEF SizeOfLengthField, SetLength
<1>2. CASE ~(n < Mark16) /\ n < Limit2 - 1
  <2>. DEFINE d == Digits(n, 2)
  <2>1. lf = <<Mark16>> \o d
    BY <1>2 DEF SerializeLength
  <2>2. d \in Seq(Bytes) /\ Len(d) = 2
    BY DigitsType
  <2>3. Number(d) = n
    <3>1. n < Limit2
      BY <1>2, Limits
    <3>. QED
      BY <3>1, Fits2
  <2>. HIDE DEF d, lf
  <2>4. lf \in Seq(Bytes) /\ Len(lf) = 1 + Len(d) /\ lf[1] = Mark16 /\ Tail(lf) = d
    <3>1. Mark16 \in Bytes
      BY Limits
    <3>. QED
      BY <2>1, <2>2, <3>1, Prefixed, ZenonT(60)
  <2>5. Len(lf) = 3 /\ Len(lf) # 1 /\ Len(lf) \in 1 .. 9
    BY <2>2, <2>4
  <2>6. SizeOfLengthField(lf[1]) = 3
    BY <2>4, Limits DEF SizeOfLengthField
  <2>7. SetLength(lf) = n
    BY <2>3, <2>4, <2>5, Zenon DEF SetLength
  <2>. QED
    BY <2>4, <2>5, <2>6, <2>7, Zenon DEF lf
<1>3. CASE ~(n < Mark16) /\ ~(n < Limit2 - 1)
  <2>. DEFINE d == Digits(n, 8)
  <2>1. lf = <<Mark64>> \o d
    BY <1>3 DEF SerializeLength
  <2>2. d \in Seq(Bytes) /\ Len(d) = 8
    BY DigitsType
  <2>3. Number(d) = n
    BY Fits8
  <2>. HIDE DEF d, lf
  <2>4. lf \in Seq(Bytes) /\ Len(lf) = 1 + Len(d) /\ lf[1] = Mark64 /\ Tail(lf) = d
    <3>1. Mark64 \in Bytes
      BY Limits
    <3>. QED
      BY <2>1, <2>2, <3>1, Prefixed, ZenonT(60)
  <2>5. Len(lf) = 9 /\ Len(lf) # 1 /\ Len(lf) \in 1 .. 9
    BY <2>2, <2>4
  <2>6. SizeOfLengthField(lf[1]) = 9
    BY <2>4, Limits DEF SizeOfLengthField
  <2>7. SetLength(lf) = n
    BY <2>3, <2>4, <2>5, Zenon DEF SetLength
  <2>. QED
    BY <2>4, <2>5, <2>6, <2>7, Zenon DEF lf
<1>. QED
  BY <1>1, <1>2, <1>3

LEMMA TypeField ==
    ASSUME NEW o, Writable(o)
    PROVE  /\ Digits(TypeCode(o.t), 2) \in Seq(Bytes)
           /\ Len(Digits(TypeCode(o.t), 2)) = 2
           /\ Number(Digits(TypeCode(o.t), 2)) = TypeCode(o.t)
<1>1. TypeCode(o.t) \in Nat /\ TypeCode(o.t) < Limit2
  BY TypesOf, TypeCodeDef, Limits DEF Writable
<1>. QED
  BY <1>1, DigitsType, Fits2

LEMMA SerializeType ==
    ASSUME NEW o, Writable(o)
    PROVE  Serialize(o) \in Seq(Bytes) /\ Len(Serialize(o)) > 2
<1>1. Payload(o) \in Seq(Bytes) /\ Len(Payload(o)) \in Nat /\ Len(Payload(o)) < Limit8
  BY PayloadType
<1>2. SerializeLength(Len(Payload(o))) \in Seq(Bytes) /\ Len(SerializeLength(Len(Payload(o)))) \in 1 .. 9
  BY <1>1, LengthField
<1>3. Digits(TypeCode(o.t), 2) \in Seq(Bytes) /\ Len(Digits(TypeCode(o.t), 2)) = 2
  BY TypeField
<1>. DEFINE a == Digits(TypeCode(o.t), 2)
            b == SerializeLength(Len(Payload(o)))
            c == Payload(o)
<1>4. Serialize(o) = (a \o b) \o c
  BY DEF Serialize
<1>. HIDE DEF a, b, c
<1>5. a \in Seq(Bytes) /\ b \in Seq(Bytes) /\ c \in Seq(Bytes) /\ Len(a) = 2 /\ Len(b) > 0
  BY <1>1, <1>2, <1>3 DEF a, b, c
<1>6. a \o b \in Seq(Bytes) /\ Len(a \o b) = Len(a) + Len(b)
  BY <1>5, ConcatProperties, Zenon
<1>7. (a \o b) \o c \in Seq(Bytes) /\ Len((a \o b) \o c) = Len(a \o b) + Len(c)
  BY <1>5, <1>6, ConcatProperties, Zenon
<1>8. Len(a \o b) + Len(c) > 2
  <2>1. Len(b) \in Nat /\ Len(c) \in Nat
    BY <1>5
  <2>. QED
    BY <1>5, <1>6, <2>1
<1>. QED
  BY <1>4, <1>7, <1>8

\* The bytes of the last n objects, as SerializeAll() puts them together.
Behind(os) ==
    CHOOSE f : f = [n \in 0 .. Len(os) |->
        IF n = 0 THEN <<>> ELSE Serialize(os[Len(os) + 1 - n]) \o f[n - 1]]

LEMMA BehindDef ==
    ASSUME NEW E, NEW os \in Seq(E), \A i \in 1 .. Len(os) : Writable(os[i])
    PROVE  /\ SerializeAll(os) = Behind(os)[Len(os)]
           /\ Behind(os)[0] = <<>>
           /\ \A n \in 0 .. Len(os) : Behind(os)[n] \in Seq(Bytes)
           /\ \A n \in 1 .. Len(os) :
                Behind(os)[n] = Serialize(os[Len(os) + 1 - n]) \o Behind(os)[n - 1]
<1>. DEFINE m == Len(os)
            w(n) == IF n \in 1 .. m THEN Serialize(os[m + 1 - n]) ELSE <<>>
            g == [n \in Nat |-> [s \in Seq(Bytes) |-> w(n) \o s]]
            Q(f) == f = [n \in 0 .. m |-> IF n = 0 THEN <<>> ELSE Serialize(os[m + 1 - n]) \o f[n - 1]]
<1>0. m \in Nat
  OBVIOUS
<1>1. \A n \in Nat : w(n) \in Seq(Bytes)
  <2>. SUFFICES ASSUME NEW n \in 1 .. m PROVE Serialize(os[m + 1 - n]) \in Seq(Bytes)
    OBVIOUS
  <2>1. m + 1 - n \in 1 .. m
    BY <1>0
  <2>. QED
    BY <2>1, SerializeType
<1>2. g \in [Nat -> [Seq(Bytes) -> Seq(Bytes)]]
  <2>. HIDE DEF w
  <2>. QED
    BY <1>1
<1>3. <<>> \in Seq(Bytes)
  OBVIOUS
<1>4. PICK f : Runs(f, m, Seq(Bytes), <<>>, g)
  <2>. HIDE DEF g, m
  <2>. QED
    BY <1>0, <1>2, <1>3, Recursion
<1>5. ASSUME NEW n \in 1 .. m PROVE f[n] = Serialize(os[m + 1 - n]) \o f[n - 1]
  <2>1. n \in Nat /\ n - 1 \in 0 .. m
    BY <1>0
  <2>2. f[n] = g[n][f[n - 1]] /\ f[n - 1] \in Seq(Bytes)
    <3>. HIDE DEF g, m
    <3>. QED
      BY <1>4, <2>1 DEF Runs
  <2>3. f[n] = w(n) \o f[n - 1]
    <3>. HIDE DEF w, m
    <3>. QED
      BY <2>1, <2>2
  <2>. QED
    BY <2>3
<1>6. f[0] = <<>> /\ f \in [0 .. m -> Seq(Bytes)]
  <2>. HIDE DEF g, m
  <2>. QED
    BY <1>4 DEF Runs
<1>. HIDE DEF g, m
<1>7. Q(f)
  <2>1. \A n \in 0 .. m : n = 0 \/ n \in 1 .. m
    BY <1>0
  <2>2. \A n \in 0 .. m : f[n] = IF n = 0 THEN <<>> ELSE Serialize(os[m + 1 - n]) \o f[n - 1]
    BY <1>5, <1>6, <2>1
  <2>. QED
    BY <1>6, <2>2
<1>8. Q(Behind(os))
  <2>. HIDE DEF Q
  <2>1. Q(CHOOSE h : Q(h))
    BY <1>7
  <2>. QED
    BY <2>1 DEF Q, Behind, m
<1>. DEFINE b == Behind(os)
<1>9. b[0] = <<>> /\ \A n \in 1 .. m : b[n] = Serialize(os[m + 1 - n]) \o b[n - 1]
  <2>1. \A n \in 0 .. m : b[n] = IF n = 0 THEN <<>> ELSE Serialize(os[m + 1 - n]) \o b[n - 1]
    <3>. HIDE DEF b
    <3>. QED
      BY <1>8 DEF b
  <2>2. 0 \in 0 .. m /\ \A n \in 1 .. m : n \in 0 .. m /\ n # 0
    BY <1>0
  <2>. HIDE DEF b
  <2>. QED
    BY <2>1, <2>2
<1>. HIDE DEF b
<1>10. \A n \in 0 .. m : b[n] = f[n]
  <2>1. b[0] = f[0] /\ \A n \in 1 .. m : b[n - 1] = f[n - 1] => b[n] = f[n]
    BY <1>5, <1>6, <1>9
  <2>. QED
    BY <1>0, <2>1, Agree, ZenonT(60)
<1>11. \A n \in 0 .. m : b[n] \in Seq(Bytes)
  BY <1>6, <1>10
<1>12. SerializeAll(os) = b[m]
  BY DEF SerializeAll, Behind, b, m
<1>. QED
  BY <1>9, <1>11, <1>12 DEF b, m

----------------------------------------------------------------------------
(* What the parser reads. *)

\* The bytes of w behind the first a, up to the i-th.
Part(w, a, i) == [j \in 1 .. i - a |-> w[a + j]]

LEMMA PartEmpty == ASSUME NEW w, NEW a \in Nat PROVE Part(w, a, a) = <<>>
BY DEF Part

LEMMA PartGrows ==
    ASSUME NEW w \in Seq(Bytes), NEW a \in Nat, NEW i \in Nat, a < i, i <= Len(w)
    PROVE  /\ Append(Part(w, a, i - 1), w[i]) = Part(w, a, i)
           /\ Part(w, a, i) \in Seq(Bytes)
           /\ Len(Part(w, a, i)) = i - a
           /\ Part(w, a, i)[1] = w[a + 1]
<1>. DEFINE q == Part(w, a, i - 1)
            m == i - a
<1>1. /\ m \in Nat /\ m > 0 /\ i - 1 - a = m - 1 /\ a + m = i /\ 1 \in 1 .. m
      /\ \A j \in 1 .. m : a + j \in 1 .. Len(w)
  OBVIOUS
<1>. HIDE DEF m
<1>2. q = [j \in 1 .. m - 1 |-> w[a + j]]
  BY <1>1 DEF Part
<1>3. q \in Seq(Bytes) /\ Len(q) = m - 1
  <2>1. \A j \in 1 .. m - 1 : w[a + j] \in Bytes
    BY <1>1
  <2>2. m - 1 \in Nat
    BY <1>1
  <2>. QED
    BY <1>2, <2>1, <2>2
<1>4. Part(w, a, i) = [j \in 1 .. m |-> w[a + j]]
  BY DEF Part, m
<1>5. Part(w, a, i) \in Seq(Bytes) /\ Len(Part(w, a, i)) = m
  <2>1. \A j \in 1 .. m : w[a + j] \in Bytes
    BY <1>1
  <2>. QED
    BY <1>1, <1>4, <2>1
<1>6. Append(q, w[i]) = [j \in 1 .. m |-> w[a + j]]
  <2>1. w[i] = w[a + m]
    BY <1>1
  <2>. DEFINE r == Append(q, w[i])
  <2>2. DOMAIN r = 1 .. m
    BY <1>1, <1>3
  <2>3. ASSUME NEW j \in 1 .. m PROVE r[j] = w[a + j]
    <3>1. CASE j = m
      BY <1>1, <1>3, <2>1, <3>1
    <3>2. CASE j # m
      <4>1. j \in 1 .. m - 1
        BY <1>1, <3>2
      <4>2. r[j] = q[j]
        BY <1>3, <4>1
      <4>. QED
        BY <1>2, <4>1, <4>2
    <3>. QED
      BY <3>1, <3>2
  <2>4. r = [j \in 1 .. Len(q) + 1 |-> IF j <= Len(q) THEN q[j] ELSE w[i]]
    BY <1>3
  <2>5. r = [j \in 1 .. m |-> r[j]]
    <3>1. Len(q) + 1 = m
      BY <1>1, <1>3
    <3>2. r = [j \in DOMAIN r |-> r[j]]
      <4>. HIDE DEF r
      <4>. QED
        BY <2>4
    <3>. HIDE DEF r
    <3>. QED
      BY <2>2, <3>2
  <2>. HIDE DEF r
  <2>6. [j \in 1 .. m |-> r[j]] = [j \in 1 .. m |-> w[a + j]]
    BY <2>3
  <2>7. r = [j \in 1 .. m |-> w[a + j]]
    BY <2>5, <2>6
  <2>. QED
    BY <2>7 DEF r
<1>. QED
  BY <1>1, <1>4, <1>5, <1>6 DEF m

LEMMA PutType ==
    ASSUME NEW buf, NEW T, NEW l, NEW b
    PROVE  Put(Members("TYPE", buf, T, l), b)
            = IF Len(Append(buf, b)) = 2
              THEN <<Members("LENGTH", <<>>, Number(Append(buf, b)), 0), <<>>>>
              ELSE <<Members("TYPE", Append(buf, b), T, l), <<>>>>
<1>. DEFINE p == Members("TYPE", buf, T, l)
<1>1. p.state = "TYPE" /\ p.type = T /\ p.length = l /\ p.buffer = buf
  BY DEF Members
<1>. HIDE DEF p
<1>2. Put(p, b) = IF Len(Append(buf, b)) = 2
                  THEN <<Members("LENGTH", <<>>, Number(Append(buf, b)), 0), <<>>>>
                  ELSE <<Members("TYPE", Append(buf, b), T, l), <<>>>>
  BY <1>1 DEF Put
<1>. QED
  BY <1>2 DEF p

LEMMA PutLength ==
    ASSUME NEW buf, NEW T, NEW l, NEW b, NEW more, Append(buf, b) = more
    PROVE  /\ Len(more) # SizeOfLengthField(more[1])
              => Put(Members("LENGTH", buf, T, l), b) = <<Members("LENGTH", more, T, l), <<>>>>
           /\ Len(more) = SizeOfLengthField(more[1]) /\ SetLength(more) = 0
              => Put(Members("LENGTH", buf, T, l), b)
                 = <<Members("TYPE", <<>>, T, l), <<Deserialize(T, <<>>)>>>>
           /\ Len(more) = SizeOfLengthField(more[1]) /\ SetLength(more) # 0
              => Put(Members("LENGTH", buf, T, l), b)
                 = <<Members("VALUE", <<>>, T, SetLength(more)), <<>>>>
<1>. DEFINE p == Members("LENGTH", buf, T, l)
<1>1. p.state = "LENGTH" /\ p.type = T /\ p.length = l /\ Append(p.buffer, b) = more
  BY DEF Members
<1>. HIDE DEF p
<1>2. CASE Len(more) # SizeOfLengthField(more[1])
  <2>1. Put(p, b) = <<Members("LENGTH", more, T, l), <<>>>>
    BY <1>1, <1>2 DEF Put
  <2>. QED
    BY <1>2, <2>1 DEF p
<1>3. CASE Len(more) = SizeOfLengthField(more[1]) /\ SetLength(more) = 0
  <2>1. Put(p, b) = <<Members("TYPE", <<>>, T, l), <<Deserialize(T, <<>>)>>>>
    BY <1>1, <1>3 DEF Put
  <2>. QED
    BY <1>3, <2>1 DEF p
<1>4. CASE Len(more) = SizeOfLengthField(more[1]) /\ SetLength(more) # 0
  <2>1. Put(p, b) = <<Members("VALUE", <<>>, T, SetLength(more)), <<>>>>
    BY <1>1, <1>4 DEF Put
  <2>. QED
    BY <1>4, <2>1 DEF p
<1>. QED
  BY <1>2, <1>3, <1>4

LEMMA PutValue ==
    ASSUME NEW buf, NEW T, NEW l, NEW b
    PROVE  Put(Members("VALUE", buf, T, l), b)
            = IF l = 1 THEN <<Members("TYPE", <<>>, T, 0), <<Deserialize(T, Append(buf, b))>>>>
              ELSE <<Members("VALUE", Append(buf, b), T, l - 1), <<>>>>
<1>. DEFINE p == Members("VALUE", buf, T, l)
<1>1. p.state = "VALUE" /\ p.type = T /\ p.length = l /\ p.buffer = buf
  BY DEF Members
<1>. HIDE DEF p
<1>2. Put(p, b) = IF l = 1
                  THEN <<Members("TYPE", <<>>, T, 0), <<Deserialize(T, Append(buf, b))>>>>
                  ELSE <<Members("VALUE", Append(buf, b), T, l - 1), <<>>>>
  BY <1>1 DEF Put
<1>. QED
  BY <1>2 DEF p

\* What read() has at a byte: the parser, what it handed out, the bytes used.
Reading(q, out, u) == [parser |-> q, out |-> out, used |-> u]

LEMMA FeedPut ==
    ASSUME NEW q, NEW u, NEW b, NEW q2, NEW out, Put(q, b) = <<q2, out>>
    PROVE  Feed(Reading(q, <<>>, u), b) = Reading(q2, out, u + 1)
BY DEF Feed, Reading

\* A parser between two objects; the type and the length of the last one stay.
Resting(p) == \E T \in Nat, l \in Nat : p = Members("TYPE", <<>>, T, l)

\* w is one object o: 2 bytes of type code T, the length field up to the h-th
\* byte, and n bytes of value.
Frame(w, T, h, n, o) ==
    /\ w \in Seq(Bytes) /\ h \in Nat /\ h > 2 /\ n \in Nat /\ Len(w) = h + n
    /\ T \in Nat /\ Number(Part(w, 0, 2)) = T
    /\ SizeOfLengthField(w[3]) = h - 2
    /\ SetLength(Part(w, 2, h)) = n
    /\ Deserialize(T, Part(w, h, h + n)) = o

\* What a parser whose last type and length are S and l has after i bytes of w.
After(S, l, w, T, h, n, o, i) ==
    IF i < 2 THEN Reading(Members("TYPE", Part(w, 0, i), S, l), <<>>, i)
    ELSE IF i < h THEN Reading(Members("LENGTH", Part(w, 2, i), T, 0), <<>>, i)
    ELSE IF i < h + n
    THEN Reading(Members("VALUE", Part(w, h, i), T, n - (i - h)), <<>>, i)
    ELSE Reading(Members("TYPE", <<>>, T, 0), <<o>>, h + n)

LEMMA FrameStep ==
    ASSUME NEW S, NEW l, NEW w, NEW T, NEW h, NEW n, NEW o, Frame(w, T, h, n, o),
           NEW i \in Nat, i > 0, NEW b, i <= h + n => b = w[i]
    PROVE  Feed(After(S, l, w, T, h, n, o, i - 1), b) = After(S, l, w, T, h, n, o, i)
<1>. DEFINE A(j) == After(S, l, w, T, h, n, o, j)
<1>0. h \in Nat /\ n \in Nat /\ h > 2 /\ w \in Seq(Bytes) /\ Len(w) = h + n
  BY DEF Frame
<1>1. CASE i < 2
  <2>1. i = 1 /\ b = w[i] /\ i <= Len(w) /\ 0 < i /\ i - 1 + 1 = i /\ i - 1 = 0 /\ i - 1 < 2
    BY <1>0, <1>1
  <2>. DEFINE old == Part(w, 0, i - 1)
              buf == Part(w, 0, i)
  <2>2. Append(old, b) = buf /\ Len(buf) = i - 0
    <3>. DEFINE z == 0
    <3>1. z \in Nat /\ z < i
      BY <2>1
    <3>. HIDE DEF z
    <3>2. Append(Part(w, z, i - 1), w[i]) = Part(w, z, i) /\ Len(Part(w, z, i)) = i - z
      BY <1>0, <2>1, <3>1, PartGrows
    <3>. QED
      BY <2>1, <3>2, Zenon DEF z
  <2>3. A(i - 1) = Reading(Members("TYPE", old, S, l), <<>>, i - 1)
        /\ A(i) = Reading(Members("TYPE", buf, S, l), <<>>, i)
    BY <1>1, <2>1 DEF After
  <2>. HIDE DEF A, old, buf
  <2>4. Len(buf) # 2
    BY <2>1, <2>2
  <2>5. Put(Members("TYPE", old, S, l), b) = <<Members("TYPE", buf, S, l), <<>>>>
    BY <2>2, <2>4, PutType, Zenon
  <2>6. Feed(A(i - 1), b) = A(i)
    BY <2>1, <2>3, <2>5, FeedPut
  <2>. QED
    BY <2>6 DEF A
<1>2. CASE i = 2
  <2>1. b = w[i] /\ i <= Len(w) /\ 0 < i /\ i - 1 + 1 = i /\ i - 1 < 2 /\ ~(i < 2) /\ i < h /\ i - 0 = 2
    BY <1>0, <1>2
  <2>. DEFINE old == Part(w, 0, i - 1)
              buf == Part(w, 0, i)
  <2>2. Append(old, b) = buf /\ Len(buf) = i - 0
    <3>. DEFINE z == 0
    <3>1. z \in Nat /\ z < i
      BY <2>1
    <3>. HIDE DEF z
    <3>2. Append(Part(w, z, i - 1), w[i]) = Part(w, z, i) /\ Len(Part(w, z, i)) = i - z
      BY <1>0, <2>1, <3>1, PartGrows
    <3>. QED
      BY <2>1, <3>2, Zenon DEF z
  <2>3. Part(w, 2, i) = <<>>
    BY <1>2, PartEmpty
  <2>4. A(i - 1) = Reading(Members("TYPE", old, S, l), <<>>, i - 1)
        /\ A(i) = Reading(Members("LENGTH", Part(w, 2, i), T, 0), <<>>, i)
    BY <1>2, <2>1 DEF After
  <2>5. Number(buf) = T
    BY <1>2 DEF Frame
  <2>. HIDE DEF A, old, buf
  <2>6. Put(Members("TYPE", old, S, l), b) = <<Members("LENGTH", <<>>, T, 0), <<>>>>
    BY <2>1, <2>2, <2>5, PutType, ZenonT(60)
  <2>7. Feed(A(i - 1), b) = A(i)
    BY <2>1, <2>3, <2>4, <2>6, FeedPut
  <2>. QED
    BY <2>7 DEF A
<1>3. CASE 2 < i /\ i <= h
  <2>. DEFINE old == Part(w, 2, i - 1)
              buf == Part(w, 2, i)
  <2>1. i <= Len(w) /\ i <= h + n /\ i - 1 + 1 = i /\ ~(i - 1 < 2) /\ i - 1 < h /\ ~(i < 2)
    BY <1>0, <1>3
  <2>2. Append(old, b) = buf /\ Len(buf) = i - 2 /\ buf[1] = w[3]
    <3>1. b = w[i] /\ 2 + 1 = 3
      BY <2>1
    <3>2. Append(old, w[i]) = buf /\ Len(buf) = i - 2 /\ buf[1] = w[2 + 1]
      BY <1>0, <1>3, <2>1, PartGrows
    <3>. QED
      BY <3>1, <3>2
  <2>3. SizeOfLengthField(buf[1]) = h - 2
    BY <2>2 DEF Frame
  <2>4. A(i - 1) = Reading(Members("LENGTH", old, T, 0), <<>>, i - 1)
    BY <2>1 DEF After
  <2>5. CASE i # h
    <3>1. Len(buf) # SizeOfLengthField(buf[1]) /\ i < h
      BY <1>0, <1>3, <2>2, <2>3, <2>5
    <3>2. A(i) = Reading(Members("LENGTH", buf, T, 0), <<>>, i)
      BY <2>1, <3>1 DEF After
    <3>. HIDE DEF A, old, buf
    <3>3. Put(Members("LENGTH", old, T, 0), b) = <<Members("LENGTH", buf, T, 0), <<>>>>
      BY <2>2, <3>1, PutLength, SMTT(40)
    <3>4. Feed(A(i - 1), b) = A(i)
      BY <2>1, <2>4, <3>2, <3>3, FeedPut
    <3>. QED
      BY <3>4 DEF A
  <2>6. CASE i = h
    <3>1. Len(buf) = SizeOfLengthField(buf[1]) /\ SetLength(buf) = n
      BY <1>0, <2>2, <2>3, <2>6 DEF Frame
    <3>2. CASE n = 0
      <4>1. ~(i < h) /\ ~(i < h + n) /\ h + n = i
        BY <1>0, <2>6, <3>2
      <4>2. Deserialize(T, <<>>) = o
        <5>1. h + n = h /\ Part(w, h, h) = <<>>
          BY <1>0, <3>2, PartEmpty
        <5>. QED
          BY <5>1 DEF Frame
      <4>3. A(i) = Reading(Members("TYPE", <<>>, T, 0), <<o>>, i)
        BY <2>1, <4>1 DEF After
      <4>. HIDE DEF A, old, buf
      <4>4. Put(Members("LENGTH", old, T, 0), b) = <<Members("TYPE", <<>>, T, 0), <<o>>>>
        BY <2>2, <3>1, <3>2, <4>2, PutLength, SMTT(40)
      <4>5. Feed(A(i - 1), b) = A(i)
        BY <2>1, <2>4, <4>3, <4>4, FeedPut
      <4>. QED
        BY <4>5 DEF A
    <3>3. CASE n # 0
      <4>1. ~(i < h) /\ i < h + n /\ n - (i - h) = n
        BY <1>0, <2>6, <3>3
      <4>2. Part(w, h, i) = <<>>
        BY <1>0, <2>6, PartEmpty
      <4>3. A(i) = Reading(Members("VALUE", Part(w, h, i), T, n - (i - h)), <<>>, i)
        BY <2>1, <4>1 DEF After
      <4>. HIDE DEF A, old, buf
      <4>4. Put(Members("LENGTH", old, T, 0), b) = <<Members("VALUE", <<>>, T, n), <<>>>>
        BY <2>2, <3>1, <3>3, PutLength
      <4>5. Feed(A(i - 1), b) = A(i)
        BY <2>1, <2>4, <4>1, <4>2, <4>3, <4>4, FeedPut
      <4>. QED
        BY <4>5 DEF A
    <3>. QED
      BY <3>2, <3>3
  <2>. QED
    BY <2>5, <2>6
<1>4. CASE h < i /\ i <= h + n
  <2>. DEFINE k == n - (i - 1 - h)
              old == Part(w, h, i - 1)
              buf == Part(w, h, i)
  <2>1. i <= Len(w) /\ i - 1 + 1 = i /\ ~(i - 1 < 2) /\ ~(i - 1 < h) /\ i - 1 < h + n
        /\ ~(i < 2) /\ ~(i < h) /\ k \in Int
    BY <1>0, <1>4
  <2>2. Append(old, b) = buf
    <3>1. b = w[i]
      BY <1>4
    <3>2. Append(old, w[i]) = buf
      BY <1>0, <1>4, <2>1, PartGrows
    <3>. QED
      BY <3>1, <3>2
  <2>3. A(i - 1) = Reading(Members("VALUE", old, T, k), <<>>, i - 1)
    BY <2>1 DEF After
  <2>4. CASE i # h + n
    <3>1. k # 1 /\ k - 1 = n - (i - h) /\ i < h + n
      BY <1>0, <1>4, <2>4
    <3>2. A(i) = Reading(Members("VALUE", buf, T, n - (i - h)), <<>>, i)
      BY <2>1, <3>1 DEF After
    <3>. HIDE DEF A, old, buf, k
    <3>3. Put(Members("VALUE", old, T, k), b) = <<Members("VALUE", buf, T, k - 1), <<>>>>
      BY <2>2, <3>1, PutValue, ZenonT(60)
    <3>4. Feed(A(i - 1), b) = A(i)
      BY <2>1, <2>3, <3>1, <3>2, <3>3, FeedPut
    <3>. QED
      BY <3>4 DEF A
  <2>5. CASE i = h + n
    <3>1. k = 1 /\ ~(i < h + n)
      BY <1>0, <1>4, <2>5
    <3>2. Deserialize(T, buf) = o
      BY <2>5 DEF Frame
    <3>3. A(i) = Reading(Members("TYPE", <<>>, T, 0), <<o>>, i)
      BY <2>1, <2>5, <3>1 DEF After
    <3>. HIDE DEF A, old, buf, k
    <3>4. Put(Members("VALUE", old, T, k), b) = <<Members("TYPE", <<>>, T, 0), <<o>>>>
      BY <2>2, <3>1, <3>2, PutValue, Zenon
    <3>5. Feed(A(i - 1), b) = A(i)
      BY <2>1, <2>3, <3>3, <3>4, FeedPut
    <3>. QED
      BY <3>5 DEF A
  <2>. QED
    BY <2>4, <2>5
<1>5. CASE h + n < i
  <2>1. ~(i < 2) /\ ~(i < h) /\ ~(i < h + n) /\ ~(i - 1 < 2) /\ ~(i - 1 < h) /\ ~(i - 1 < h + n)
    BY <1>0, <1>5
  <2>. DEFINE last == Reading(Members("TYPE", <<>>, T, 0), <<o>>, h + n)
  <2>2. A(i - 1) = last /\ A(i) = last
    BY <2>1 DEF After
  <2>3. last.out # <<>>
    BY DEF Reading
  <2>. HIDE DEF A, last
  <2>4. Feed(A(i - 1), b) = A(i)
    BY <2>2, <2>3 DEF Feed
  <2>. QED
    BY <2>4 DEF A
<1>. QED
  BY <1>0, <1>1, <1>2, <1>3, <1>4, <1>5

LEMMA PartOf ==
    ASSUME NEW w, NEW a \in Nat, NEW s \in Seq(Bytes),
           \A j \in 1 .. Len(s) : w[a + j] = s[j]
    PROVE  Part(w, a, a + Len(s)) = s
<1>. DEFINE m == Len(s)
<1>1. m \in Nat /\ (a + m) - a = m /\ s = [j \in 1 .. m |-> s[j]]
  OBVIOUS
<1>2. Part(w, a, a + m) = [j \in 1 .. m |-> w[a + j]]
  BY <1>1 DEF Part
<1>3. \A j \in 1 .. m : w[a + j] = s[j]
  OBVIOUS
<1>. HIDE DEF m
<1>4. [j \in 1 .. m |-> w[a + j]] = [j \in 1 .. m |-> s[j]]
  BY <1>3
<1>5. Part(w, a, a + m) = s
  BY <1>1, <1>2, <1>4
<1>. QED
  BY <1>5 DEF m

\* w is a, b and c one after the other.
Sliced(w, a, b, c) ==
    /\ w \in Seq(Bytes) /\ Len(w) = (Len(a) + Len(b)) + Len(c)
    /\ Part(w, 0, 0 + Len(a)) = a
    /\ Part(w, Len(a), Len(a) + Len(b)) = b
    /\ Part(w, Len(a) + Len(b), (Len(a) + Len(b)) + Len(c)) = c
    /\ Len(b) > 0 => w[Len(a) + 1] = b[1]

LEMMA Slices ==
    ASSUME NEW a \in Seq(Bytes), NEW b \in Seq(Bytes), NEW c \in Seq(Bytes)
    PROVE  Sliced((a \o b) \o c, a, b, c)
<1>. SUFFICES ASSUME NEW w, w = (a \o b) \o c PROVE Sliced(w, a, b, c)
  OBVIOUS
<1>. DEFINE d == a \o b
<1>1. d \in Seq(Bytes) /\ Len(d) = Len(a) + Len(b)
      /\ \A i \in 1 .. Len(a) + Len(b) : d[i] = IF i <= Len(a) THEN a[i] ELSE b[i - Len(a)]
  BY ConcatProperties, Zenon
<1>2. w \in Seq(Bytes) /\ Len(w) = Len(d) + Len(c)
      /\ \A i \in 1 .. Len(d) + Len(c) : w[i] = IF i <= Len(d) THEN d[i] ELSE c[i - Len(d)]
  <2>1. w = d \o c
    BY Zenon
  <2>. HIDE DEF d
  <2>. QED
    <3>1. d \o c \in Seq(Bytes) /\ Len(d \o c) = Len(d) + Len(c)
          /\ \A i \in 1 .. Len(d) + Len(c) :
                (d \o c)[i] = IF i <= Len(d) THEN d[i] ELSE c[i - Len(d)]
      <4>1. d \in Seq(Bytes)
        BY <1>1
      <4>. QED
        BY <4>1, ConcatProperties, Zenon
    <3>. QED
      BY <2>1, <3>1, Zenon
<1>3. Len(a) \in Nat /\ Len(b) \in Nat /\ Len(c) \in Nat
  OBVIOUS
<1>. HIDE DEF d
<1>4. \A j \in 1 .. Len(a) : w[0 + j] = a[j]
  BY <1>1, <1>2, <1>3
<1>5. \A j \in 1 .. Len(b) : w[Len(a) + j] = b[j]
  <2>. SUFFICES ASSUME NEW j \in 1 .. Len(b) PROVE w[Len(a) + j] = b[j]
    OBVIOUS
  <2>. DEFINE i == Len(a) + j
  <2>1. i \in 1 .. Len(a) + Len(b) /\ i \in 1 .. Len(d) + Len(c) /\ i <= Len(d)
        /\ ~(i <= Len(a)) /\ i - Len(a) = j
    BY <1>1, <1>3
  <2>. HIDE DEF i
  <2>2. w[i] = b[j]
    BY <1>1, <1>2, <2>1
  <2>. QED
    BY <2>2 DEF i
<1>6. \A j \in 1 .. Len(c) : w[(Len(a) + Len(b)) + j] = c[j]
  <2>. SUFFICES ASSUME NEW j \in 1 .. Len(c) PROVE w[Len(d) + j] = c[j]
    BY <1>1
  <2>. DEFINE i == Len(d) + j
  <2>1. i \in 1 .. Len(d) + Len(c) /\ ~(i <= Len(d)) /\ i - Len(d) = j
    BY <1>1, <1>3
  <2>. HIDE DEF i
  <2>2. w[i] = c[j]
    BY <1>2, <2>1
  <2>. QED
    BY <2>2 DEF i
<1>7. Part(w, 0, 0 + Len(a)) = a
  BY <1>4, PartOf
<1>8. Part(w, Len(a), Len(a) + Len(b)) = b
  BY <1>3, <1>5, PartOf
<1>9. Part(w, Len(a) + Len(b), (Len(a) + Len(b)) + Len(c)) = c
  <2>. DEFINE k == Len(a) + Len(b)
  <2>1. k \in Nat
    BY <1>3
  <2>. HIDE DEF k
  <2>2. Part(w, k, k + Len(c)) = c
    BY <1>6, <2>1, PartOf DEF k
  <2>. QED
    BY <2>2 DEF k
<1>10. Len(b) > 0 => w[Len(a) + 1] = b[1]
  BY <1>3, <1>5
<1>. QED
  BY <1>1, <1>2, <1>7, <1>8, <1>9, <1>10 DEF Sliced

\* The bytes up to the value.
HeadLen(o) == 2 + Len(SerializeLength(Len(Payload(o))))

LEMMA Framing ==
    ASSUME NEW o, Writable(o)
    PROVE  Frame(Serialize(o), TypeCode(o.t), HeadLen(o), Len(Payload(o)), o)
<1>. DEFINE a == Digits(TypeCode(o.t), 2)
            n == Len(Payload(o))
            b == SerializeLength(n)
            c == Payload(o)
            w == Serialize(o)
            T == TypeCode(o.t)
<1>1. c \in Seq(Bytes) /\ n \in Nat /\ n < Limit8 /\ Deserialize(T, c) = o
  BY PayloadType
<1>2. /\ b \in Seq(Bytes) /\ Len(b) \in 1 .. 9
      /\ Len(b) = SizeOfLengthField(b[1]) /\ SetLength(b) = n
  BY <1>1, LengthField
<1>3. a \in Seq(Bytes) /\ Len(a) = 2 /\ Number(a) = T
  BY TypeField
<1>4. T \in Nat
  BY TypesOf, TypeCodeDef DEF Writable
<1>5. w = (a \o b) \o c
  BY DEF Serialize
<1>6. HeadLen(o) = 2 + Len(b) /\ Len(c) = n
  BY DEF HeadLen
<1>. DEFINE h == HeadLen(o)
<1>. HIDE DEF a, n, b, c, w, T, h
<1>7. h = Len(a) + Len(b) /\ h \in Nat /\ h > 2 /\ h - 2 = Len(b) /\ 0 + 2 = 2 /\ Len(b) > 0
      /\ 2 + 1 = 3 /\ Len(c) = n
  BY <1>2, <1>3, <1>6 DEF h
<1>8. /\ w \in Seq(Bytes) /\ Len(w) = (Len(a) + Len(b)) + Len(c)
      /\ Part(w, 0, 0 + Len(a)) = a
      /\ Part(w, Len(a), Len(a) + Len(b)) = b
      /\ Part(w, Len(a) + Len(b), (Len(a) + Len(b)) + Len(c)) = c
      /\ Len(b) > 0 => w[Len(a) + 1] = b[1]
  <2>1. a \in Seq(Bytes) /\ b \in Seq(Bytes) /\ c \in Seq(Bytes)
    BY <1>1, <1>2, <1>3
  <2>2. Sliced((a \o b) \o c, a, b, c)
    BY <2>1, Slices
  <2>3. Sliced(w, a, b, c)
    BY <1>5, <2>2, Zenon
  <2>. QED
    BY <2>3 DEF Sliced
<1>9. Part(w, 0, 2) = a /\ Part(w, 2, h) = b /\ Part(w, h, h + n) = c /\ Len(w) = h + n
      /\ w[3] = b[1]
  BY <1>3, <1>7, <1>8, Zenon
<1>10. SizeOfLengthField(w[3]) = h - 2
  BY <1>2, <1>7, <1>9, Zenon
<1>11. Frame(w, T, h, n, o)
  BY <1>1, <1>2, <1>3, <1>4, <1>7, <1>8, <1>9, <1>10 DEF Frame
<1>. QED
  BY <1>11 DEF w, T, h, n

\* read() of a frame uses the frame's bytes and no more, and hands out its object.
LEMMA ReadFrame ==
    ASSUME NEW S, NEW l, NEW w, NEW T, NEW h, NEW n, NEW o, Frame(w, T, h, n, o),
           NEW rest \in Seq(Bytes)
    PROVE  Read(Members("TYPE", <<>>, S, l), w \o rest)
            = {Reading(Members("TYPE", <<>>, T, 0), <<o>>, Len(w))}
<1>. DEFINE bs == w \o rest
            m == Len(bs)
            A(i) == After(S, l, w, T, h, n, o, i)
            first == Reading(Members("TYPE", <<>>, S, l), <<>>, 0)
            last == Reading(Members("TYPE", <<>>, T, 0), <<o>>, Len(w))
            c == [i \in 0 .. m |-> {A(i)}]
            Q(f) == f = [i \in 0 .. m |-> IF i = 0 THEN {first}
                                          ELSE {Feed(r, bs[i]) : r \in f[i - 1]}]
<1>0. h \in Nat /\ n \in Nat /\ h > 2 /\ w \in Seq(Bytes) /\ Len(w) = h + n
  BY DEF Frame
<1>1. /\ m = Len(w) + Len(rest)
      /\ \A i \in 1 .. Len(w) + Len(rest) : bs[i] = IF i <= Len(w) THEN w[i] ELSE rest[i - Len(w)]
  BY <1>0, ConcatProperties, Zenon
<1>2. m \in Nat /\ m >= h + n /\ ~(m < 2) /\ ~(m < h) /\ ~(m < h + n)
  <2>1. Len(rest) \in Nat
    OBVIOUS
  <2>. HIDE DEF m
  <2>. QED
    BY <1>0, <1>1, <2>1
<1>3. ASSUME NEW i \in 1 .. m PROVE Feed(A(i - 1), bs[i]) = A(i)
  <2>. HIDE DEF bs, m
  <2>1. i \in Nat /\ i > 0
    BY <1>2
  <2>2. i <= h + n => bs[i] = w[i]
    BY <1>0, <1>1
  <2>. QED
    BY <2>1, <2>2, FrameStep
<1>4. A(0) = first
  BY PartEmpty DEF After
<1>5. A(m) = last
  <2>. HIDE DEF m
  <2>. QED
    BY <1>0, <1>2 DEF After
<1>. HIDE DEF bs, m, A, first, last
<1>6. \A i \in 1 .. m : {Feed(r, bs[i]) : r \in {A(i - 1)}} = {A(i)}
  BY <1>3
<1>7. \A i \in 0 .. m : i = 0 \/ (i \in 1 .. m /\ i # 0 /\ i - 1 \in 0 .. m)
  BY <1>2
<1>8. Q(c)
  <2>1. ASSUME NEW i \in 0 .. m
        PROVE  {A(i)} = IF i = 0 THEN {first} ELSE {Feed(r, bs[i]) : r \in c[i - 1]}
    <3>1. CASE i = 0
      BY <1>4, <3>1
    <3>2. CASE i # 0
      <4>1. c[i - 1] = {A(i - 1)}
        BY <1>7, <3>2
      <4>. QED
        BY <1>6, <1>7, <3>2, <4>1
    <3>. QED
      BY <3>1, <3>2
  <2>. QED
    BY <2>1
<1>. DEFINE F == CHOOSE f : Q(f)
<1>9. Q(F)
  <2>. HIDE DEF Q, c
  <2>. QED
    BY <1>8
<1>. HIDE DEF F
<1>10. F[0] = {first} /\ \A i \in 1 .. m : F[i] = {Feed(r, bs[i]) : r \in F[i - 1]}
  <2>1. \A i \in 0 .. m : F[i] = IF i = 0 THEN {first} ELSE {Feed(r, bs[i]) : r \in F[i - 1]}
    BY <1>9
  <2>2. 0 \in 0 .. m /\ \A i \in 1 .. m : i \in 0 .. m /\ i # 0
    BY <1>2
  <2>. QED
    BY <2>1, <2>2
<1>11. \A i \in 0 .. m : F[i] = c[i]
  <2>1. c[0] = {A(0)} /\ \A i \in 1 .. m : c[i] = {A(i)} /\ c[i - 1] = {A(i - 1)}
    BY <1>2, <1>7
  <2>. HIDE DEF c
  <2>2. F[0] = c[0]
    BY <1>4, <1>10, <2>1
  <2>3. ASSUME NEW i \in 1 .. m, F[i - 1] = c[i - 1] PROVE F[i] = c[i]
    <3>1. F[i - 1] = {A(i - 1)}
      BY <2>1, <2>3
    <3>2. F[i] = {Feed(r, bs[i]) : r \in F[i - 1]}
      BY <1>10
    <3>3. F[i] = {Feed(r, bs[i]) : r \in {A(i - 1)}}
      BY <3>1, <3>2, Zenon
    <3>4. F[i] = {A(i)}
      BY <1>6, <3>3, Zenon
    <3>. QED
      BY <2>1, <3>4
  <2>. QED
    BY <1>2, <2>2, <2>3, Agree, ZenonT(60)
<1>12. F[m] = {last}
  BY <1>2, <1>5, <1>11
<1>13. Read(Members("TYPE", <<>>, S, l), bs) = F[m]
  BY DEF Read, F, m, first, Reading
<1>14. Read(Members("TYPE", <<>>, S, l), bs) = {last}
  BY <1>12, <1>13, Zenon
<1>. QED
  BY <1>14 DEF bs, last

(***************************************************************************)
(* The round trip, for every object the serializers write and every number *)
(* of values a byte may have: put() takes the bytes of the object and no   *)
(* more, hands it out as it was written, and is ready for the next one.    *)
(***************************************************************************)
THEOREM ReadsWhatWasWritten ==
    ASSUME NEW p, Resting(p), NEW o, Writable(o), NEW rest \in Seq(Bytes)
    PROVE  \E q : Resting(q)
                  /\ Read(p, Serialize(o) \o rest) = {Reading(q, <<o>>, Len(Serialize(o)))}
<1>1. PICK S \in Nat, l \in Nat : p = Members("TYPE", <<>>, S, l)
  BY DEF Resting
<1>. DEFINE T == TypeCode(o.t)
            q == Members("TYPE", <<>>, T, 0)
            w == Serialize(o)
<1>2. Frame(w, T, HeadLen(o), Len(Payload(o)), o)
  BY Framing
<1>3. Resting(q)
  <2>1. T \in Nat
    BY TypesOf, TypeCodeDef DEF Writable
  <2>. HIDE DEF T
  <2>. QED
    BY <2>1 DEF Resting
<1>. HIDE DEF T, w
<1>4. Read(Members("TYPE", <<>>, S, l), w \o rest) = {Reading(q, <<o>>, Len(w))}
  BY <1>2, ReadFrame
<1>. HIDE DEF q
<1>5. Read(p, w \o rest) = {Reading(q, <<o>>, Len(w))}
  BY <1>1, <1>4, Zenon
<1>6. \E r : Resting(r) /\ Read(p, w \o rest) = {Reading(r, <<o>>, Len(w))}
  BY <1>3, <1>5, Zenon
<1>. QED
  BY <1>6 DEF w

----------------------------------------------------------------------------
(* What the connection received, and what is still on the wire. *)

Code == CodeOf(programs.conn)

\* k objects were handed out, and the bytes of the others are on the wire.
Cut(k) ==
    /\ k \in 0 .. Len(Code)
    /\ parsed = [j \in 1 .. k |-> Code[j]]
    /\ wire = Behind(Code)[Len(Code) - k]

FrameInv == programs \in Workloads /\ Resting(parser) /\ \E k : Cut(k)

LEMMA CodeIsWritable ==
    ASSUME programs \in Workloads
    PROVE  Code \in Seq(Instructions) /\ \A i \in 1 .. Len(Code) : Writable(Code[i])
<1>1. Code \in Seq(Instructions) /\ \A i \in DOMAIN Code : Len(Code[i].v) < Limit8
  BY WorkloadAssumption, Zenon DEF Code
<1>. QED
  BY <1>1 DEF Writable

LEMMA Unread ==
    ASSUME NEW w \in Seq(Bytes), NEW rest \in Seq(Bytes)
    PROVE  SubSeq(w \o rest, Len(w) + 1, Len(w \o rest)) = rest
<1>. DEFINE a == Len(w)
            m == Len(rest)
            bs == w \o rest
<1>1. Len(bs) = a + m
  BY ConcatProperties, Zenon
<1>2. a \in Nat /\ m \in Nat
  OBVIOUS
<1>3. CASE m = 0
  <2>1. rest = <<>>
    BY <1>3
  <2>2. a + 1 \in Int /\ Len(bs) \in Int /\ Len(bs) < a + 1
    <3>. HIDE DEF a, m, bs
    <3>. QED
      BY <1>1, <1>2, <1>3
  <2>. HIDE DEF a, bs
  <2>3. SubSeq(bs, a + 1, Len(bs)) = <<>>
    BY <2>2, SubSeqEmpty
  <2>. QED
    BY <2>1, <2>3, Zenon DEF a, bs
<1>4. CASE m # 0
  <2>1. a + 1 \in a + 1 .. a + m /\ a + m \in a + 1 .. a + m /\ (a + 1) - a = 1 /\ (a + m) - a = m
    <3>. HIDE DEF a, m
    <3>. QED
      BY <1>2, <1>4
  <2>2. SubSeq(bs, a + 1, a + m) = SubSeq(rest, (a + 1) - a, (a + m) - a)
    BY <2>1, SubSeqOfConcat2, ZenonT(60)
  <2>3. SubSeq(rest, 1, m) = rest
    BY SubSeqFull
  <2>. HIDE DEF a, m, bs
  <2>4. SubSeq(bs, a + 1, Len(bs)) = rest
    BY <1>1, <2>1, <2>2, <2>3, Zenon
  <2>. QED
    BY <2>4 DEF a, bs
<1>. QED
  BY <1>3, <1>4

LEMMA Grown ==
    ASSUME NEW E, NEW s \in Seq(E), NEW k \in Nat, k < Len(s)
    PROVE  [j \in 1 .. k |-> s[j]] \o <<s[k + 1]>> = [j \in 1 .. k + 1 |-> s[j]]
<1>. DEFINE a == [j \in 1 .. k |-> s[j]]
            b == <<s[k + 1]>>
            m == k + 1
            c == [j \in 1 .. m |-> s[j]]
<1>1. m \in Nat /\ \A j \in 1 .. m : j \in 1 .. Len(s)
  OBVIOUS
<1>2. \A j \in 1 .. m : s[j] \in E
  BY <1>1
<1>3. a \in Seq(E) /\ Len(a) = k
  BY <1>2
<1>4. b \in Seq(E) /\ Len(b) = 1 /\ b[1] = s[k + 1]
  BY <1>1, <1>2
<1>5. c \in Seq(E) /\ Len(c) = m
  <2>. HIDE DEF m
  <2>. QED
    BY <1>1, <1>2
<1>6. \A j \in 1 .. k : a[j] = s[j]
  OBVIOUS
<1>7. \A j \in 1 .. m : c[j] = s[j]
  OBVIOUS
<1>. HIDE DEF a, b, c
<1>8. a \o b \in Seq(E) /\ Len(a \o b) = Len(a) + Len(b)
      /\ \A i \in 1 .. Len(a) + Len(b) : (a \o b)[i] = IF i <= Len(a) THEN a[i] ELSE b[i - Len(a)]
  BY <1>3, <1>4, ConcatProperties, Zenon
<1>9. Len(a \o b) = Len(c) /\ Len(c) = k + 1
  BY <1>3, <1>4, <1>5, <1>8
<1>10. ASSUME NEW j \in 1 .. Len(c) PROVE (a \o b)[j] = c[j]
  <2>1. j \in 1 .. Len(a) + Len(b) /\ j \in 1 .. m
    BY <1>3, <1>4, <1>9
  <2>2. CASE j <= k
    BY <1>3, <1>6, <1>7, <1>8, <2>1, <2>2
  <2>3. CASE ~(j <= k)
    <3>1. j = k + 1 /\ j - Len(a) = 1
      BY <1>3, <2>1, <2>3
    <3>2. (a \o b)[j] = b[j - Len(a)]
      BY <1>3, <1>8, <2>1, <2>3
    <3>. QED
      BY <1>4, <1>7, <2>1, <3>1, <3>2
  <2>. QED
    BY <2>2, <2>3
<1>11. a \o b = c
  <2>. DEFINE x == a \o b
  <2>1. x \in Seq(E) /\ c \in Seq(E) /\ Len(x) = Len(c) /\ \A j \in 1 .. Len(c) : x[j] = c[j]
    BY <1>5, <1>8, <1>9, <1>10, Zenon
  <2>. HIDE DEF x
  <2>2. x = c
    BY <2>1, SeqEqual
  <2>. QED
    BY <2>2 DEF x
<1>. QED
  BY <1>11, Zenon DEF a, b, c, m

LEMMA FrameInit == Init => FrameInv
<1>. SUFFICES ASSUME Init PROVE FrameInv
  OBVIOUS
<1>1. programs \in Workloads /\ parser = Parser /\ parsed = <<>> /\ wire = SerializeAll(Code)
  BY DEF Init, Code
<1>2. Resting(parser)
  BY <1>1 DEF Resting, Parser
<1>3. Code \in Seq(Instructions) /\ \A i \in 1 .. Len(Code) : Writable(Code[i])
  BY <1>1, CodeIsWritable
<1>. DEFINE m == Len(Code)
<1>4. m \in Nat /\ 0 \in 0 .. m /\ m - 0 = m
  BY <1>3
<1>5. SerializeAll(Code) = Behind(Code)[m]
  BY <1>3, BehindDef
<1>. HIDE DEF m
<1>6. [j \in 1 .. 0 |-> Code[j]] = <<>>
  OBVIOUS
<1>7. Cut(0)
  BY <1>1, <1>4, <1>5, <1>6, Zenon DEF Cut, m
<1>. QED
  BY <1>1, <1>2, <1>7 DEF FrameInv

LEMMA FrameReceive ==
    ASSUME FrameInv, Receive
    PROVE  FrameInv'
<1>1. programs \in Workloads /\ Resting(parser)
  BY DEF FrameInv
<1>2. PICK k : Cut(k)
  BY DEF FrameInv
<1>3. wire # <<>> /\ programs' = programs
  BY DEF Receive
<1>4. PICK got \in Read(parser, wire) :
        /\ wire' = SubSeq(wire, got.used + 1, Len(wire))
        /\ parser' = got.parser
        /\ parsed' = parsed \o got.out
  BY DEF Receive
<1>5. Code \in Seq(Instructions) /\ \A i \in 1 .. Len(Code) : Writable(Code[i])
  BY <1>1, CodeIsWritable
<1>. DEFINE m == Len(Code)
            o == Code[k + 1]
            w == Serialize(o)
            rest == Behind(Code)[m - (k + 1)]
<1>6. m \in Nat /\ k \in 0 .. m /\ parsed = [j \in 1 .. k |-> Code[j]] /\ wire = Behind(Code)[m - k]
  BY <1>2, <1>5 DEF Cut
<1>7. /\ Behind(Code)[0] = <<>>
      /\ \A n \in 0 .. m : Behind(Code)[n] \in Seq(Bytes)
      /\ \A n \in 1 .. m : Behind(Code)[n] = Serialize(Code[m + 1 - n]) \o Behind(Code)[n - 1]
  BY <1>5, BehindDef
<1>. HIDE DEF m
<1>8. k # m
  <2>1. m - m = 0
    BY <1>6
  <2>. QED
    BY <1>3, <1>6, <1>7, <2>1, Zenon
<1>9. /\ k \in Nat /\ k < m /\ k + 1 \in 0 .. m /\ k + 1 \in 1 .. m
      /\ m - k \in 1 .. m /\ m + 1 - (m - k) = k + 1 /\ (m - k) - 1 = m - (k + 1)
      /\ m - (k + 1) \in 0 .. m
  BY <1>6, <1>8
<1>10. Writable(o)
  BY <1>5, <1>9 DEF m
<1>11. rest \in Seq(Bytes) /\ w \in Seq(Bytes)
  BY <1>7, <1>9, <1>10, SerializeType
<1>12. wire = w \o rest
  BY <1>6, <1>7, <1>9, Zenon
<1>. HIDE DEF o, w, rest
<1>13. PICK q : Resting(q) /\ Read(parser, w \o rest) = {Reading(q, <<o>>, Len(w))}
  BY <1>1, <1>10, <1>11, ReadsWhatWasWritten DEF w
<1>14. got = Reading(q, <<o>>, Len(w))
  BY <1>4, <1>12, <1>13, Zenon
<1>15. got.used = Len(w) /\ got.parser = q /\ got.out = <<o>>
  BY <1>14 DEF Reading
<1>16. wire' = rest
  BY <1>4, <1>11, <1>12, <1>15, Unread, Zenon
<1>17. parsed' = [j \in 1 .. k + 1 |-> Code[j]]
  <2>1. [j \in 1 .. k |-> Code[j]] \o <<Code[k + 1]>> = [j \in 1 .. k + 1 |-> Code[j]]
    BY <1>5, <1>9, Grown DEF m
  <2>. QED
    BY <1>4, <1>6, <1>15, <2>1, Zenon DEF o
<1>18. Code' = Code
  BY <1>3 DEF Code
<1>19. Cut(k + 1)'
  <2>1. k + 1 \in 0 .. Len(Code')
    BY <1>9, <1>18 DEF m
  <2>2. parsed' = [j \in 1 .. k + 1 |-> Code'[j]]
    BY <1>17, <1>18
  <2>3. wire' = Behind(Code')[Len(Code') - (k + 1)]
    BY <1>16, <1>18, Zenon DEF rest, m
  <2>. QED
    BY <2>1, <2>2, <2>3, Zenon DEF Cut
<1>20. Resting(parser)' /\ (programs \in Workloads)'
  BY <1>1, <1>3, <1>4, <1>13, <1>15 DEF Resting
<1>. QED
  BY <1>19, <1>20, Zenon DEF FrameInv

LEMMA FrameOthers ==
    ASSUME FrameInv, UNCHANGED <<programs, wire, parser, parsed>>
    PROVE  FrameInv'
BY DEF FrameInv, Cut, Code, Resting

LEMMA FrameStepInv ==
    ASSUME FrameInv, [Next]_vars
    PROVE  FrameInv'
<1>1. CASE Receive
  BY <1>1, FrameReceive
<1>2. CASE LoadJob
  BY <1>2, FrameOthers DEF LoadJob
<1>3. ASSUME NEW c \in Callers, SendRun(c) PROVE FrameInv'
  BY <1>3, FrameOthers DEF SendRun
<1>4. ASSUME NEW vm \in Vms, Handle(vm) PROVE FrameInv'
  BY <1>4, FrameOthers DEF Handle
<1>5. ASSUME NEW vm \in Vms, Run(vm) PROVE FrameInv'
  BY <1>5, FrameOthers DEF Run
<1>6. CASE Lookup
  BY <1>6, FrameOthers DEF Lookup
<1>7. CASE UNCHANGED vars
  BY <1>7, FrameOthers DEF vars
<1>. QED
  BY <1>1, <1>2, <1>3, <1>4, <1>5, <1>6, <1>7 DEF Next

LEMMA FrameImplies ==
    ASSUME FrameInv
    PROVE  FramesAligned
<1>1. PICK k : Cut(k)
  BY DEF FrameInv
<1>2. Code \in Seq(Instructions)
  BY CodeIsWritable DEF FrameInv
<1>3. k \in Nat /\ k <= Len(Code) /\ parsed = [j \in 1 .. k |-> Code[j]]
  BY <1>1, <1>2 DEF Cut
<1>4. \A j \in 1 .. k : Code[j] \in Instructions
  BY <1>2, <1>3
<1>5. parsed \in Seq(Instructions) /\ Len(parsed) = k
  BY <1>3, <1>4
<1>6. SubSeq(parsed, 1, k) = parsed
  BY <1>5, SubSeqFull
<1>7. SubSeq(Code, 1, k) = parsed
  <2>. DEFINE x == SubSeq(Code, 1, k)
  <2>1. x \in Seq(Instructions) /\ Len(x) = (IF 1 <= k THEN k - 1 + 1 ELSE 0)
        /\ \A i \in 1 .. k - 1 + 1 : x[i] = Code[1 + i - 1]
    <3>1. 1 \in Int /\ k \in Int
      BY <1>3
    <3>. QED
      BY <1>4, <3>1, SubSeqProperties
  <2>. HIDE DEF x
  <2>2. Len(x) = k
    BY <1>3, <2>1
  <2>3. \A i \in 1 .. k : x[i] = parsed[i]
    <3>1. \A i \in 1 .. k : i \in 1 .. k - 1 + 1 /\ 1 + i - 1 = i
      BY <1>3
    <3>. QED
      BY <1>3, <2>1, <3>1
  <2>4. x = parsed
    BY <1>5, <2>1, <2>2, <2>3, SeqEqual
  <2>. QED
    BY <2>4 DEF x
<1>. QED
  BY <1>3, <1>5, <1>6, <1>7 DEF FramesAligned, IsPrefix, Code

(***************************************************************************)
(* What a connection's parser hands out is what was written, object by     *)
(* object, for every Base, whatever the lengths of the values and however  *)
(* the VMs and the other threads go on in between.                         *)
(***************************************************************************)
THEOREM FramesKept == Spec => []FramesAligned
<1>1. FrameInv /\ [Next]_vars => FrameInv'
  BY FrameStepInv
<1>2. FrameInv => FramesAligned
  BY FrameImplies
<1>. QED
  BY FrameInit, <1>1, <1>2, PTL DEF Spec
============================================================================

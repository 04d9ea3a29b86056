---------------------------- MODULE TableProofs ----------------------------
(***************************************************************************)
(* What Table promises its subscribers, for any number of keys, columns,   *)
(* values, subscribers and operations: no change is silent, generations    *)
(* count the changes, and a subscriber that takes its events ends with the *)
(* rows of the table.                                                      *)
(***************************************************************************)
EXTENDS Table, TLAPS, FiniteSetTheorems, SequenceTheorems, WellFoundedInduction

----------------------------------------------------------------------------
(* Induction, with a set in the place of a predicate. *)

LEMMA Smallest ==
    ASSUME NEW T \in SUBSET Nat, T # {}
    PROVE  \E x \in T : \A y \in T : x <= y
<1>. DEFINE R == {p \in Nat \X Nat : p[1] < p[2]}
<1>1. IsWellFoundedOn(R, Nat)
  BY NatLessThanWellFounded, Zenon DEF OpToRel
<1>2. PICK x \in T : \A y \in T : ~(<<y, x>> \in R)
  <2>. HIDE DEF R
  <2>. QED
    BY <1>1, WFMin
<1>3. \A y \in T : ~(y < x)
  BY <1>2
<1>. QED
  BY <1>3

LEMMA Induction ==
    ASSUME NEW G, 0 \in G, \A n \in Nat : n \in G => n + 1 \in G
    PROVE  \A n \in Nat : n \in G
<1>. SUFFICES ASSUME Nat \ G # {} PROVE FALSE
  OBVIOUS
<1>1. PICK x \in Nat \ G : \A y \in Nat \ G : x <= y
  BY Smallest
<1>2. x - 1 \in Nat /\ (x - 1) + 1 = x /\ ~(x <= x - 1)
  BY <1>1
<1>3. x - 1 \in G
  BY <1>1, <1>2
<1>. QED
  BY <1>1, <1>2, <1>3

----------------------------------------------------------------------------
(* The n-th smallest member of a set of numbers. *)

Below(S, x) == {y \in S : y < x}

LEMMA BelowFinite ==
    ASSUME NEW S \in SUBSET Nat, IsFiniteSet(S), NEW x
    PROVE  /\ IsFiniteSet(Below(S, x))
           /\ Cardinality(Below(S, x)) \in Nat
<1>1. Below(S, x) \in SUBSET S
  BY DEF Below
<1>. QED
  BY <1>1, FS_Subset, FS_CardinalityType

LEMMA RankExists ==
    ASSUME NEW S \in SUBSET Nat, IsFiniteSet(S)
    PROVE  \A n \in 1 .. Cardinality(S) : \E x \in S : Cardinality(Below(S, x)) = n - 1
<1>. DEFINE P(n) == \E x \in S : Cardinality(Below(S, x)) = n
            G == {n \in Nat : n < Cardinality(S) => P(n)}
<1>0. Cardinality(S) \in Nat
  BY FS_CardinalityType
<1>1. 0 \in G
  <2>. SUFFICES ASSUME 0 < Cardinality(S) PROVE P(0)
    OBVIOUS
  <2>1. S # {}
    BY FS_EmptySet
  <2>2. PICK x \in S : \A y \in S : x <= y
    BY <2>1, Smallest
  <2>3. \A y \in S : ~(y < x)
    BY <2>2
  <2>4. Below(S, x) = {}
    BY <2>3 DEF Below
  <2>. QED
    BY <2>4, FS_EmptySet
<1>2. ASSUME NEW n \in Nat, n \in G PROVE n + 1 \in G
  <2>. SUFFICES ASSUME n + 1 < Cardinality(S) PROVE P(n + 1)
    OBVIOUS
  <2>1. PICK z \in S : Cardinality(Below(S, z)) = n
    BY <1>0, <1>2
  <2>. DEFINE A == Below(S, z) \cup {z}
              T == S \ A
  <2>2. z \notin Below(S, z) /\ IsFiniteSet(Below(S, z))
    BY BelowFinite DEF Below
  <2>3. IsFiniteSet(A) /\ Cardinality(A) = n + 1
    BY <2>1, <2>2, FS_AddElement
  <2>4. T # {}
    <3>1. A # S
      <4>1. Cardinality(A) # Cardinality(S)
        BY <1>0, <2>3
      <4>. QED
        BY <4>1
    <3>2. A \subseteq S
      BY DEF Below
    <3>. QED
      BY <3>1, <3>2
  <2>5. PICK x \in T : \A y \in T : x <= y
    BY <2>4, Smallest
  <2>6. Below(S, x) = A
    <3>1. \A y \in S : y \in T <=> (z <= y /\ y # z)
      BY DEF Below
    <3>2. z < x /\ x \in Nat /\ z \in Nat
      BY <3>1
    <3>3. ASSUME NEW y \in S PROVE y < x <=> y \notin T
      BY <2>5, <3>1, <3>2
    <3>. QED
      BY <3>2, <3>3 DEF Below
  <2>. QED
    BY <2>3, <2>6
<1>3. \A n \in Nat : n \in G
  <2>. HIDE DEF G
  <2>. QED
    BY <1>1, <1>2, Induction
<1>4. ASSUME NEW n \in 1 .. Cardinality(S) PROVE \E x \in S : Cardinality(Below(S, x)) = n - 1
  <2>1. n - 1 \in Nat /\ n - 1 < Cardinality(S)
    BY <1>0
  <2>. QED
    BY <1>3, <2>1
<1>. QED
  BY <1>4

\* A member with a smaller one below it has a higher rank.
LEMMA RankGrows ==
    ASSUME NEW S \in SUBSET Nat, IsFiniteSet(S), NEW x \in S, NEW y \in S, x < y
    PROVE  Cardinality(Below(S, x)) < Cardinality(Below(S, y))
<1>1. Below(S, x) \in SUBSET Below(S, y) /\ x \in Below(S, y) /\ x \notin Below(S, x)
  <2>1. \A z \in S : (z < x => z < y) /\ ~(x < x)
    OBVIOUS
  <2>. QED
    BY <2>1 DEF Below
<1>2. IsFiniteSet(Below(S, y)) /\ Cardinality(Below(S, x)) \in Nat /\ Cardinality(Below(S, y)) \in Nat
  BY BelowFinite
<1>3. /\ Cardinality(Below(S, x)) <= Cardinality(Below(S, y))
      /\ Cardinality(Below(S, x)) # Cardinality(Below(S, y))
  BY <1>1, <1>2, FS_Subset
<1>. QED
  BY <1>2, <1>3

LEMMA RankBound ==
    ASSUME NEW S \in SUBSET Nat, IsFiniteSet(S), NEW x \in S
    PROVE  Cardinality(Below(S, x)) + 1 \in 1 .. Cardinality(S)
<1>1. Below(S, x) \in SUBSET S /\ x \notin Below(S, x)
  BY DEF Below
<1>2. Cardinality(Below(S, x)) \in Nat /\ Cardinality(S) \in Nat
  BY BelowFinite, FS_CardinalityType
<1>3. /\ Cardinality(Below(S, x)) <= Cardinality(S)
      /\ Cardinality(Below(S, x)) # Cardinality(S)
  BY <1>1, FS_Subset
<1>. QED
  BY <1>2, <1>3

\* Nth() counts the members of S from 1 to Cardinality(S).
LEMMA NthCounts ==
    ASSUME NEW S \in SUBSET Nat, IsFiniteSet(S)
    PROVE  /\ \A n \in 1 .. Cardinality(S) :
                Nth(S, n) \in S /\ Cardinality(Below(S, Nth(S, n))) + 1 = n
           /\ \A x \in S : Nth(S, Cardinality(Below(S, x)) + 1) = x
<1>1. ASSUME NEW n \in 1 .. Cardinality(S)
      PROVE  Nth(S, n) \in S /\ Cardinality(Below(S, Nth(S, n))) = n - 1
  <2>1. \E x \in S : Cardinality(Below(S, x)) = n - 1
    BY RankExists
  <2>. QED
    BY <2>1 DEF Nth, Below
<1>2. ASSUME NEW n \in 1 .. Cardinality(S) PROVE Cardinality(Below(S, Nth(S, n))) + 1 = n
  BY <1>1
<1>3. ASSUME NEW x \in S PROVE Nth(S, Cardinality(Below(S, x)) + 1) = x
  <2>. DEFINE n == Cardinality(Below(S, x)) + 1
              y == Nth(S, n)
  <2>1. n \in 1 .. Cardinality(S) /\ Cardinality(Below(S, x)) \in Nat /\ n - 1 = Cardinality(Below(S, x))
    BY RankBound, BelowFinite
  <2>. HIDE DEF n
  <2>2. y \in S /\ Cardinality(Below(S, y)) = n - 1
    BY <1>1, <2>1
  <2>. HIDE DEF y
  <2>3. Cardinality(Below(S, y)) = Cardinality(Below(S, x)) /\ y \in Nat /\ x \in Nat
    BY <2>1, <2>2
  <2>4. ~(x < y) /\ ~(y < x)
    BY <2>1, <2>2, <2>3, RankGrows
  <2>5. y = x
    BY <2>3, <2>4
  <2>. QED
    BY <2>5 DEF y, n
<1>. QED
  BY <1>1, <1>2, <1>3

----------------------------------------------------------------------------
(* Replayed(copy, es) is the last of the copies c that the events es lead to. *)

Steps(c, n, copy, es) ==
    c = [i \in 0 .. n |-> IF i = 0 THEN copy ELSE Apply(c[i - 1], es[i])]

LEMMA StepsExist ==
    ASSUME NEW copy, NEW es
    PROVE  \A n \in Nat : \E c : Steps(c, n, copy, es)
<1>. DEFINE G == {n \in Nat : \E c : Steps(c, n, copy, es)}
<1>1. 0 \in G
  <2>. DEFINE c == [i \in 0 .. 0 |-> copy]
  <2>1. c = [i \in 0 .. 0 |-> IF i = 0 THEN copy ELSE Apply(c[i - 1], es[i])]
    OBVIOUS
  <2>. QED
    BY <2>1 DEF Steps
<1>2. ASSUME NEW n \in Nat, n \in G PROVE n + 1 \in G
  <2>1. PICK b : Steps(b, n, copy, es)
    BY <1>2
  <2>. DEFINE m == n + 1
              c == [i \in 0 .. m |-> IF i = m THEN Apply(b[n], es[m]) ELSE b[i]]
  <2>2. /\ \A i \in 0 .. m : i = m \/ i \in 0 .. n
        /\ m # 0 /\ m - 1 = n /\ m \in Nat /\ n # m
        /\ \A i \in 0 .. m : i # 0 => i - 1 \in 0 .. m /\ i - 1 # m
        /\ \A i \in 0 .. n : i # m
    OBVIOUS
  <2>3. \A i \in 0 .. n : b[i] = IF i = 0 THEN copy ELSE Apply(b[i - 1], es[i])
    BY <2>1 DEF Steps
  <2>. HIDE DEF m
  <2>4. \A i \in 0 .. m : c[i] = IF i = 0 THEN copy ELSE Apply(c[i - 1], es[i])
    <3>. SUFFICES ASSUME NEW i \in 0 .. m
                  PROVE  c[i] = IF i = 0 THEN copy ELSE Apply(c[i - 1], es[i])
      OBVIOUS
    <3>1. i # 0 => c[i - 1] = b[i - 1]
      BY <2>2
    <3>2. CASE i = m
      BY <2>2, <3>1, <3>2
    <3>3. CASE i # m
      BY <2>2, <2>3, <3>1, <3>3
    <3>. QED
      BY <3>2, <3>3
  <2>5. Steps(c, m, copy, es)
    BY <2>4 DEF Steps
  <2>. QED
    BY <2>2, <2>5 DEF m
<1>3. \A n \in Nat : n \in G
  <2>. HIDE DEF G
  <2>. QED
    BY <1>1, <1>2, Induction
<1>. QED
  BY <1>3

\* A function that follows the events ends where the replay does.
LEMMA ReplayEnds ==
    ASSUME NEW es, Len(es) \in Nat, NEW c,
           \A i \in 1 .. Len(es) : c[i] = Apply(c[i - 1], es[i])
    PROVE  Replayed(c[0], es) = c[Len(es)]
<1>. DEFINE a == CHOOSE x : Steps(x, Len(es), c[0], es)
<1>1. Steps(a, Len(es), c[0], es)
  BY StepsExist
<1>2. Replayed(c[0], es) = a[Len(es)]
  BY DEF Replayed, Steps
<1>. HIDE DEF a
<1>3. \A i \in 0 .. Len(es) : a[i] = IF i = 0 THEN c[0] ELSE Apply(a[i - 1], es[i])
  BY <1>1 DEF Steps
<1>. DEFINE G == {n \in Nat : n <= Len(es) => a[n] = c[n]}
<1>4. 0 \in G
  BY <1>3
<1>5. ASSUME NEW n \in Nat, n \in G PROVE n + 1 \in G
  <2>. DEFINE m == n + 1
  <2>. SUFFICES ASSUME m <= Len(es) PROVE a[m] = c[m]
    OBVIOUS
  <2>1. m \in 1 .. Len(es) /\ m \in 0 .. Len(es) /\ m # 0 /\ m - 1 = n /\ n <= Len(es)
    OBVIOUS
  <2>2. a[n] = c[n]
    BY <1>5, <2>1
  <2>. HIDE DEF m
  <2>. QED
    BY <1>3, <2>1, <2>2
<1>6. \A n \in Nat : n \in G
  <2>. HIDE DEF G
  <2>. QED
    BY <1>4, <1>5, Induction
<1>. QED
  BY <1>2, <1>6

LEMMA ReplaySteps ==
    ASSUME NEW es, Len(es) \in Nat, NEW copy
    PROVE  \E c : /\ c[0] = copy
                  /\ \A i \in 1 .. Len(es) : c[i] = Apply(c[i - 1], es[i])
                  /\ c[Len(es)] = Replayed(copy, es)
<1>1. PICK c : Steps(c, Len(es), copy, es)
  BY StepsExist
<1>2. \A i \in 0 .. Len(es) : c[i] = IF i = 0 THEN copy ELSE Apply(c[i - 1], es[i])
  BY <1>1 DEF Steps
<1>3. c[0] = copy /\ \A i \in 1 .. Len(es) : c[i] = Apply(c[i - 1], es[i])
  BY <1>2
<1>4. Replayed(c[0], es) = c[Len(es)]
  BY <1>3, ReplayEnds
<1>. QED
  BY <1>3, <1>4

LEMMA ReplayConcat ==
    ASSUME NEW E, NEW s \in Seq(E), NEW t \in Seq(E), NEW copy
    PROVE  Replayed(copy, s \o t) = Replayed(Replayed(copy, s), t)
<1>. DEFINE m == Len(s)
            n == Len(t)
<1>0. m \in Nat /\ n \in Nat /\ Len(s \o t) = m + n
  OBVIOUS
<1>1. PICK a : /\ a[0] = copy
               /\ \A i \in 1 .. m : a[i] = Apply(a[i - 1], s[i])
               /\ a[m] = Replayed(copy, s)
  BY <1>0, ReplaySteps
<1>2. PICK b : /\ b[0] = a[m]
               /\ \A i \in 1 .. n : b[i] = Apply(b[i - 1], t[i])
               /\ b[n] = Replayed(a[m], t)
  BY <1>0, ReplaySteps
<1>3. /\ \A i \in 1 .. m : (s \o t)[i] = s[i]
      /\ \A i \in 1 .. n : (s \o t)[m + i] = t[i]
  OBVIOUS
<1>. DEFINE st == s \o t
            c == [i \in 0 .. m + n |-> IF i <= m THEN a[i] ELSE b[i - m]]
<1>. HIDE DEF m, n, st
<1>4. ASSUME NEW i \in 1 .. m + n PROVE c[i] = Apply(c[i - 1], st[i])
  <2>0. i \in 0 .. m + n /\ i - 1 \in 0 .. m + n
    BY <1>0
  <2>1. CASE i <= m
    <3>1. i \in 1 .. m /\ i - 1 <= m
      BY <1>0, <2>1
    <3>2. c[i] = a[i] /\ c[i - 1] = a[i - 1] /\ st[i] = s[i]
      BY <1>3, <2>0, <2>1, <3>1 DEF st
    <3>. QED
      BY <1>1, <3>1, <3>2
  <2>2. CASE ~(i <= m)
    <3>. DEFINE k == i - m
    <3>1. k \in 1 .. n /\ m + k = i /\ (k # 1 => ~(i - 1 <= m)) /\ (k = 1 => i - 1 = m) /\ i - 1 - m = k - 1
          /\ m <= m /\ (k = 1 => k - 1 = 0)
      BY <1>0, <2>2
    <3>2. c[i] = b[k]
      BY <2>0, <2>2
    <3>. HIDE DEF k
    <3>3. st[i] = t[k]
      BY <1>3, <3>1 DEF st
    <3>4. c[i - 1] = b[k - 1]
      BY <1>2, <2>0, <3>1
    <3>. QED
      BY <1>2, <3>1, <3>2, <3>3, <3>4
  <2>. QED
    BY <2>1, <2>2
<1>5. c[0] = copy
  BY <1>0, <1>1
<1>6. c[m + n] = b[n]
  <2>1. CASE n = 0
    <3>1. m + n = m /\ m \in 0 .. m + n /\ m <= m
      BY <1>0, <2>1
    <3>. QED
      BY <1>2, <2>1, <3>1
  <2>2. CASE n # 0
    <3>. DEFINE z == m + n
    <3>1. z \in 0 .. z /\ ~(z <= m) /\ z - m = n
      BY <1>0, <2>2
    <3>2. c = [i \in 0 .. z |-> IF i <= m THEN a[i] ELSE b[i - m]]
      OBVIOUS
    <3>. HIDE DEF z, c
    <3>3. c[z] = b[n]
      BY <3>1, <3>2
    <3>. QED
      BY <3>3 DEF z
  <2>. QED
    BY <2>1, <2>2
<1>7. Len(st) = m + n
  BY <1>0 DEF st
<1>. HIDE DEF c
<1>8. Replayed(c[0], st) = c[m + n]
  <2>1. Len(st) \in Nat
    BY <1>0, <1>7
  <2>2. \A i \in 1 .. Len(st) : c[i] = Apply(c[i - 1], st[i])
    BY <1>4, <1>7
  <2>. QED
    BY <1>7, <2>1, <2>2, ReplayEnds
<1>. QED
  BY <1>1, <1>2, <1>5, <1>6, <1>8 DEF st

LEMMA ReplayNone ==
    ASSUME NEW copy
    PROVE  Replayed(copy, <<>>) = copy
<1>1. Len(<<>>) = 0 /\ Len(<<>>) \in Nat
  OBVIOUS
<1>2. PICK c : c[0] = copy /\ c[Len(<<>>)] = Replayed(copy, <<>>)
  BY <1>1, ReplaySteps
<1>. QED
  BY <1>1, <1>2

LEMMA ReplayHead ==
    ASSUME NEW E, NEW s \in Seq(E), s # <<>>, NEW copy
    PROVE  Replayed(copy, s) = Replayed(Apply(copy, Head(s)), Tail(s))
<1>. DEFINE n == Len(s)
            t == Tail(s)
<1>0. /\ n \in Nat /\ n # 0 /\ Len(t) = n - 1 /\ Len(t) \in Nat /\ Head(s) = s[1]
      /\ \A i \in 1 .. n - 1 : t[i] = s[i + 1]
  OBVIOUS
<1>1. PICK a : /\ a[0] = copy
               /\ \A i \in 1 .. n : a[i] = Apply(a[i - 1], s[i])
               /\ a[n] = Replayed(copy, s)
  BY <1>0, ReplaySteps
<1>. DEFINE c == [i \in 0 .. n - 1 |-> a[i + 1]]
<1>. HIDE DEF n, t
<1>2. ASSUME NEW i \in 1 .. n - 1 PROVE c[i] = Apply(c[i - 1], t[i])
  <2>1. /\ i \in 0 .. n - 1 /\ i - 1 \in 0 .. n - 1 /\ i - 1 + 1 = i /\ i + 1 - 1 = i
        /\ i + 1 \in 1 .. n
    BY <1>0
  <2>2. c[i] = a[i + 1] /\ c[i - 1] = a[i]
    BY <2>1
  <2>3. a[i + 1] = Apply(a[i], s[i + 1])
    BY <1>1, <2>1
  <2>. QED
    BY <1>0, <2>2, <2>3
<1>3. c[0] = Apply(copy, Head(s))
  <2>1. 0 \in 0 .. n - 1 /\ 0 + 1 = 1 /\ 1 \in 1 .. n /\ 1 - 1 = 0
    BY <1>0
  <2>. QED
    BY <1>0, <1>1, <2>1
<1>4. c[n - 1] = a[n]
  <2>1. n - 1 \in 0 .. n - 1 /\ n - 1 + 1 = n
    BY <1>0
  <2>. QED
    BY <2>1
<1>. HIDE DEF c
<1>5. Replayed(c[0], t) = c[n - 1]
  BY <1>0, <1>2, ReplayEnds
<1>. QED
  BY <1>1, <1>3, <1>4, <1>5 DEF t

LEMMA DivSteps ==
    ASSUME NEW n \in Nat \ {0}, NEW m \in Nat, NEW j \in 1 .. n * m
    PROVE  /\ (j - 1) \div n + 1 \in 1 .. m
           /\ j = 1 => (j - 1) \div n + 1 = 1
           /\ j # 1 => \/ (j - 1) \div n = (j - 2) \div n
                       \/ (j - 1) \div n = (j - 2) \div n + 1
           /\ j = n * m => (j - 1) \div n + 1 = m
<1>. DEFINE q == (j - 1) \div n
            p == (j - 2) \div n
<1>1. n * m \in Nat /\ j - 1 \in Nat /\ (j # 1 => j - 2 \in Nat)
  OBVIOUS
<1>2. q \in Nat /\ n * q <= j - 1 /\ j - 1 < n * q + n
  BY <1>1
<1>3. j # 1 => p \in Nat /\ n * p <= j - 2 /\ j - 2 < n * p + n
  BY <1>1
<1>. HIDE DEF q, p
<1>4. n * q < n * m
  BY <1>1, <1>2
<1>5. q < m
  BY <1>2, <1>4
<1>6. j = 1 => q = 0
  BY <1>2
<1>7. j # 1 => q = p \/ q = p + 1
  <2>. SUFFICES ASSUME j # 1 PROVE q = p \/ q = p + 1
    OBVIOUS
  <2>1. p \in Nat /\ q \in Nat
    BY <1>2, <1>3
  <2>2. n * p < n * (q + 1)
    BY <1>2, <1>3
  <2>3. n * q < n * (p + 2)
    BY <1>2, <1>3
  <2>4. p < q + 1 /\ q < p + 2
    BY <2>1, <2>2, <2>3
  <2>. QED
    BY <2>1, <2>4
<1>8. j = n * m => q + 1 = m
  BY <1>2, <1>5
<1>. QED
  BY <1>2, <1>5, <1>6, <1>7, <1>8 DEF q, p

\* Events that change nothing when they come again may come n times.
LEMMA ReplayRepeated ==
    ASSUME NEW es, Len(es) \in Nat, NEW n \in Nat \ {0}, NEW c,
           \A i \in 1 .. Len(es) : c[i] = Apply(c[i - 1], es[i]) /\ Apply(c[i], es[i]) = c[i]
    PROVE  Replayed(c[0], Repeated(es, n)) = c[Len(es)]
<1>. DEFINE m == Len(es)
            r == n * m
            q(j) == (j - 1) \div n + 1
            t == Repeated(es, n)
            d == [j \in 0 .. r |-> IF j = 0 THEN c[0] ELSE c[q(j)]]
<1>1. r \in Nat /\ t = [j \in 1 .. r |-> es[q(j)]]
  BY DEF Repeated
<1>2. Len(t) = r
  <2>. HIDE DEF r, q, t
  <2>. QED
    BY <1>1
<1>3. ASSUME NEW j \in 1 .. r PROVE d[j] = Apply(d[j - 1], t[j])
  <2>1. q(j) \in 1 .. m
    BY DivSteps
  <2>2. d[j] = c[q(j)] /\ t[j] = es[q(j)]
    <3>1. j \in 0 .. r /\ j # 0
      BY <1>1
    <3>. HIDE DEF q, r, t
    <3>. QED
      BY <1>1, <3>1
  <2>3. CASE j = 1
    <3>1. q(j) = 1
      BY <2>3, DivSteps
    <3>2. d[j - 1] = c[0]
      <4>. HIDE DEF q, r
      <4>. QED
        BY <1>1, <2>3
    <3>. HIDE DEF q, r, t, d
    <3>. QED
      BY <2>1, <2>2, <3>1, <3>2
  <2>4. CASE j # 1
    <3>. DEFINE k == j - 1
    <3>1. k \in 1 .. r /\ k \in 0 .. r /\ k # 0 /\ k - 1 = j - 2
      BY <1>1, <2>4
    <3>2. q(k) \in 1 .. m /\ (q(j) = q(k) \/ q(j) = q(k) + 1)
      <4>1. q(k) \in 1 .. m
        <5>. HIDE DEF k
        <5>. QED
          BY <3>1, DivSteps
      <4>2. (j - 1) \div n = (j - 2) \div n \/ (j - 1) \div n = (j - 2) \div n + 1
        BY <2>4, DivSteps
      <4>3. q(j) = q(k) \/ q(j) = q(k) + 1
        BY <3>1, <4>2
      <4>. QED
        BY <4>1, <4>3
    <3>3. d[k] = c[q(k)]
      <4>. HIDE DEF q, r, k
      <4>. QED
        BY <3>1
    <3>. HIDE DEF q, r, t, d
    <3>4. CASE q(j) = q(k)
      BY <2>1, <2>2, <3>3, <3>4
    <3>5. CASE q(j) = q(k) + 1
      <4>1. q(j) - 1 = q(k)
        BY <3>2, <3>5
      <4>. QED
        BY <2>1, <2>2, <3>3, <4>1
    <3>. QED
      BY <3>2, <3>4, <3>5
  <2>. QED
    BY <2>3, <2>4
<1>4. d[0] = c[0]
  <2>. HIDE DEF q, r
  <2>. QED
    BY <1>1
<1>5. d[r] = c[m]
  <2>1. CASE m = 0
    <3>1. r = 0
      BY <2>1
    <3>. HIDE DEF r, d
    <3>. QED
      BY <1>4, <2>1, <3>1
  <2>2. CASE m # 0
    <3>1. r \in 1 .. r /\ r # 0 /\ r \in 0 .. r
      BY <2>2
    <3>2. q(r) = m
      BY <3>1, DivSteps
    <3>. HIDE DEF q, r, m
    <3>. QED
      BY <3>1, <3>2
  <2>. QED
    BY <2>1, <2>2
<1>. HIDE DEF d, t, r
<1>6. Replayed(d[0], t) = d[r]
  <2>1. \A j \in 1 .. Len(t) : d[j] = Apply(d[j - 1], t[j])
    BY <1>2, <1>3
  <2>2. Len(t) \in Nat
    BY <1>1, <1>2
  <2>3. Replayed(d[0], t) = d[Len(t)]
    BY <2>1, <2>2, ReplayEnds
  <2>. QED
    BY <1>2, <2>3
<1>. QED
  BY <1>4, <1>5, <1>6 DEF t

----------------------------------------------------------------------------
(* What an operation does: it replaces the rows by d and publishes es. *)

RowType(d) == d \in [Keys -> [body : Bodies, gen : Nat] \cup {NoRow}]

\* The events lead a copy from the old rows to the new ones, one by one, and
\* each of them may come more than once.
Leads(d, es) ==
    \E c : /\ c[0] = Body(data)
           /\ c[Len(es)] = Body(d)
           /\ \A i \in 1 .. Len(es) : c[i] = Apply(c[i - 1], es[i]) /\ Apply(c[i], es[i]) = c[i]

Change(d, es) ==
    /\ RowType(d)
    /\ es \in Seq(Events)
    /\ Leads(d, es)

LEMMA BodyIsSome ==
    ASSUME NEW body \in Bodies, NEW g
    PROVE  body # NoBody /\ [body |-> body, gen |-> g] # NoRow
<1>1. 1 \in DOMAIN body
  BY TableAssumption DEF Bodies, Cols
<1>2. body # NoBody
  BY <1>1 DEF NoBody
<1>3. [body |-> body, gen |-> g].body = body /\ NoRow.body = NoBody
  BY DEF NoRow
<1>. QED
  BY <1>2, <1>3

LEMMA RowFields ==
    ASSUME RowType(data), NEW k \in Keys
    PROVE  /\ Exists(k) => data[k].body \in Bodies /\ data[k].gen \in Nat
           /\ ~Exists(k) => data[k].body = NoBody
BY DEF RowType, Exists, NoRow

LEMMA NoChange ==
    ASSUME RowType(data)
    PROVE  Change(data, <<>>)
<1>1. Leads(data, <<>>)
  <2>. DEFINE c == [i \in {0} |-> Body(data)]
  <2>1. c[0] = Body(data) /\ Len(<<>>) = 0 /\ 1 .. Len(<<>>) = {}
    OBVIOUS
  <2>. HIDE DEF c
  <2>. QED
    BY <2>1 DEF Leads
<1>. QED
  BY <1>1 DEF Change

\* One event that may come again.
LEMMA OneEvent ==
    ASSUME NEW d, NEW e \in Events, Apply(Body(data), e) = Body(d), Apply(Body(d), e) = Body(d)
    PROVE  <<e>> \in Seq(Events) /\ Leads(d, <<e>>)
<1>. DEFINE c == [i \in {0, 1} |-> IF i = 0 THEN Body(data) ELSE Body(d)]
            es == <<e>>
<1>1. es \in Seq(Events) /\ Len(es) = 1 /\ es[1] = e /\ 1 .. Len(es) = {1}
  OBVIOUS
<1>2. c[0] = Body(data) /\ c[1] = Body(d) /\ 1 - 1 = 0
  OBVIOUS
<1>. HIDE DEF c, es
<1>3. \A i \in 1 .. Len(es) : c[i] = Apply(c[i - 1], es[i]) /\ Apply(c[i], es[i]) = c[i]
  BY <1>1, <1>2
<1>. QED
  BY <1>1, <1>2, <1>3 DEF Leads, es

LEMMA InsertChange ==
    ASSUME RowType(data), NEW k \in Keys, NEW body \in Bodies, ~Exists(k)
    PROVE  LET row == [body |-> body, gen |-> 1]
           IN  Change([data EXCEPT ![k] = row], <<InsertEvent(k, row)>>)
<1>. DEFINE row == [body |-> body, gen |-> 1]
            d == [data EXCEPT ![k] = row]
            e == InsertEvent(k, row)
<1>1. /\ row \in [body : Bodies, gen : Nat] /\ row.body = body
      /\ e = [type |-> "insert", key |-> k, body |-> body, gen |-> 1]
  BY DEF InsertEvent
<1>. HIDE DEF row, e
<1>2. RowType(d) /\ d[k] = row /\ \A x \in Keys : x # k => d[x] = data[x]
  BY <1>1 DEF RowType
<1>3. e \in Events
  BY <1>1 DEF Events
<1>4. /\ e.type = "insert" /\ e.key = k /\ e.body = body
  BY <1>1
<1>5. \A copy : Apply(copy, e) = [copy EXCEPT ![k] = body]
  BY <1>4 DEF Apply
<1>. HIDE DEF d
<1>6. \A x \in Keys : Body(d)[x] = IF x = k THEN body ELSE Body(data)[x]
  BY <1>1, <1>2 DEF Body
<1>7. Apply(Body(data), e) = Body(d) /\ Apply(Body(d), e) = Body(d)
  <2>. DEFINE B == Body(data)
              C == Body(d)
  <2>1. B = [x \in Keys |-> B[x]] /\ C = [x \in Keys |-> C[x]]
    BY DEF Body
  <2>. HIDE DEF B, C
  <2>2. C = [x \in Keys |-> IF x = k THEN body ELSE B[x]]
    BY <1>6, <2>1 DEF B, C
  <2>3. [B EXCEPT ![k] = body] = C
    BY <2>1, <2>2
  <2>4. [C EXCEPT ![k] = body] = C
    BY <2>2
  <2>. QED
    BY <1>5, <2>3, <2>4 DEF B, C
<1>. QED
  BY <1>2, <1>3, <1>7, OneEvent DEF Change, d, e, row

LEMMA ClearChange ==
    ASSUME RowType(data)
    PROVE  Change(Without(Keys), <<[type |-> "clear"]>>)
<1>. DEFINE d == Without(Keys)
            e == [type |-> "clear"]
<1>1. RowType(d) /\ \A k \in Keys : d[k] = NoRow
  BY DEF RowType, Without
<1>2. e \in Events /\ e.type = "clear"
  BY DEF Events
<1>. HIDE DEF d, e
<1>3. Body(d) = EmptyCopy
  BY <1>1 DEF Body, EmptyCopy, NoRow
<1>4. \A copy : Apply(copy, e) = EmptyCopy
  BY <1>2 DEF Apply
<1>. QED
  BY <1>1, <1>2, <1>3, <1>4, OneEvent DEF Change, d, e

\* update() and modify(): the copy takes the changed columns in ascending order.
LEMMA UpdateChange ==
    ASSUME RowType(data), NEW k \in Keys, Exists(k), NEW am, NEW lag \in {0, 1},
           \A c \in Cols \cap DOMAIN am : am[c] \in Values
    PROVE  Change([data EXCEPT ![k] = Updated(k, am)], ModifyEvents(k, am, lag))
<1>. DEFINE S == ChangedCols(k, am)
            n == Cardinality(S)
            old == data[k].body
            rank(x) == Cardinality(Below(S, x)) + 1
            d == [data EXCEPT ![k] = Updated(k, am)]
            es == ModifyEvents(k, am, lag)
            part(i) == [x \in Cols |-> IF x \in S /\ rank(x) <= i THEN am[x] ELSE old[x]]
            c == [i \in 0 .. n |-> [x \in Keys |-> IF x = k THEN part(i) ELSE data[x].body]]
<1>1. old \in [Cols -> Values] /\ data[k].gen \in Nat
  BY RowFields DEF Bodies
<1>2. /\ S \in SUBSET Nat /\ S \subseteq Cols /\ IsFiniteSet(S) /\ n \in Nat
      /\ \A x \in S : x \in DOMAIN am /\ am[x] \in Values
      /\ \A x \in Cols : x \in DOMAIN am /\ x \notin S => am[x] = old[x]
  <2>1. IsFiniteSet(Cols) /\ Cols \subseteq Nat
    BY TableAssumption, FS_Interval DEF Cols
  <2>2. S \subseteq Cols
    BY DEF ChangedCols
  <2>3. IsFiniteSet(S) /\ n \in Nat
    BY <2>1, <2>2, FS_Subset, FS_CardinalityType
  <2>4. /\ \A x \in S : x \in DOMAIN am /\ am[x] \in Values
        /\ \A x \in Cols : x \in DOMAIN am /\ x \notin S => am[x] = old[x]
    BY DEF ChangedCols
  <2>. HIDE DEF S, n
  <2>. QED
    BY <2>1, <2>2, <2>3, <2>4
<1>3. /\ \A i \in 1 .. n : Nth(S, i) \in S /\ rank(Nth(S, i)) = i
      /\ \A x \in S : rank(x) \in 1 .. n /\ Nth(S, rank(x)) = x
  <2>. HIDE DEF S
  <2>. QED
    BY <1>2, NthCounts, RankBound
<1>4. Updated(k, am) = [body |-> part(n), gen |-> data[k].gen + n]
  <2>1. \A x \in Cols : (IF x \in DOMAIN am THEN am[x] ELSE old[x]) =
                        (IF x \in S /\ rank(x) <= n THEN am[x] ELSE old[x])
    <3>. HIDE DEF S, rank, n, old
    <3>1. \A x \in S : rank(x) <= n
      BY <1>2, <1>3
    <3>. QED
      BY <1>2, <3>1
  <2>2. Updated(k, am) = [body |-> [x \in Cols |-> IF x \in DOMAIN am THEN am[x] ELSE old[x]],
                          gen |-> data[k].gen + n]
    BY DEF Updated
  <2>. HIDE DEF S, rank, n, old
  <2>. QED
    BY <2>1, <2>2
<1>5. /\ Len(es) = n
      /\ \A i \in 1 .. n : es[i] = [type |-> "modify", key |-> k, col |-> Nth(S, i),
                                    val |-> am[Nth(S, i)], gen |-> data[k].gen + i - lag]
  <2>1. es = [i \in 1 .. n |-> [type |-> "modify", key |-> k, col |-> Nth(S, i),
                                val |-> am[Nth(S, i)], gen |-> data[k].gen + i - lag]]
    BY DEF ModifyEvents
  <2>. HIDE DEF es, n, S
  <2>. QED
    BY <1>2, <2>1
<1>6. es \in Seq(Events)
  <2>1. ASSUME NEW i \in 1 .. n PROVE es[i] \in Events
    <3>. DEFINE x == Nth(S, i)
                g == data[k].gen + i - lag
    <3>1. x \in Cols /\ am[x] \in Values
      <4>. HIDE DEF S, rank, n
      <4>. QED
        BY <1>2, <1>3
    <3>2. g \in Nat
      BY <1>1, <1>2
    <3>. HIDE DEF x, g
    <3>3. [type |-> "modify", key |-> k, col |-> x, val |-> am[x], gen |-> g] \in Events
      BY <3>1, <3>2 DEF Events
    <3>. QED
      BY <1>5, <3>3 DEF x, g
  <2>2. es = [i \in 1 .. n |-> es[i]]
    BY DEF ModifyEvents
  <2>. HIDE DEF es, n
  <2>. QED
    BY <1>2, <2>1, <2>2
<1>7. \A i \in 0 .. n : part(i) \in Bodies
  <2>. HIDE DEF S, rank, n, old
  <2>. QED
    BY <1>1, <1>2 DEF Bodies
<1>8. /\ d[k] = [body |-> part(n), gen |-> data[k].gen + n]
      /\ \A x \in Keys : x # k => d[x] = data[x]
      /\ RowType(d)
  <2>1. part(n) \in Bodies /\ data[k].gen + n \in Nat
    BY <1>1, <1>2, <1>7
  <2>. HIDE DEF part, n
  <2>. QED
    BY <1>4, <2>1 DEF RowType
<1>. HIDE DEF d, es
<1>10. c[0] = Body(data)
  <2>1. part(0) = old
    <3>1. \A x \in S : ~(rank(x) <= 0)
      <4>. HIDE DEF S, rank, n
      <4>. QED
        BY <1>2, <1>3
    <3>. HIDE DEF S, rank, n, old
    <3>. QED
      BY <1>1, <3>1
  <2>2. 0 \in 0 .. n
    BY <1>2
  <2>. HIDE DEF part, n
  <2>. QED
    BY <2>1, <2>2 DEF Body
<1>11. c[n] = Body(d)
  <2>1. n \in 0 .. n
    BY <1>2
  <2>. HIDE DEF part, n
  <2>2. \A x \in Keys : d[x].body = IF x = k THEN part(n) ELSE data[x].body
    BY <1>8
  <2>. QED
    BY <2>1, <2>2 DEF Body
<1>12. ASSUME NEW i \in 1 .. n
       PROVE  c[i] = Apply(c[i - 1], es[i]) /\ Apply(c[i], es[i]) = c[i]
  <2>. DEFINE x == Nth(S, i)
  <2>1. x \in S /\ x \in Cols /\ rank(x) = i /\ \A y \in S : rank(y) = i => y = x
    <3>. HIDE DEF S, rank, n
    <3>. QED
      BY <1>2, <1>3
  <2>2. i \in 0 .. n /\ i - 1 \in 0 .. n /\ i <= i /\ ~(i <= i - 1)
    BY <1>2
  <2>3. \A y \in S : rank(y) <= i <=> (y = x \/ rank(y) <= i - 1)
    <3>1. \A y \in S : rank(y) \in Nat
      <4>. HIDE DEF S, rank, n
      <4>. QED
        BY <1>2, <1>3
    <3>. HIDE DEF S, rank, n, x
    <3>. QED
      BY <2>1, <2>2, <3>1
  <2>4. part(i) = [part(i - 1) EXCEPT ![x] = am[x]]
    <3>. HIDE DEF S, rank, n, x, old
    <3>. QED
      BY <2>1, <2>3
  <2>5. [part(i) EXCEPT ![x] = am[x]] = part(i)
    <3>. HIDE DEF S, rank, n, x, old
    <3>. QED
      BY <2>1, <2>3
  <2>6. /\ es[i].type = "modify" /\ es[i].key = k /\ es[i].col = x /\ es[i].val = am[x]
    <3>. HIDE DEF S, n, x
    <3>. QED
      BY <1>5 DEF x
  <2>7. part(i) # NoBody /\ part(i - 1) # NoBody
    BY <1>7, <2>2, BodyIsSome
  <2>8. c[i - 1][k] = part(i - 1) /\ c[i][k] = part(i)
    <3>. HIDE DEF part, n
    <3>. QED
      BY <2>2
  <2>9. ASSUME NEW copy, copy[k] # NoBody
        PROVE  Apply(copy, es[i]) = [copy EXCEPT ![k][x] = am[x]]
    <3>. HIDE DEF x, part, c
    <3>. QED
      BY <2>6, <2>9 DEF Apply
  <2>10. [c[i - 1] EXCEPT ![k][x] = am[x]] = c[i]
    <3>. HIDE DEF part, n, x
    <3>. QED
      BY <2>2, <2>4
  <2>11. [c[i] EXCEPT ![k][x] = am[x]] = c[i]
    <3>. HIDE DEF part, n, x
    <3>. QED
      BY <2>2, <2>5
  <2>. HIDE DEF c, part, x
  <2>. QED
    BY <2>7, <2>8, <2>9, <2>10, <2>11
<1>. HIDE DEF c, n
<1>13. Leads(d, es)
  BY <1>5, <1>10, <1>11, <1>12 DEF Leads
<1>. QED
  BY <1>6, <1>8, <1>13 DEF Change, d, es

\* SetToSeq() lists every member of a finite set once.
LEMMA ListsAll ==
    ASSUME NEW S, IsFiniteSet(S)
    PROVE  /\ Cardinality(S) \in Nat
           /\ SetToSeq(S) \in [1 .. Cardinality(S) -> S]
           /\ \A x \in S : \E i \in 1 .. Cardinality(S) : SetToSeq(S)[i] = x
<1>. DEFINE n == Cardinality(S)
            f == SetToSeq(S)
<1>1. n \in Nat /\ ExistsBijection(1 .. n, S)
  BY FS_CardinalityType
<1>2. \E g \in [1 .. n -> S] : IsInjective(g)
  BY <1>1 DEF ExistsBijection, Bijection, Injection
<1>3. f \in [1 .. n -> S] /\ IsInjective(f)
  <2>. HIDE DEF n
  <2>. QED
    BY <1>2 DEF SetToSeq, n
<1>. HIDE DEF f, n
<1>4. IsFiniteSet(1 .. n) /\ Cardinality(1 .. n) = n
  BY <1>1, FS_Interval
<1>5. f \in Injection(1 .. n, S)
  BY <1>3 DEF Injection
<1>6. f \in Surjection(1 .. n, S)
  BY <1>4, <1>5, FS_Injection DEF n
<1>7. \A x \in S : \E i \in 1 .. n : f[i] = x
  BY <1>6 DEF Surjection
<1>. QED
  BY <1>1, <1>3, <1>7 DEF n, f

LEMMA KeysFinite == IsFiniteSet(Keys)
BY TableAssumption, FS_Interval DEF Keys

\* erase() and erase_if(): the copy gives up the rows one by one.
LEMMA RemoveChange ==
    ASSUME RowType(data), NEW S \in SUBSET Keys
    PROVE  Change(Without(S), RemoveEvents(S))
<1>. DEFINE n == Cardinality(S)
            f == SetToSeq(S)
            d == Without(S)
            es == RemoveEvents(S)
            gone(i) == {f[j] : j \in 1 .. i}
            c == [i \in 0 .. n |-> [x \in Keys |-> IF x \in gone(i) THEN NoBody ELSE data[x].body]]
<1>1. /\ n \in Nat /\ f \in [1 .. n -> S] /\ \A x \in S : \E i \in 1 .. n : f[i] = x
  BY KeysFinite, FS_Subset, ListsAll
<1>2. es = [i \in 1 .. n |-> [type |-> "remove", key |-> f[i]]]
  <2>1. DOMAIN f = 1 .. n
    <3>. HIDE DEF f, n
    <3>. QED
      BY <1>1
  <2>2. es = [i \in DOMAIN f |-> [type |-> "remove", key |-> f[i]]]
    BY DEF RemoveEvents
  <2>. HIDE DEF es, f, n
  <2>. QED
    BY <2>1, <2>2
<1>3. RowType(d) /\ \A x \in Keys : d[x] = IF x \in S THEN NoRow ELSE data[x]
  BY DEF RowType, Without
<1>. HIDE DEF f, n, d, es
<1>4. Len(es) = n /\ \A i \in 1 .. n : f[i] \in Keys /\ es[i] = [type |-> "remove", key |-> f[i]]
  BY <1>1, <1>2
<1>5. es \in Seq(Events)
  <2>1. \A i \in 1 .. n : es[i] \in Events
    BY <1>4 DEF Events
  <2>. QED
    BY <1>1, <1>2, <2>1
<1>7. c[0] = Body(data)
  <2>1. 0 \in 0 .. n /\ 1 .. 0 = {}
    BY <1>1
  <2>2. gone(0) = {}
    BY <2>1
  <2>. HIDE DEF gone
  <2>. QED
    BY <2>1, <2>2 DEF Body
<1>8. c[n] = Body(d)
  <2>1. n \in 0 .. n
    BY <1>1
  <2>2. gone(n) = S
    BY <1>1
  <2>. HIDE DEF gone
  <2>3. \A x \in Keys : d[x].body = IF x \in gone(n) THEN NoBody ELSE data[x].body
    BY <1>3, <2>2 DEF NoRow
  <2>. QED
    BY <2>1, <2>3 DEF Body
<1>9. ASSUME NEW i \in 1 .. n
      PROVE  c[i] = Apply(c[i - 1], es[i]) /\ Apply(c[i], es[i]) = c[i]
  <2>1. i \in 0 .. n /\ i - 1 \in 0 .. n /\ \A j \in 1 .. i : j = i \/ j \in 1 .. i - 1
    BY <1>1
  <2>2. gone(i) = gone(i - 1) \cup {f[i]}
    <3>1. i \in 1 .. i /\ \A j \in 1 .. i - 1 : j \in 1 .. i
      BY <1>1
    <3>. QED
      BY <2>1, <3>1
  <2>3. \A copy : Apply(copy, es[i]) = [copy EXCEPT ![f[i]] = NoBody]
    <3>1. es[i].type = "remove" /\ es[i].key = f[i]
      BY <1>4
    <3>. QED
      BY <3>1 DEF Apply
  <2>. HIDE DEF gone
  <2>4. [c[i - 1] EXCEPT ![f[i]] = NoBody] = c[i]
    BY <1>4, <2>1, <2>2
  <2>5. [c[i] EXCEPT ![f[i]] = NoBody] = c[i]
    BY <1>4, <2>1, <2>2
  <2>. HIDE DEF c
  <2>. QED
    BY <2>3, <2>4, <2>5
<1>. HIDE DEF c
<1>10. Leads(d, es)
  BY <1>4, <1>7, <1>8, <1>9 DEF Leads
<1>. QED
  BY <1>3, <1>5, <1>10 DEF Change, d, es

LEMMA ReplayOne ==
    ASSUME NEW e \in Events, NEW copy
    PROVE  Replayed(copy, <<e>>) = Apply(copy, e)
<1>1. <<e>> \in Seq(Events) /\ <<e>> # <<>> /\ Head(<<e>>) = e /\ Tail(<<e>>) = <<>>
  OBVIOUS
<1>2. Replayed(copy, <<e>>) = Replayed(Apply(copy, e), <<>>)
  BY <1>1, ReplayHead
<1>. QED
  BY <1>2, ReplayNone

\* The initial load makes every copy the rows of the table.
LEMMA ChargeLoads ==
    ASSUME RowType(data), NEW copy
    PROVE  Charge \in Seq(Events) /\ Replayed(copy, Charge) = Body(data)
<1>. DEFINE S == {k \in Keys : Exists(k)}
            n == Cardinality(S)
            f == SetToSeq(S)
            opens == [type |-> "trx", begin |-> TRUE]
            closes == [type |-> "trx", begin |-> FALSE]
            m == [i \in 1 .. Len(f) |-> InsertEvent(f[i], data[f[i]])]
            seen(i) == {f[j] : j \in 1 .. i}
            c == [i \in 0 .. n |-> [x \in Keys |-> IF x \in seen(i) THEN data[x].body ELSE NoBody]]
<1>1. S \in SUBSET Keys /\ \A k \in S : Exists(k)
  OBVIOUS
<1>2. /\ n \in Nat /\ f \in [1 .. n -> S] /\ \A x \in S : \E i \in 1 .. n : f[i] = x
  <2>. HIDE DEF S
  <2>. QED
    BY <1>1, KeysFinite, FS_Subset, ListsAll
<1>3. Charge = (<<opens>> \o m) \o <<closes>>
  BY DEF Charge
<1>4. opens \in Events /\ closes \in Events
  BY DEF Events
<1>5. \A x : Apply(x, opens) = EmptyCopy /\ Apply(x, closes) = x
  BY DEF Apply
<1>. HIDE DEF f, n, opens, closes
<1>6. Len(f) = n /\ m = [i \in 1 .. n |-> InsertEvent(f[i], data[f[i]])]
  <2>1. Len(f) = n
    <3>. HIDE DEF S
    <3>. QED
      BY <1>2
  <2>. QED
    BY <2>1
<1>7. \A k \in Keys : k \notin S => data[k].body = NoBody
  BY RowFields
<1>. HIDE DEF m, S
<1>8. /\ Len(m) = n
      /\ \A i \in 1 .. n : f[i] \in Keys /\ Exists(f[i]) /\ m[i] = InsertEvent(f[i], data[f[i]])
  BY <1>1, <1>2, <1>6
<1>9. m \in Seq(Events)
  <2>1. ASSUME NEW i \in 1 .. n PROVE m[i] \in Events
    <3>1. data[f[i]].body \in Bodies /\ data[f[i]].gen \in Nat /\ f[i] \in Keys
      BY <1>8, RowFields
    <3>. QED
      BY <1>8, <3>1 DEF Events, InsertEvent
  <2>. QED
    BY <1>2, <1>6, <2>1
<1>10. Charge \in Seq(Events)
  BY <1>3, <1>4, <1>9
<1>11. c[0] = EmptyCopy
  <2>1. 0 \in 0 .. n /\ 1 .. 0 = {}
    BY <1>2
  <2>2. seen(0) = {}
    BY <2>1
  <2>. HIDE DEF seen
  <2>. QED
    BY <2>1, <2>2 DEF EmptyCopy
<1>12. c[n] = Body(data)
  <2>1. n \in 0 .. n
    BY <1>2
  <2>2. seen(n) = S
    BY <1>2
  <2>. HIDE DEF seen
  <2>. QED
    BY <1>7, <2>1, <2>2 DEF Body
<1>13. ASSUME NEW i \in 1 .. n PROVE c[i] = Apply(c[i - 1], m[i])
  <2>1. i \in 0 .. n /\ i - 1 \in 0 .. n /\ \A j \in 1 .. i : j = i \/ j \in 1 .. i - 1
    BY <1>2
  <2>2. seen(i) = seen(i - 1) \cup {f[i]}
    <3>1. i \in 1 .. i /\ \A j \in 1 .. i - 1 : j \in 1 .. i
      BY <1>2
    <3>. QED
      BY <2>1, <3>1
  <2>3. \A x : Apply(x, m[i]) = [x EXCEPT ![f[i]] = data[f[i]].body]
    <3>1. m[i].type = "insert" /\ m[i].key = f[i] /\ m[i].body = data[f[i]].body
      BY <1>8 DEF InsertEvent
    <3>. QED
      BY <3>1 DEF Apply
  <2>. HIDE DEF seen
  <2>4. [c[i - 1] EXCEPT ![f[i]] = data[f[i]].body] = c[i]
    BY <1>8, <2>1, <2>2
  <2>. HIDE DEF c
  <2>. QED
    BY <2>3, <2>4
<1>. HIDE DEF c
<1>14. Replayed(EmptyCopy, m) = Body(data)
  BY <1>2, <1>8, <1>11, <1>12, <1>13, ReplayEnds
<1>15. Replayed(copy, <<opens>> \o m) = Body(data)
  <2>1. <<opens>> \in Seq(Events)
    BY <1>4
  <2>2. Replayed(copy, <<opens>> \o m) = Replayed(Replayed(copy, <<opens>>), m)
    BY <1>9, <2>1, ReplayConcat
  <2>. QED
    BY <1>4, <1>5, <1>14, <2>2, ReplayOne
<1>16. Replayed(copy, Charge) = Body(data)
  <2>. DEFINE t == <<opens>> \o m
  <2>1. t \in Seq(Events) /\ <<closes>> \in Seq(Events)
    BY <1>4, <1>9
  <2>. HIDE DEF t
  <2>2. Replayed(copy, t \o <<closes>>) = Replayed(Replayed(copy, t), <<closes>>)
    BY <2>1, ReplayConcat
  <2>3. Replayed(Replayed(copy, t), <<closes>>) = Replayed(copy, t)
    BY <1>4, <1>5, ReplayOne
  <2>. QED
    BY <1>3, <1>15, <2>2, <2>3 DEF t
<1>. QED
  BY <1>10, <1>16

----------------------------------------------------------------------------
(* The inductive invariant: the replay of the pending events gives the     *)
(* rows, and a subscriber that was loaded is still in slots_insert_.       *)

Copies == [Keys -> Bodies \cup {NoBody}]

Types ==
    /\ RowType(data)
    /\ autoKey \in 0 .. NKeys
    /\ ins \in Seq(Subs)
    /\ chan \in [Subs -> {"open", "closed", "gone"}]
    /\ inbox \in [Subs -> Seq(Events)]
    /\ replica \in [Subs -> Copies]
    /\ synced \subseteq Subs

SyncedListed == \A s \in synced : chan[s] # "gone" => Contains(ins, s)

TableInv == Types /\ SyncedListed /\ ReplicaFollows

\* Every operation on the rows publishes its change.
LEMMA WriteForm ==
    ASSUME Types, Write
    PROVE  /\ \E d, es : Step(d, es) /\ Change(d, es)
           /\ autoKey' \in 0 .. NKeys
<1>0. RowType(data) /\ autoKey \in 0 .. NKeys /\ NKeys \in Nat
  BY TableAssumption DEF Types
<1>1. ASSUME NEW k \in Keys, NEW body \in Bodies \cup {NoBody}, InsertRow(k, body)
      PROVE  \E d, es : Step(d, es) /\ Change(d, es)
  <2>. DEFINE row == [body |-> body, gen |-> 1]
  <2>1. CASE body = NoBody \/ Exists(k)
    <3>1. Step(data, <<>>)
      BY <1>1, <2>1 DEF InsertRow
    <3>. QED
      BY <1>0, <3>1, NoChange
  <2>2. CASE ~(body = NoBody \/ Exists(k))
    <3>1. Step([data EXCEPT ![k] = row], <<InsertEvent(k, row)>>)
      BY <1>1, <2>2 DEF InsertRow
    <3>2. Change([data EXCEPT ![k] = row], <<InsertEvent(k, row)>>)
      BY <1>0, <2>2, InsertChange
    <3>. QED
      BY <3>1, <3>2
  <2>. QED
    BY <2>1, <2>2
<1>2. ASSUME NEW k \in Keys, NEW am, NEW lag \in {0, 1}, Exists(k),
             \A c \in Cols \cap DOMAIN am : am[c] \in Values,
             Step([data EXCEPT ![k] = Updated(k, am)], ModifyEvents(k, am, lag))
      PROVE  \E d, es : Step(d, es) /\ Change(d, es)
  <2>1. Change([data EXCEPT ![k] = Updated(k, am)], ModifyEvents(k, am, lag))
    BY <1>0, <1>2, UpdateChange
  <2>. QED
    BY <1>2, <2>1
<1>3. ASSUME NEW k \in Keys, NEW body \in Bodies \cup {NoBody}, Insert(k, body) \/ Merge(k, body)
      PROVE  (\E d, es : Step(d, es) /\ Change(d, es)) /\ autoKey' \in 0 .. NKeys
  <2>1. autoKey' \in 0 .. NKeys
    BY <1>0, <1>3 DEF Insert, Merge
  <2>2. CASE InsertRow(k, body)
    BY <1>1, <2>1, <2>2
  <2>3. CASE Exists(k) /\ body # NoBody /\ Update(k, body)
    <3>1. \A c \in Cols \cap DOMAIN body : body[c] \in Values
      BY <2>3 DEF Bodies
    <3>2. Step([data EXCEPT ![k] = Updated(k, body)], ModifyEvents(k, body, 0))
      BY <2>3 DEF Update
    <3>. QED
      BY <1>2, <2>1, <2>3, <3>1, <3>2
  <2>. QED
    BY <1>3, <2>2, <2>3 DEF Insert, Merge
<1>4. ASSUME NEW body \in Bodies \cup {NoBody}, InsertAuto(body)
      PROVE  (\E d, es : Step(d, es) /\ Change(d, es)) /\ autoKey' \in 0 .. NKeys
  <2>1. autoKey < NKeys /\ autoKey' = autoKey + 1 /\ InsertRow(autoKey + 1, body)
    BY <1>4 DEF InsertAuto
  <2>2. autoKey + 1 \in Keys /\ autoKey' \in 0 .. NKeys
    BY <1>0, <2>1 DEF Keys
  <2>. QED
    BY <1>1, <2>1, <2>2
<1>5. ASSUME NEW k \in Keys, NEW c \in Cols \cup {0}, NEW v \in Values, Modify(k, c, v)
      PROVE  (\E d, es : Step(d, es) /\ Change(d, es)) /\ autoKey' \in 0 .. NKeys
  <2>. DEFINE am == [x \in {c} |-> v]
  <2>1. autoKey' \in 0 .. NKeys
    BY <1>0, <1>5 DEF Modify
  <2>2. CASE c # 0 /\ Exists(k) /\ data[k].body[c] # v
    <3>1. Step([data EXCEPT ![k] = Updated(k, am)], ModifyEvents(k, am, 1))
      BY <1>5, <2>2 DEF Modify
    <3>2. \A x \in Cols \cap DOMAIN am : am[x] \in Values
      OBVIOUS
    <3>. HIDE DEF am
    <3>. QED
      BY <1>2, <2>1, <2>2, <3>1, <3>2
  <2>3. CASE ~(c # 0 /\ Exists(k) /\ data[k].body[c] # v)
    <3>1. Step(data, <<>>)
      BY <1>5, <2>3 DEF Modify
    <3>. QED
      BY <1>0, <2>1, <3>1, NoChange
  <2>. QED
    BY <2>2, <2>3
<1>6. ASSUME NEW k \in Keys, NEW c \in Cols \cup {0}, NEW calc \in [Values -> Values], Compute(k, c, calc)
      PROVE  (\E d, es : Step(d, es) /\ Change(d, es)) /\ autoKey' \in 0 .. NKeys
  <2>1. CASE c # 0 /\ Exists(k)
    <3>1. Modify(k, c, calc[data[k].body[c]])
      BY <1>6, <2>1 DEF Compute
    <3>2. data[k].body[c] \in Values
      BY <1>0, <2>1, RowFields DEF Bodies
    <3>. QED
      BY <1>5, <3>1, <3>2
  <2>2. CASE ~(c # 0 /\ Exists(k))
    <3>1. Step(data, <<>>) /\ autoKey' = autoKey
      BY <1>6, <2>2 DEF Compute
    <3>. QED
      BY <1>0, <3>1, NoChange
  <2>. QED
    BY <2>1, <2>2
<1>7. ASSUME NEW k \in Keys, NEW C \in SUBSET (Cols \cup {0}), NEW am \in [C -> Values], ModifyMap(k, am)
      PROVE  (\E d, es : Step(d, es) /\ Change(d, es)) /\ autoKey' \in 0 .. NKeys
  <2>1. autoKey' \in 0 .. NKeys
    BY <1>0, <1>7 DEF ModifyMap
  <2>2. CASE Exists(k)
    <3>1. Step([data EXCEPT ![k] = Updated(k, am)], ModifyEvents(k, am, 1))
      BY <1>7, <2>2 DEF ModifyMap
    <3>2. \A x \in Cols \cap DOMAIN am : am[x] \in Values
      OBVIOUS
    <3>. QED
      BY <1>2, <2>1, <2>2, <3>1, <3>2
  <2>3. CASE ~Exists(k)
    <3>1. Step(data, <<>>)
      BY <1>7, <2>3 DEF ModifyMap
    <3>. QED
      BY <1>0, <2>1, <3>1, NoChange
  <2>. QED
    BY <2>2, <2>3
<1>8. ASSUME NEW k \in Keys, Erase(k)
      PROVE  (\E d, es : Step(d, es) /\ Change(d, es)) /\ autoKey' \in 0 .. NKeys
  <2>. DEFINE S == {x \in {k} : Exists(x)}
  <2>1. S \in SUBSET Keys /\ Step(Without(S), RemoveEvents(S)) /\ autoKey' = autoKey
    BY <1>8 DEF Erase
  <2>. HIDE DEF S
  <2>. QED
    BY <1>0, <2>1, RemoveChange
<1>9. ASSUME NEW S \in SUBSET Keys, EraseIf(S)
      PROVE  (\E d, es : Step(d, es) /\ Change(d, es)) /\ autoKey' \in 0 .. NKeys
  <2>1. Step(Without(S), RemoveEvents(S)) /\ autoKey' = autoKey
    BY <1>9 DEF EraseIf
  <2>. QED
    BY <1>0, <2>1, RemoveChange
<1>10. CASE Clear
  <2>1. Step(Without(Keys), <<[type |-> "clear"]>>) /\ autoKey' = autoKey
    BY <1>10 DEF Clear
  <2>. QED
    BY <1>0, <2>1, ClearChange
<1>. QED
  BY <1>3, <1>4, <1>5, <1>6, <1>7, <1>8, <1>9, <1>10 DEF Write

----------------------------------------------------------------------------
(* What pub::forward() and disconnect() do to the lists. *)

LEMMA PlacesCount ==
    ASSUME ins \in Seq(Subs), NEW s
    PROVE  /\ Cardinality(Places(s)) \in Nat
           /\ Contains(ins, s) => Cardinality(Places(s)) # 0
<1>1. Len(ins) \in Nat
  OBVIOUS
<1>2. IsFiniteSet(1 .. Len(ins))
  BY <1>1, FS_Interval
<1>3. Places(s) \in SUBSET (1 .. Len(ins))
  BY DEF Places
<1>4. IsFiniteSet(Places(s)) /\ Cardinality(Places(s)) \in Nat
  BY <1>2, <1>3, FS_Subset, FS_CardinalityType
<1>5. Contains(ins, s) => Places(s) # {}
  BY DEF Contains, Places
<1>. QED
  BY <1>4, <1>5, FS_EmptySet

LEMMA RepeatedType ==
    ASSUME NEW es \in Seq(Events), NEW n \in Nat
    PROVE  /\ Repeated(es, n) \in Seq(Events)
           /\ es # <<>> /\ n # 0 => Repeated(es, n) # <<>>
           /\ es = <<>> => Repeated(es, n) = <<>>
<1>. DEFINE m == Len(es)
            r == n * m
            t == Repeated(es, n)
<1>1. m \in Nat /\ r \in Nat
  OBVIOUS
<1>2. ASSUME NEW i \in 1 .. r PROVE es[(i - 1) \div n + 1] \in Events
  <2>1. n # 0
    BY <1>1
  <2>2. (i - 1) \div n + 1 \in 1 .. m
    BY <1>1, <2>1, DivSteps
  <2>. QED
    BY <2>2
<1>3. t = [i \in 1 .. r |-> es[(i - 1) \div n + 1]]
  BY DEF Repeated
<1>4. es # <<>> /\ n # 0 => r # 0
  <2>. SUFFICES ASSUME es # <<>>, n # 0 PROVE r # 0
    OBVIOUS
  <2>1. m # 0
    OBVIOUS
  <2>. HIDE DEF m
  <2>. QED
    BY <1>1, <2>1
<1>5. es = <<>> => r = 0
  OBVIOUS
<1>. HIDE DEF r, t
<1>6. t \in Seq(Events) /\ Len(t) = r
  BY <1>1, <1>2, <1>3
<1>7. (r # 0 => t # <<>>) /\ (r = 0 => t = <<>>)
  BY <1>1, <1>6
<1>. QED
  BY <1>4, <1>5, <1>6, <1>7 DEF t

\* tidy() drops the slots without a channel and no other.
LEMMA TidiedKeeps ==
    ASSUME ins \in Seq(Subs), NEW s, chan[s] # "gone", Contains(ins, s)
    PROVE  Contains(Tidied, s)
<1>. DEFINE S == {i \in 1 .. Len(ins) : chan[ins[i]] # "gone"}
            n == Cardinality(S)
<1>0. Len(ins) \in Nat /\ IsFiniteSet(1 .. Len(ins))
  BY FS_Interval
<1>1. S \in SUBSET (1 .. Len(ins)) /\ S \in SUBSET Nat
  OBVIOUS
<1>2. PICK x \in S : ins[x] = s
  BY DEF Contains
<1>3. Tidied = [i \in 1 .. n |-> ins[Nth(S, i)]]
  BY DEF Tidied
<1>. HIDE DEF S
<1>4. IsFiniteSet(S) /\ n \in Nat
  BY <1>0, <1>1, FS_Subset, FS_CardinalityType
<1>. DEFINE r == Cardinality(Below(S, x)) + 1
<1>5. r \in 1 .. n /\ Nth(S, r) = x
  BY <1>1, <1>4, NthCounts, RankBound
<1>. HIDE DEF n, r
<1>6. Len(Tidied) = n /\ Tidied[r] = s
  BY <1>2, <1>3, <1>4, <1>5
<1>. QED
  BY <1>5, <1>6 DEF Contains

LEMMA TidiedType ==
    ASSUME ins \in Seq(Subs)
    PROVE  Tidied \in Seq(Subs)
<1>. DEFINE S == {i \in 1 .. Len(ins) : chan[ins[i]] # "gone"}
            n == Cardinality(S)
<1>0. Len(ins) \in Nat /\ IsFiniteSet(1 .. Len(ins))
  BY FS_Interval
<1>1. S \in SUBSET (1 .. Len(ins)) /\ S \in SUBSET Nat
  OBVIOUS
<1>3. Tidied = [i \in 1 .. n |-> ins[Nth(S, i)]]
  BY DEF Tidied
<1>. HIDE DEF S
<1>4. IsFiniteSet(S) /\ n \in Nat
  BY <1>0, <1>1, FS_Subset, FS_CardinalityType
<1>5. \A i \in 1 .. n : Nth(S, i) \in 1 .. Len(ins)
  BY <1>1, <1>4, NthCounts
<1>. HIDE DEF n
<1>6. \A i \in 1 .. n : ins[Nth(S, i)] \in Subs
  BY <1>5
<1>. QED
  BY <1>3, <1>4, <1>6

\* disconnect() of one slot leaves the others listed.
LEMMA DropFirstKeeps ==
    ASSUME NEW l \in Seq(Subs), NEW s
    PROVE  /\ DropFirst(l, s) \in Seq(Subs)
           /\ \A x \in Subs : x # s /\ Contains(l, x) => Contains(DropFirst(l, s), x)
<1>. DEFINE hits == {i \in 1 .. Len(l) : l[i] = s}
<1>1. CASE hits = {}
  BY <1>1 DEF DropFirst
<1>2. CASE hits # {}
  <2>. DEFINE h == CHOOSE i \in hits : \A j \in hits : i <= j
              n == Len(l)
              a == SubSeq(l, 1, h - 1)
              b == SubSeq(l, h + 1, n)
  <2>1. hits \in SUBSET Nat
    OBVIOUS
  <2>2. \E i \in hits : \A j \in hits : i <= j
    <3>. HIDE DEF hits
    <3>. QED
      BY <1>2, <2>1, Smallest
  <2>3. h \in hits
    BY <2>2
  <2>4. DropFirst(l, s) = a \o b
    BY <1>2 DEF DropFirst, RemoveAt
  <2>5. n \in Nat /\ h \in 1 .. n /\ l[h] = s
    BY <2>3
  <2>. HIDE DEF h, hits
  <2>6. a \in Seq(Subs) /\ Len(a) = h - 1 /\ \A i \in 1 .. h - 1 : a[i] = l[i]
    BY <2>5, SubSeqProperties
  <2>7. b \in Seq(Subs) /\ Len(b) = n - h /\ \A i \in 1 .. n - h : b[i] = l[h + i]
    BY <2>5, SubSeqProperties
  <2>. HIDE DEF a, b
  <2>8. /\ a \o b \in Seq(Subs) /\ Len(a \o b) = Len(a) + Len(b)
        /\ \A i \in 1 .. Len(a) : (a \o b)[i] = a[i]
        /\ \A i \in 1 .. Len(b) : (a \o b)[Len(a) + i] = b[i]
    <3>1. a \in Seq(Subs) /\ b \in Seq(Subs)
      BY <2>6, <2>7
    <3>. QED
      BY <3>1
  <2>9. ASSUME NEW x \in Subs, x # s, Contains(l, x) PROVE Contains(a \o b, x)
    <3>1. PICK i \in 1 .. n : l[i] = x
      BY <2>9 DEF Contains
    <3>2. i # h /\ h - 1 \in Nat /\ n - h \in Nat
      BY <2>5, <2>9, <3>1
    <3>3. CASE i < h
      <4>1. i \in 1 .. h - 1 /\ i \in 1 .. Len(a) /\ i \in 1 .. Len(a \o b)
        BY <2>5, <2>6, <2>7, <2>8, <3>1, <3>2, <3>3
      <4>. QED
        BY <2>6, <2>8, <3>1, <4>1 DEF Contains
    <3>4. CASE h < i
      <4>. DEFINE k == i - h
                  z == Len(a) + k
      <4>1. k \in 1 .. n - h /\ k \in 1 .. Len(b) /\ h + k = i /\ z \in 1 .. Len(a \o b)
        BY <2>5, <2>6, <2>7, <2>8, <3>1, <3>2, <3>4
      <4>2. (a \o b)[z] = x
        BY <2>7, <2>8, <3>1, <4>1
      <4>. QED
        BY <4>1, <4>2 DEF Contains
    <3>. QED
      BY <2>5, <3>2, <3>3, <3>4
  <2>. QED
    BY <2>4, <2>8, <2>9
<1>. QED
  BY <1>1, <1>2

LEMMA AppendKeeps ==
    ASSUME NEW l \in Seq(Subs), NEW s \in Subs
    PROVE  /\ Append(l, s) \in Seq(Subs)
           /\ Contains(Append(l, s), s)
           /\ \A x : Contains(l, x) => Contains(Append(l, s), x)
<1>. DEFINE t == Append(l, s)
            n == Len(l)
<1>1. /\ n \in Nat /\ t \in Seq(Subs) /\ Len(t) = n + 1 /\ t[n + 1] = s
      /\ \A i \in 1 .. n : t[i] = l[i]
  OBVIOUS
<1>. HIDE DEF t
<1>2. n + 1 \in 1 .. n + 1 /\ \A i \in 1 .. n : i \in 1 .. n + 1
  BY <1>1
<1>. QED
  BY <1>1, <1>2 DEF Contains, t

\* An event keeps a copy well formed.
LEMMA ApplyType ==
    ASSUME NEW copy \in Copies, NEW e \in Events
    PROVE  Apply(copy, e) \in Copies
<1>1. EmptyCopy \in Copies
  BY DEF EmptyCopy, Copies
<1>2. CASE e \in [type : {"insert"}, key : Keys, body : Bodies, gen : Nat]
  <2>1. e.type = "insert" /\ e.key \in Keys /\ e.body \in Bodies
    BY <1>2
  <2>2. Apply(copy, e) = [copy EXCEPT ![e.key] = e.body]
    BY <2>1 DEF Apply
  <2>. QED
    BY <2>1, <2>2 DEF Copies
<1>3. CASE e \in [type : {"modify"}, key : Keys, col : Cols, val : Values, gen : Nat]
  <2>1. e.type = "modify" /\ e.key \in Keys /\ e.col \in Cols /\ e.val \in Values
    BY <1>3
  <2>2. Apply(copy, e) = IF copy[e.key] = NoBody THEN copy ELSE [copy EXCEPT ![e.key][e.col] = e.val]
    BY <2>1 DEF Apply
  <2>3. copy[e.key] # NoBody => copy[e.key] \in Bodies
    BY <2>1 DEF Copies
  <2>4. copy[e.key] # NoBody => [copy[e.key] EXCEPT ![e.col] = e.val] \in Bodies
    BY <2>1, <2>3 DEF Bodies
  <2>. QED
    BY <2>1, <2>2, <2>4 DEF Copies
<1>4. CASE e \in [type : {"remove"}, key : Keys]
  <2>1. e.type = "remove" /\ e.key \in Keys
    BY <1>4
  <2>2. Apply(copy, e) = [copy EXCEPT ![e.key] = NoBody]
    BY <2>1 DEF Apply
  <2>. QED
    BY <2>1, <2>2 DEF Copies
<1>5. CASE e \in [type : {"clear"}]
  <2>1. e.type = "clear"
    BY <1>5
  <2>. QED
    BY <1>1, <2>1 DEF Apply
<1>6. CASE e \in [type : {"trx"}, begin : BOOLEAN]
  <2>1. e.type = "trx"
    BY <1>6
  <2>2. Apply(copy, e) = IF e.begin THEN EmptyCopy ELSE copy
    BY <2>1 DEF Apply
  <2>. QED
    BY <1>1, <2>2
<1>. QED
  BY <1>2, <1>3, <1>4, <1>5, <1>6 DEF Events

----------------------------------------------------------------------------
(* The invariant holds in every state. *)

\* Pending events followed by the copies of a change lead to the new rows.
LEMMA FollowsChange ==
    ASSUME NEW d, NEW es, Change(d, es), NEW n \in Nat \ {0},
           NEW old \in Seq(Events), NEW copy, Replayed(copy, old) = Body(data)
    PROVE  Replayed(copy, old \o Repeated(es, n)) = Body(d)
<1>1. es \in Seq(Events) /\ Len(es) \in Nat /\ Repeated(es, n) \in Seq(Events)
  <2>1. es \in Seq(Events)
    BY DEF Change
  <2>2. Len(es) \in Nat
    BY <2>1
  <2>3. Repeated(es, n) \in Seq(Events)
    BY <2>1, RepeatedType
  <2>. QED
    BY <2>1, <2>2, <2>3
<1>2. PICK c : /\ c[0] = Body(data)
               /\ c[Len(es)] = Body(d)
               /\ \A i \in 1 .. Len(es) :
                    c[i] = Apply(c[i - 1], es[i]) /\ Apply(c[i], es[i]) = c[i]
  BY DEF Change, Leads
<1>3. Replayed(c[0], Repeated(es, n)) = c[Len(es)]
  BY <1>1, <1>2, ReplayRepeated
<1>4. Replayed(copy, old \o Repeated(es, n)) = Replayed(Replayed(copy, old), Repeated(es, n))
  BY <1>1, ReplayConcat
<1>. QED
  BY <1>2, <1>3, <1>4

\* An operation on the rows.
LEMMA StepPreserves ==
    ASSUME TableInv, NEW d, NEW es, Step(d, es), Change(d, es), autoKey' \in 0 .. NKeys
    PROVE  TableInv'
<1>0. /\ ins \in Seq(Subs) /\ inbox \in [Subs -> Seq(Events)] /\ synced \subseteq Subs
      /\ chan \in [Subs -> {"open", "closed", "gone"}] /\ replica \in [Subs -> Copies]
  BY DEF TableInv, Types
<1>1. /\ data' = d /\ inbox' = [s \in Subs |-> inbox[s] \o Forwarded(s, es)]
      /\ ins' = (IF es = <<>> THEN ins ELSE Tidied)
      /\ chan' = chan /\ replica' = replica /\ synced' = synced
  BY DEF Step, Forward
<1>2. es \in Seq(Events) /\ RowType(d)
  BY DEF Change
<1>3. ASSUME NEW s \in Subs PROVE Forwarded(s, es) \in Seq(Events)
  <2>1. Cardinality(Places(s)) \in Nat
    BY <1>0, PlacesCount
  <2>2. Repeated(es, Cardinality(Places(s))) \in Seq(Events)
    BY <1>2, <2>1, RepeatedType
  <2>. QED
    BY <2>2 DEF Forwarded
<1>4. inbox' \in [Subs -> Seq(Events)]
  BY <1>0, <1>1, <1>3
<1>5. ins' \in Seq(Subs)
  BY <1>0, <1>1, TidiedType
<1>6. Types'
  BY <1>0, <1>1, <1>2, <1>4, <1>5 DEF Types, RowType
<1>7. SyncedListed'
  <2>. SUFFICES ASSUME NEW s \in synced, chan[s] # "gone" PROVE Contains(ins', s)
    BY <1>1 DEF SyncedListed
  <2>1. Contains(ins, s)
    BY DEF TableInv, SyncedListed
  <2>2. Contains(Tidied, s)
    BY <1>0, <2>1, TidiedKeeps
  <2>. QED
    BY <1>1, <2>1, <2>2
<1>8. ReplicaFollows'
  <2>. SUFFICES ASSUME NEW s \in synced, chan[s] = "open"
                PROVE  Replayed(replica[s], inbox'[s]) = Body(d)
    BY <1>1 DEF ReplicaFollows
  <2>. DEFINE n == Cardinality(Places(s))
  <2>1. s \in Subs /\ inbox[s] \in Seq(Events)
    BY <1>0
  <2>2. Contains(ins, s)
    BY DEF TableInv, SyncedListed
  <2>3. n \in Nat \ {0}
    BY <1>0, <2>2, PlacesCount
  <2>4. inbox'[s] = inbox[s] \o Repeated(es, n)
    BY <1>1, <2>1 DEF Forwarded
  <2>5. Replayed(replica[s], inbox[s]) = Body(data)
    BY DEF TableInv, ReplicaFollows
  <2>. HIDE DEF n
  <2>6. Replayed(replica[s], inbox[s] \o Repeated(es, n)) = Body(d)
    BY <2>1, <2>3, <2>5, FollowsChange
  <2>. QED
    BY <2>4, <2>6
<1>. QED
  BY <1>6, <1>7, <1>8 DEF TableInv

LEMMA ConnectPreserves ==
    ASSUME TableInv, NEW s \in Subs, Connect(s)
    PROVE  TableInv'
<1>0. /\ ins \in Seq(Subs) /\ inbox \in [Subs -> Seq(Events)] /\ synced \subseteq Subs
      /\ chan \in [Subs -> {"open", "closed", "gone"}] /\ RowType(data)
  BY DEF TableInv, Types
<1>1. /\ ins' = Append(ins, s) /\ synced' = synced \cup {s}
      /\ inbox' = [inbox EXCEPT ![s] = IF chan[s] = "open" THEN inbox[s] \o Charge ELSE inbox[s]]
      /\ data' = data /\ autoKey' = autoKey /\ chan' = chan /\ replica' = replica
  BY DEF Connect
<1>2. Charge \in Seq(Events) /\ \A copy : Replayed(copy, Charge) = Body(data)
  BY <1>0, ChargeLoads
<1>3. inbox' \in [Subs -> Seq(Events)]
  <2>1. inbox[s] \in Seq(Events)
    BY <1>0
  <2>2. inbox[s] \o Charge \in Seq(Events)
    BY <1>2, <2>1
  <2>. QED
    BY <1>0, <1>1, <2>1, <2>2
<1>4. ins' \in Seq(Subs)
  BY <1>0, <1>1, AppendKeeps
<1>5. Types'
  BY <1>0, <1>1, <1>3, <1>4 DEF TableInv, Types, RowType
<1>6. SyncedListed'
  <2>1. \A x \in synced : chan[x] # "gone" => Contains(ins, x)
    BY DEF TableInv, SyncedListed
  <2>2. \A x \in synced' : chan[x] # "gone" => Contains(Append(ins, s), x)
    BY <1>0, <1>1, <2>1, AppendKeeps
  <2>. QED
    BY <1>1, <2>2 DEF SyncedListed
<1>7. ReplicaFollows'
  <2>. SUFFICES ASSUME NEW x \in synced', chan[x] = "open"
                PROVE  Replayed(replica[x], inbox'[x]) = Body(data)
    BY <1>1 DEF ReplicaFollows
  <2>1. CASE x = s
    <3>1. inbox[s] \in Seq(Events) /\ inbox'[s] = inbox[s] \o Charge
      BY <1>0, <1>1, <2>1
    <3>2. Replayed(replica[s], inbox[s] \o Charge) = Replayed(Replayed(replica[s], inbox[s]), Charge)
      BY <1>2, <3>1, ReplayConcat
    <3>. QED
      BY <1>2, <2>1, <3>1, <3>2
  <2>2. CASE x # s
    <3>1. x \in synced /\ inbox'[x] = inbox[x]
      BY <1>0, <1>1, <2>2
    <3>. QED
      BY <3>1 DEF TableInv, ReplicaFollows
  <2>. QED
    BY <2>1, <2>2
<1>. QED
  BY <1>5, <1>6, <1>7 DEF TableInv

\* Connections without the initial load: nothing but the lists changes.
LEMMA ListingPreserves ==
    ASSUME TableInv, NEW s \in Subs,
           ins' = ins \/ ins' = Append(ins, s),
           UNCHANGED <<data, autoKey, chan, inbox, replica, synced>>
    PROVE  TableInv'
<1>1. ins \in Seq(Subs) /\ \A x \in synced : chan[x] # "gone" => Contains(ins, x)
  BY DEF TableInv, Types, SyncedListed
<1>2. ins' \in Seq(Subs) /\ \A x \in synced : chan[x] # "gone" => Contains(ins', x)
  <2>1. CASE ins' = ins
    BY <1>1, <2>1
  <2>2. CASE ins' = Append(ins, s)
    BY <1>1, <2>2, AppendKeeps
  <2>. QED
    BY <2>1, <2>2
<1>3. Types'
  BY <1>2 DEF TableInv, Types, RowType
<1>4. SyncedListed'
  BY <1>2 DEF SyncedListed
<1>5. ReplicaFollows'
  BY DEF TableInv, ReplicaFollows
<1>. QED
  BY <1>3, <1>4, <1>5 DEF TableInv

LEMMA DisconnectPreserves ==
    ASSUME TableInv, NEW s \in Subs, Disconnect(s)
    PROVE  TableInv'
<1>1. /\ ins \in Seq(Subs) /\ synced \subseteq Subs
      /\ \A x \in synced : chan[x] # "gone" => Contains(ins, x)
  BY DEF TableInv, Types, SyncedListed
<1>2. /\ ins' = DropFirst(ins, s)
      /\ synced' = (IF Contains(ins', s) THEN synced ELSE synced \ {s})
      /\ UNCHANGED <<data, autoKey, chan, inbox, replica>>
  BY DEF Disconnect
<1>3. /\ ins' \in Seq(Subs)
      /\ \A x \in Subs : x # s /\ Contains(ins, x) => Contains(ins', x)
  BY <1>1, <1>2, DropFirstKeeps
<1>4. synced' \subseteq synced
  BY <1>2
<1>5. Types'
  BY <1>1, <1>2, <1>3, <1>4 DEF TableInv, Types, RowType
<1>6. SyncedListed'
  <2>. SUFFICES ASSUME NEW x \in synced', chan[x] # "gone" PROVE Contains(ins', x)
    BY <1>2 DEF SyncedListed
  <2>1. CASE x = s
    BY <1>2, <2>1
  <2>2. CASE x # s
    BY <1>1, <1>3, <1>4, <2>2
  <2>. QED
    BY <2>1, <2>2
<1>7. ReplicaFollows'
  BY <1>2, <1>4 DEF TableInv, ReplicaFollows
<1>. QED
  BY <1>5, <1>6, <1>7 DEF TableInv

LEMMA ReceivePreserves ==
    ASSUME TableInv, NEW s \in Subs, Receive(s)
    PROVE  TableInv'
<1>0. inbox \in [Subs -> Seq(Events)] /\ replica \in [Subs -> Copies] /\ synced \subseteq Subs
  BY DEF TableInv, Types
<1>1. /\ inbox[s] # <<>>
      /\ replica' = [replica EXCEPT ![s] = Apply(replica[s], Head(inbox[s]))]
      /\ inbox' = [inbox EXCEPT ![s] = Tail(inbox[s])]
      /\ UNCHANGED <<data, autoKey, ins, chan, synced>>
  BY DEF Receive, lists
<1>2. inbox[s] \in Seq(Events) /\ Head(inbox[s]) \in Events /\ Tail(inbox[s]) \in Seq(Events)
  <2>1. inbox[s] \in Seq(Events)
    BY <1>0
  <2>. QED
    BY <1>1, <2>1
<1>3. Apply(replica[s], Head(inbox[s])) \in Copies
  BY <1>0, <1>2, ApplyType
<1>4. Types'
  BY <1>0, <1>1, <1>2, <1>3 DEF TableInv, Types, RowType
<1>5. SyncedListed'
  BY <1>1 DEF TableInv, SyncedListed
<1>6. ReplicaFollows'
  <2>. SUFFICES ASSUME NEW x \in synced, chan[x] = "open"
                PROVE  Replayed(replica'[x], inbox'[x]) = Body(data)
    BY <1>1 DEF ReplicaFollows
  <2>1. x \in Subs /\ Replayed(replica[x], inbox[x]) = Body(data)
    BY <1>0 DEF TableInv, ReplicaFollows
  <2>2. CASE x = s
    <3>1. Replayed(replica[s], inbox[s]) = Replayed(Apply(replica[s], Head(inbox[s])), Tail(inbox[s]))
      BY <1>1, <1>2, ReplayHead
    <3>2. replica'[s] = Apply(replica[s], Head(inbox[s])) /\ inbox'[s] = Tail(inbox[s])
      BY <1>0, <1>1
    <3>. QED
      BY <2>1, <2>2, <3>1, <3>2
  <2>3. CASE x # s
    <3>1. replica'[x] = replica[x] /\ inbox'[x] = inbox[x]
      BY <1>0, <1>1, <2>1, <2>3
    <3>. QED
      BY <2>1, <3>1
  <2>. QED
    BY <2>2, <2>3
<1>. QED
  BY <1>4, <1>5, <1>6 DEF TableInv

LEMMA ClosePreserves ==
    ASSUME TableInv, NEW s \in Subs, CloseChannel(s)
    PROVE  TableInv'
<1>0. /\ inbox \in [Subs -> Seq(Events)] /\ chan \in [Subs -> {"open", "closed", "gone"}]
      /\ synced \subseteq Subs
  BY DEF TableInv, Types
<1>1. /\ chan[s] = "open" /\ chan' = [chan EXCEPT ![s] = "closed"]
      /\ inbox' = [inbox EXCEPT ![s] = <<>>]
      /\ UNCHANGED <<data, autoKey, ins, replica, synced>>
  BY DEF CloseChannel, lists
<1>2. \A x \in Subs : IF x = s THEN chan'[x] = "closed" ELSE chan'[x] = chan[x] /\ inbox'[x] = inbox[x]
  BY <1>0, <1>1
<1>3. Types'
  <2>1. <<>> \in Seq(Events)
    OBVIOUS
  <2>. QED
    BY <1>0, <1>1, <2>1 DEF TableInv, Types, RowType
<1>4. SyncedListed'
  <2>. SUFFICES ASSUME NEW x \in synced, chan'[x] # "gone" PROVE Contains(ins, x)
    BY <1>1 DEF SyncedListed
  <2>1. chan[x] # "gone"
    BY <1>0, <1>1, <1>2
  <2>. QED
    BY <2>1 DEF TableInv, SyncedListed
<1>5. ReplicaFollows'
  <2>. SUFFICES ASSUME NEW x \in synced, chan'[x] = "open"
                PROVE  Replayed(replica[x], inbox'[x]) = Body(data)
    BY <1>1 DEF ReplicaFollows
  <2>1. chan[x] = "open" /\ inbox'[x] = inbox[x]
    BY <1>0, <1>2
  <2>. QED
    BY <2>1 DEF TableInv, ReplicaFollows
<1>. QED
  BY <1>3, <1>4, <1>5 DEF TableInv

LEMMA DestroyPreserves ==
    ASSUME TableInv, NEW s \in Subs, DestroyChannel(s)
    PROVE  TableInv'
<1>0. chan \in [Subs -> {"open", "closed", "gone"}] /\ synced \subseteq Subs
  BY DEF TableInv, Types
<1>1. /\ chan' = [chan EXCEPT ![s] = "gone"]
      /\ UNCHANGED <<data, autoKey, ins, inbox, replica, synced>>
  BY DEF DestroyChannel, lists
<1>2. \A x \in Subs : IF x = s THEN chan'[x] = "gone" ELSE chan'[x] = chan[x]
  BY <1>0, <1>1
<1>3. Types'
  BY <1>0, <1>1 DEF TableInv, Types, RowType
<1>4. SyncedListed'
  BY <1>0, <1>1, <1>2 DEF TableInv, SyncedListed
<1>5. ReplicaFollows'
  <2>. SUFFICES ASSUME NEW x \in synced, chan'[x] = "open"
                PROVE  Replayed(replica[x], inbox[x]) = Body(data)
    BY <1>1 DEF ReplicaFollows
  <2>1. chan[x] = "open"
    BY <1>0, <1>2
  <2>. QED
    BY <2>1 DEF TableInv, ReplicaFollows
<1>. QED
  BY <1>3, <1>4, <1>5 DEF TableInv

LEMMA InitInv == Init => TableInv
<1>. SUFFICES ASSUME Init PROVE TableInv
  OBVIOUS
<1>1. RowType(data) /\ replica \in [Subs -> Copies]
  BY DEF Init, RowType, EmptyCopy, Copies
<1>2. <<>> \in Seq(Events) /\ <<>> \in Seq(Subs) /\ 0 \in 0 .. NKeys
  BY TableAssumption
<1>3. Types
  BY <1>1, <1>2 DEF Init, Types
<1>. QED
  BY <1>3 DEF Init, TableInv, SyncedListed, ReplicaFollows

LEMMA NextInv == TableInv /\ [Next]_vars => TableInv'
<1>. SUFFICES ASSUME TableInv, [Next]_vars PROVE TableInv'
  OBVIOUS
<1>1. CASE Write
  <2>1. Types
    BY DEF TableInv
  <2>2. PICK d, es : Step(d, es) /\ Change(d, es)
    BY <1>1, <2>1, WriteForm
  <2>3. autoKey' \in 0 .. NKeys
    BY <1>1, <2>1, WriteForm
  <2>. QED
    BY <2>2, <2>3, StepPreserves
<1>2. ASSUME NEW s \in Subs, Connect(s) PROVE TableInv'
  BY <1>2, ConnectPreserves
<1>3. ASSUME NEW s \in Subs, Disconnect(s) PROVE TableInv'
  BY <1>3, DisconnectPreserves
<1>4. ASSUME NEW s \in Subs, ConnectOnly(s) \/ ConnectInsert(s) PROVE TableInv'
  <2>1. ins' = Append(ins, s) /\ UNCHANGED <<data, autoKey, chan, inbox, replica, synced>>
    BY <1>4 DEF ConnectOnly, ConnectInsert
  <2>. QED
    BY <2>1, ListingPreserves
<1>5. ASSUME NEW s \in Subs, ConnectModify(s) \/ ConnectRemove(s) \/ ConnectClear(s) PROVE TableInv'
  <2>1. ins' = ins /\ UNCHANGED <<data, autoKey, chan, inbox, replica, synced>>
    BY <1>5 DEF ConnectModify, ConnectRemove, ConnectClear
  <2>. QED
    BY <2>1, ListingPreserves
<1>6. ASSUME NEW s \in Subs, Receive(s) PROVE TableInv'
  BY <1>6, ReceivePreserves
<1>7. ASSUME NEW s \in Subs, CloseChannel(s) PROVE TableInv'
  BY <1>7, ClosePreserves
<1>8. ASSUME NEW s \in Subs, DestroyChannel(s) PROVE TableInv'
  BY <1>8, DestroyPreserves
<1>9. CASE UNCHANGED vars
  BY <1>9 DEF vars, lists, TableInv, Types, RowType, SyncedListed, ReplicaFollows
<1>. QED
  BY <1>1, <1>2, <1>3, <1>4, <1>5, <1>6, <1>7, <1>8, <1>9 DEF Next

LEMMA TableInvHolds == Spec => []TableInv
BY InitInv, NextInv, PTL DEF Spec

\* A subscriber connected with connect() and still listed has, once it has taken
\* the events that wait in its strand, exactly the rows of the table: table.cpp
\* publishes every change, in order, and pub::forward() hands each of them to a
\* listed slot as often as it is listed, which does no harm.
THEOREM CopiesFollow == Spec => []ReplicaFollows
<1>1. TableInv => ReplicaFollows
  BY DEF TableInv
<1>. QED
  BY <1>1, TableInvHolds, PTL

\* Any other step leaves the rows alone.
LEMMA OtherSteps ==
    ASSUME [Next]_vars
    PROVE  Write \/ data' = data
BY DEF Next, vars, lists, Connect, Disconnect, ConnectOnly, ConnectInsert, ConnectModify,
       ConnectRemove, ConnectClear, Receive, CloseChannel, DestroyChannel

\* No row changes silently: in the very step that changes a body every slot that
\* is in slots_insert_ and whose channel is open is handed an event.
THEOREM ChangesPublished == Spec => NoSilentChange
<1>. DEFINE Heard == Body(data') # Body(data) =>
                \A s \in Subs : Contains(ins, s) /\ chan[s] = "open" => inbox'[s] # inbox[s]
<1>1. ASSUME TableInv, [Next]_vars PROVE [Heard]_vars
  <2>. SUFFICES ASSUME Body(data') # Body(data), NEW s \in Subs,
                       Contains(ins, s), chan[s] = "open"
                PROVE  inbox'[s] # inbox[s]
    OBVIOUS
  <2>1. Types /\ ins \in Seq(Subs) /\ inbox[s] \in Seq(Events)
    BY <1>1 DEF TableInv, Types
  <2>2. Write
    BY <1>1, OtherSteps
  <2>3. PICK d, es : Step(d, es) /\ Change(d, es)
    BY <2>1, <2>2, WriteForm
  <2>. DEFINE n == Cardinality(Places(s))
              t == Repeated(es, n)
  <2>4. data' = d /\ es \in Seq(Events) /\ inbox'[s] = inbox[s] \o t
    BY <2>3 DEF Step, Forward, Forwarded, Change
  <2>5. es # <<>>
    <3>. SUFFICES ASSUME es = <<>> PROVE Body(d) = Body(data)
      BY <2>4
    <3>1. Len(es) = 0
      OBVIOUS
    <3>2. Leads(d, es)
      BY <2>3 DEF Change
    <3>. QED
      BY <3>1, <3>2 DEF Leads
  <2>6. n \in Nat /\ n # 0
    BY <2>1, PlacesCount
  <2>. HIDE DEF n
  <2>7. t \in Seq(Events) /\ t # <<>>
    BY <2>4, <2>5, <2>6, RepeatedType
  <2>. HIDE DEF t
  <2>8. Len(t) # 0 /\ Len(t) \in Nat /\ Len(inbox[s]) \in Nat
        /\ Len(inbox[s] \o t) = Len(inbox[s]) + Len(t)
    BY <2>1, <2>7
  <2>9. Len(inbox[s] \o t) # Len(inbox[s])
    BY <2>8
  <2>. QED
    BY <2>4, <2>9
<1>. HIDE DEF Heard
<1>2. Spec => [][Heard]_vars
  BY <1>1, TableInvHolds, PTL DEF Spec
<1>. QED
  BY <1>2 DEF NoSilentChange, Heard
============================================================================

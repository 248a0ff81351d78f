---------------------------- MODULE FormDataProofs ----------------------------
(***************************************************************************)
(* Facts about sequences that the proofs about RequestParser need: an      *)
(* induction over numbers, and what FlattenSeq returns. And what the       *)
(* operators of FormData return: the pieces of a text, the parameters of a *)
(* query, an escaped text without its escapes, and the items of a          *)
(* multipart body, of any length.                                          *)
(***************************************************************************)
EXTENDS FormData, FiniteSetTheorems, TLAPS

-----------------------------------------------------------------------------
(* Sequences *)

\* The empty sequence is one of any set.
LEMMA EmptySeq == \A X : <<>> \in Seq(X) /\ Len(<<>>) = 0
OBVIOUS

\* Sequences joined.
LEMMA ConcatType ==
    ASSUME NEW X, NEW s \in Seq(X), NEW t \in Seq(X)
    PROVE  s \o t \in Seq(X) /\ Len(s \o t) = Len(s) + Len(t)
OBVIOUS

\* A sequence of one.
LEMMA SingleType ==
    ASSUME NEW X, NEW x \in X
    PROVE  <<x>> \in Seq(X) /\ Len(<<x>>) = 1 /\ <<x>>[1] = x
OBVIOUS

\* A sequence over a set is one over a larger set.
LEMMA SubType ==
    ASSUME NEW X, NEW Y, X \subseteq Y, NEW s \in Seq(X)
    PROVE  s \in Seq(Y)
OBVIOUS

\* A pair is a sequence.
LEMMA PairType ==
    ASSUME NEW X, NEW p \in X \X X
    PROVE  p \in Seq(X)
<1>1. \A a, b \in X : <<a, b>> \in Seq(X)
    OBVIOUS
<1>2. PICK a \in X, b \in X : p = <<a, b>>
    OBVIOUS
<1> QED
    BY <1>1, <1>2, Zenon

\* A function on 1..n is a sequence.
LEMMA FunctionType ==
    ASSUME NEW X, NEW n \in Nat, NEW s, s = [i \in 1..n |-> s[i]], \A i \in 1..n : s[i] \in X
    PROVE  s \in Seq(X)
OBVIOUS

\* The domain and the length of a sequence.
LEMMA SeqDomain ==
    ASSUME NEW X, NEW s \in Seq(X)
    PROVE  Len(s) \in Nat /\ DOMAIN s = 1..Len(s)
OBVIOUS

\* Sequences alike are one.
LEMMA SameSeq ==
    ASSUME NEW X, NEW s \in Seq(X), NEW t \in Seq(X), Len(s) = Len(t),
           \A i \in 1..Len(s) : s[i] = t[i]
    PROVE  s = t
OBVIOUS

\* The second and the third of a short sequence, and the first of any.
LEMMA FewAppended ==
    ASSUME NEW X, NEW a \in X
    PROVE  /\ Append(<<>>, a) = <<a>>
           /\ \A b \in X : Append(<<a>>, b) = <<a, b>>
           /\ \A b \in X, c \in X : Append(<<a, b>>, c) = <<a, b, c>>
           /\ \A s \in Seq(X) : s # <<>> => SubSeq(s, 1, 1) = <<s[1]>>
<1>1. ASSUME NEW b \in X PROVE Append(<<a>>, b) = <<a, b>>
    <2> DEFINE s == Append(<<a>>, b)
               t == <<a, b>>
    <2>1. /\ s \in Seq(X) /\ Len(s) = 2 /\ s[1] = a /\ s[2] = b
          /\ t \in Seq(X) /\ Len(t) = 2 /\ t[1] = a /\ t[2] = b
        OBVIOUS
    <2>2. \A i \in 1..2 : i = 1 \/ i = 2
        OBVIOUS
    <2> HIDE DEF s, t
    <2>3. s = t
        BY <2>1, <2>2, SameSeq, Zenon
    <2> QED
        BY <2>3 DEF s, t
<1>2. ASSUME NEW b \in X, NEW c \in X PROVE Append(<<a, b>>, c) = <<a, b, c>>
    <2> DEFINE s == Append(<<a, b>>, c)
               t == <<a, b, c>>
    <2>1. s \in Seq(X) /\ Len(s) = 3 /\ s[1] = a /\ s[2] = b /\ s[3] = c
        OBVIOUS
    <2>2. t \in Seq(X) /\ Len(t) = 3 /\ t[1] = a /\ t[2] = b /\ t[3] = c
        OBVIOUS
    <2>3. \A i \in 1..3 : i = 1 \/ i = 2 \/ i = 3
        OBVIOUS
    <2> HIDE DEF s, t
    <2>4. s = t
        BY <2>1, <2>2, <2>3, SameSeq, Zenon
    <2> QED
        BY <2>4 DEF s, t
<1>3. ASSUME NEW s \in Seq(X), s # <<>> PROVE SubSeq(s, 1, 1) = <<s[1]>>
    <2> DEFINE t == SubSeq(s, 1, 1)
               u == <<s[1]>>
    <2>1. /\ t \in Seq(X) /\ Len(t) = 1 /\ t[1] = s[1]
          /\ u \in Seq(X) /\ Len(u) = 1 /\ u[1] = s[1]
        BY <1>3
    <2>2. \A i \in 1..1 : i = 1
        OBVIOUS
    <2> HIDE DEF t, u
    <2>3. t = u
        BY <2>1, <2>2, SameSeq, Zenon
    <2> QED
        BY <2>3 DEF t, u
<1> QED
    BY <1>1, <1>2, <1>3

-----------------------------------------------------------------------------
(* Induction *)

\* A set that has 0, and with each number below n the next one, has n. (The numbers
\* up to n that are in the set would otherwise be mapped one to one, by adding one,
\* into those of them that are not 0.)
LEMMA Induction ==
    ASSUME NEW S, NEW n \in Nat, 0 \in S, \A k \in 0..(n - 1) : k \in S => k + 1 \in S
    PROVE  n \in S
<1> SUFFICES ASSUME n \notin S PROVE FALSE
    OBVIOUS
<1> DEFINE A == S \cap (0..n)
           B == A \ {0}
           f == [k \in A |-> k + 1]
<1>1. IsFiniteSet(0..n)
    BY FS_Interval
<1>2. IsFiniteSet(A)
    BY <1>1, FS_Subset
<1>3. 0 \in A
    OBVIOUS
<1>4. IsFiniteSet(B) /\ Cardinality(B) = Cardinality(A) - 1
    BY <1>2, <1>3, FS_RemoveElement
<1>5. Cardinality(B) < Cardinality(A)
    BY <1>2, <1>4, FS_CardinalityType
<1>6. f \in [A -> B]
    OBVIOUS
<1>7. \E x, y \in A : x # y /\ f[x] = f[y]
    <2> HIDE DEF A, B, f
    <2> QED
        BY <1>2, <1>4, <1>5, <1>6, FS_PigeonHole
<1> QED
    BY <1>7

\* A set of numbers that is not empty has a least one.
LEMMA Least ==
    ASSUME NEW T, T \subseteq Nat, T # {}
    PROVE  \E x \in T : \A y \in T : x <= y
<1> SUFFICES ASSUME \A x \in T : \E y \in T : y < x
             PROVE  FALSE
    OBVIOUS
<1> DEFINE S == {n \in Nat : \A x \in T : n <= x}
<1>1. 0 \in S
    OBVIOUS
<1>2. \A k \in Nat : k \in S => k + 1 \in S
    OBVIOUS
<1>3. PICK n : n \in T
    OBVIOUS
<1>4. n + 1 \in S
    <2> HIDE DEF S
    <2> QED
        BY <1>1, <1>2, <1>3, Induction
<1> QED
    BY <1>3, <1>4

-----------------------------------------------------------------------------
(* FlattenSeq *)

\* Kept folded, so that the provers do not look into it.
Cat(s, t) == s \o t

\* The function by which FlattenSeq is defined, up to n.
Flattens(f, ss, n) ==
    f = [i \in 1..n |-> IF i = 1 THEN ss[i] ELSE Cat(f[i - 1], ss[i])]

First(ss, n) == [i \in 1..n |-> ss[i]]

\* The function, step by step.
LEMMA FlattensSteps ==
    ASSUME NEW ss, NEW n \in Nat, NEW f, Flattens(f, ss, n)
    PROVE  /\ n > 0 => f[1] = ss[1]
           /\ \A i \in 2..n : f[i] = Cat(f[i - 1], ss[i])
<1>1. \A i \in 1..n : f[i] = IF i = 1 THEN ss[i] ELSE Cat(f[i - 1], ss[i])
    BY DEF Flattens
<1> QED
    BY <1>1

\* And from its steps, the function.
LEMMA StepsFlatten ==
    ASSUME NEW ss, NEW n \in Nat, NEW f,
           n > 0 => f[1] = ss[1],
           \A i \in 2..n : f[i] = Cat(f[i - 1], ss[i])
    PROVE  Flattens([i \in 1..n |-> f[i]], ss, n)
<1> DEFINE g == [i \in 1..n |-> f[i]]
<1>1. ASSUME NEW i \in 1..n
      PROVE  f[i] = IF i = 1 THEN ss[i] ELSE Cat(g[i - 1], ss[i])
    <2>1. CASE i = 1
        BY <2>1
    <2>2. CASE i # 1
        <3>1. i \in 2..n /\ i - 1 \in 1..n
            BY <2>2
        <3> QED
            BY <2>2, <3>1
    <2> QED
        BY <2>1, <2>2
<1>2. g = [i \in 1..n |-> IF i = 1 THEN ss[i] ELSE Cat(g[i - 1], ss[i])]
    BY <1>1, Zenon
<1> QED
    BY <1>2 DEF Flattens

\* There is such a function, up to any length.
LEMMA FlattensExists ==
    ASSUME NEW ss, NEW n \in Nat
    PROVE  \E f : Flattens(f, ss, n)
<1> DEFINE S == {k \in Nat : \E f : Flattens(f, ss, k)}
<1>1. 0 \in S
    <2> DEFINE g == [i \in 1..0 |-> ss[i]]
    <2>1. Flattens(g, ss, 0)
        BY DEF Flattens
    <2> HIDE DEF g
    <2> QED
        BY <2>1
<1>2. ASSUME NEW k \in Nat, k \in S PROVE k + 1 \in S
    <2>1. PICK f : Flattens(f, ss, k)
        BY <1>2
    <2> DEFINE g == [i \in 1..(k + 1) |-> IF i <= k THEN f[i]
                                          ELSE IF i = 1 THEN ss[i] ELSE Cat(f[k], ss[i])]
    <2>2. \A i \in 1..k : g[i] = f[i]
        OBVIOUS
    <2>3. g[1] = ss[1]
        BY <2>1, FlattensSteps
    <2>4. \A i \in 2..k : g[i] = Cat(g[i - 1], ss[i])
        <3>1. \A i \in 2..k : f[i] = Cat(f[i - 1], ss[i])
            BY <2>1, FlattensSteps
        <3> HIDE DEF g
        <3> QED
            BY <2>2, <3>1
    <2>5. k # 0 => g[k + 1] = Cat(g[k], ss[k + 1])
        OBVIOUS
    <2>6. \A i \in 2..(k + 1) : g[i] = Cat(g[i - 1], ss[i])
        <3> HIDE DEF g
        <3> QED
            BY <2>4, <2>5
    <2> HIDE DEF g
    <2>7. Flattens([i \in 1..(k + 1) |-> g[i]], ss, k + 1)
        BY <2>3, <2>6, StepsFlatten
    <2> QED
        BY <2>7
<1>3. n \in S
    <2> HIDE DEF S
    <2> QED
        BY <1>1, <1>2, Induction
<1> QED
    BY <1>3

\* Two of them agree where both are defined.
LEMMA FlattensOnce ==
    ASSUME NEW ss, NEW n \in Nat, NEW f, NEW g, Flattens(f, ss, n), Flattens(g, ss, n),
           NEW m \in 1..n
    PROVE  f[m] = g[m]
<1> DEFINE S == {k \in Nat : k \in 1..n => f[k] = g[k]}
<1>1. 0 \in S
    OBVIOUS
<1>2. ASSUME NEW k \in Nat, k \in S PROVE k + 1 \in S
    <2>1. CASE k = 0
        BY <2>1, FlattensSteps
    <2>2. CASE k # 0 /\ k < n
        <3>1. f[k] = g[k]
            BY <1>2, <2>2
        <3>2. f[k + 1] = Cat(f[k], ss[k + 1]) /\ g[k + 1] = Cat(g[k], ss[k + 1])
            <4>1. k + 1 \in 2..n /\ (k + 1) - 1 = k
                BY <2>2
            <4> QED
                BY <4>1, FlattensSteps
        <3> QED
            BY <3>1, <3>2
    <2>3. CASE k >= n
        BY <2>3
    <2> QED
        BY <2>1, <2>2, <2>3
<1>3. m \in S
    <2> HIDE DEF S
    <2> QED
        BY <1>1, <1>2, Induction
<1> QED
    BY <1>3

\* FlattenSeq is the last value of that function.
LEMMA FlattenDef ==
    ASSUME NEW X, NEW ss \in Seq(Seq(X)), NEW f, Flattens(f, ss, Len(ss))
    PROVE  FlattenSeq(ss) = IF ss = <<>> THEN <<>> ELSE f[Len(ss)]
<1> DEFINE h == CHOOSE g : Flattens(g, ss, Len(ss))
<1>1. Flattens(h, ss, Len(ss))
    OBVIOUS
<1>2. FlattenSeq(ss) = IF Len(ss) = 0 THEN ss ELSE h[Len(ss)]
    BY DEF FlattenSeq, Flattens, Cat
<1> HIDE DEF h
<1>3. Len(ss) \in 1..Len(ss) => f[Len(ss)] = h[Len(ss)]
    BY <1>1, FlattensOnce
<1> QED
    BY <1>2, <1>3

\* Flattening a sequence of sequences appends them one by one.
LEMMA FlattenSteps ==
    ASSUME NEW X, NEW ss \in Seq(Seq(X))
    PROVE  /\ FlattenSeq(First(ss, 0)) = <<>>
           /\ \A n \in 0..(Len(ss) - 1) :
                FlattenSeq(First(ss, n + 1)) = FlattenSeq(First(ss, n)) \o ss[n + 1]
           /\ First(ss, Len(ss)) = ss
<1>0. Len(ss) \in Nat
    OBVIOUS
<1>1. PICK f : Flattens(f, ss, Len(ss))
    BY <1>0, FlattensExists, Zenon
<1>3. (Len(ss) > 0 => f[1] = ss[1]) /\ \A i \in 2..Len(ss) : f[i] = Cat(f[i - 1], ss[i])
    BY <1>0, <1>1, FlattensSteps, Zenon
<1>2. ASSUME NEW n \in 0..Len(ss)
      PROVE  FlattenSeq(First(ss, n)) = IF n = 0 THEN <<>> ELSE f[n]
    <2> DEFINE t == First(ss, n)
               g == [i \in 1..n |-> f[i]]
    <2>1. t \in Seq(Seq(X)) /\ Len(t) = n /\ \A i \in 1..n : t[i] = ss[i]
        BY DEF First
    <2>2. Flattens(g, t, n)
        <3>1. (n > 0 => f[1] = t[1]) /\ \A i \in 2..n : f[i] = Cat(f[i - 1], t[i])
            <4>1. n > 0 => Len(ss) > 0 /\ t[1] = ss[1]
                BY <2>1
            <4>2. \A i \in 2..n : i \in 2..Len(ss) /\ t[i] = ss[i]
                BY <2>1
            <4> HIDE DEF t
            <4> QED
                BY <1>3, <4>1, <4>2, Zenon
        <3>2. n \in Nat
            OBVIOUS
        <3> HIDE DEF t
        <3> QED
            BY <3>1, <3>2, StepsFlatten, Zenon
    <2>3. FlattenSeq(t) = IF t = <<>> THEN <<>> ELSE g[Len(t)]
        <3> HIDE DEF t, g
        <3> QED
            BY <2>1, <2>2, FlattenDef
    <2> QED
        BY <2>1, <2>3
<1>4. FlattenSeq(First(ss, 0)) = <<>>
    BY <1>2
<1>5. First(ss, Len(ss)) = ss
    BY DEF First
<1>6. ASSUME NEW n \in 0..(Len(ss) - 1)
      PROVE  FlattenSeq(First(ss, n + 1)) = FlattenSeq(First(ss, n)) \o ss[n + 1]
    <2>1. FlattenSeq(First(ss, n + 1)) = f[n + 1]
        BY <1>2
    <2>2. CASE n = 0
        BY <1>2, <1>3, <2>1, <2>2
    <2>3. CASE n # 0
        <3>1. f[n + 1] = Cat(f[n], ss[n + 1])
            <4>1. n + 1 \in 2..Len(ss) /\ (n + 1) - 1 = n
                BY <2>3
            <4> QED
                BY <1>3, <4>1
        <3>2. FlattenSeq(First(ss, n)) = f[n]
            <4>1. n \in 0..Len(ss)
                OBVIOUS
            <4> QED
                BY <1>2, <2>3, <4>1, Zenon
        <3> QED
            BY <2>1, <3>1, <3>2, Zenon DEF Cat
    <2> QED
        BY <2>2, <2>3
<1> QED
    BY <1>4, <1>5, <1>6

\* A sequence of sequences, flattened, is one of the same elements.
LEMMA FlattenType ==
    ASSUME NEW X, NEW ss \in Seq(Seq(X)), NEW n \in 0..Len(ss)
    PROVE  FlattenSeq(First(ss, n)) \in Seq(X)
<1> DEFINE P(k) == k <= Len(ss) => FlattenSeq(First(ss, k)) \in Seq(X)
           S == {k \in Nat : P(k)}
<1>1. P(0)
    <2>1. FlattenSeq(First(ss, 0)) = <<>>
        BY FlattenSteps, Zenon
    <2>2. <<>> \in Seq(X)
        OBVIOUS
    <2> QED
        BY <2>1, <2>2, Zenon
<1>2. ASSUME NEW k \in 0..(n - 1), P(k) PROVE P(k + 1)
    <2>1. k \in 0..(Len(ss) - 1) /\ k <= Len(ss)
        OBVIOUS
    <2>2. FlattenSeq(First(ss, k + 1)) = FlattenSeq(First(ss, k)) \o ss[k + 1]
        BY <2>1, FlattenSteps, Zenon
    <2>3. FlattenSeq(First(ss, k)) \in Seq(X)
        BY <1>2, <2>1, Zenon
    <2>4. ss[k + 1] \in Seq(X)
        BY <2>1
    <2>5. \A s, t \in Seq(X) : s \o t \in Seq(X)
        OBVIOUS
    <2> QED
        BY <2>2, <2>3, <2>4, <2>5, Zenon
<1>3. n \in S
    <2>1. \A k \in 0..(n - 1) : k \in S => k + 1 \in S
        <3> HIDE DEF P
        <3> QED
            BY <1>2
    <2>2. 0 \in S
        <3> HIDE DEF P
        <3> QED
            BY <1>1
    <2> HIDE DEF S
    <2> QED
        BY <2>1, <2>2, Induction
<1>4. P(n)
    <2> HIDE DEF P
    <2> QED
        BY <1>3
<1> QED
    BY <1>4

\* FlattenSeq of sequences over a set is one over it.
LEMMA FlattenIsSeq ==
    ASSUME NEW X, NEW ss \in Seq(Seq(X))
    PROVE  FlattenSeq(ss) \in Seq(X)
<1>1. Len(ss) \in 0..Len(ss)
    OBVIOUS
<1>2. FlattenSeq(First(ss, Len(ss))) \in Seq(X)
    BY <1>1, FlattenType, Zenon
<1> QED
    BY <1>2, FlattenSteps, Zenon

-----------------------------------------------------------------------------
(* Places in a flattened sequence *)

\* Where the first n sequences end.
Upto(ss, n) == Len(FlattenSeq(First(ss, n)))

\* Where the parts of a flattened sequence end.
LEMMA UptoSteps ==
    ASSUME NEW X, NEW ss \in Seq(Seq(X))
    PROVE  /\ \A n \in 0..Len(ss) : Upto(ss, n) \in Nat
           /\ Upto(ss, 0) = 0
           /\ \A n \in 1..Len(ss) : Upto(ss, n) = Upto(ss, n - 1) + Len(ss[n])
           /\ Upto(ss, Len(ss)) = Len(FlattenSeq(ss))
<1>1. ASSUME NEW n \in 0..Len(ss) PROVE FlattenSeq(First(ss, n)) \in Seq(X)
    BY FlattenType, Zenon
<1>2. ASSUME NEW n \in 0..Len(ss) PROVE Upto(ss, n) \in Nat
    <2>1. \A s \in Seq(X) : Len(s) \in Nat
        OBVIOUS
    <2> QED
        BY <1>1, <2>1, Zenon DEF Upto
<1>3. Upto(ss, 0) = 0
    <2>1. Len(<<>>) = 0
        OBVIOUS
    <2> QED
        BY <2>1, FlattenSteps, Zenon DEF Upto
<1>4. ASSUME NEW n \in 1..Len(ss) PROVE Upto(ss, n) = Upto(ss, n - 1) + Len(ss[n])
    <2>1. n - 1 \in 0..(Len(ss) - 1) /\ n - 1 \in 0..Len(ss) /\ (n - 1) + 1 = n
        OBVIOUS
    <2>2. FlattenSeq(First(ss, (n - 1) + 1)) = FlattenSeq(First(ss, n - 1)) \o ss[(n - 1) + 1]
        BY <2>1, FlattenSteps, Zenon
    <2>3. FlattenSeq(First(ss, n - 1)) \in Seq(X)
        BY <1>1, <2>1, Zenon
    <2>4. ss[n] \in Seq(X)
        OBVIOUS
    <2>5. \A s, t \in Seq(X) : Len(s \o t) = Len(s) + Len(t)
        OBVIOUS
    <2> QED
        BY <2>1, <2>2, <2>3, <2>4, <2>5, Zenon DEF Upto
<1>5. Upto(ss, Len(ss)) = Len(FlattenSeq(ss))
    BY FlattenSteps, Zenon DEF Upto
<1> QED
    BY <1>2, <1>3, <1>4, <1>5

\* Later parts end later.
LEMMA UptoMonotone ==
    ASSUME NEW X, NEW ss \in Seq(Seq(X)), NEW m \in 0..Len(ss), NEW n \in m..Len(ss)
    PROVE  Upto(ss, m) <= Upto(ss, n)
<1> DEFINE P(k) == k \in m..Len(ss) => Upto(ss, m) <= Upto(ss, k)
           S == {k \in Nat : P(k)}
<1>1. P(0)
    BY UptoSteps
<1>2. ASSUME NEW k \in Nat, P(k) PROVE P(k + 1)
    <2>1. SUFFICES ASSUME k + 1 \in m..Len(ss) PROVE Upto(ss, m) <= Upto(ss, k + 1)
        OBVIOUS
    <2>2. CASE k + 1 = m
        BY <2>2, UptoSteps
    <2>3. CASE k \in m..Len(ss)
        <3>1. Upto(ss, k + 1) = Upto(ss, k) + Len(ss[k + 1])
            BY <2>1, UptoSteps
        <3>2. Len(ss[k + 1]) \in Nat
            BY <2>1
        <3>3. Upto(ss, k) \in Nat /\ Upto(ss, m) \in Nat
            BY <2>3, UptoSteps
        <3> QED
            BY <1>2, <2>3, <3>1, <3>2, <3>3
    <2> QED
        BY <2>1, <2>2, <2>3
<1>3. n \in S
    <2>1. 0 \in S /\ \A k \in 0..(n - 1) : k \in S => k + 1 \in S
        <3> HIDE DEF P
        <3> QED
            BY <1>1, <1>2
    <2> HIDE DEF S
    <2> QED
        BY <2>1, Induction
<1>4. P(n)
    <2> HIDE DEF P
    <2> QED
        BY <1>3
<1> QED
    BY <1>4

\* Every place lies in one of the sequences ...
LEMMA PlaceIn ==
    ASSUME NEW X, NEW ss \in Seq(Seq(X)), NEW g \in 1..Len(FlattenSeq(ss))
    PROVE  \E n \in 1..Len(ss) : Upto(ss, n - 1) < g /\ g <= Upto(ss, n)
<1> DEFINE T == {n \in 0..Len(ss) : g <= Upto(ss, n)}
<1>1. Len(ss) \in T
    BY UptoSteps
<1>2. PICK n \in T : \A m \in T : n <= m
    <2>1. T \subseteq Nat /\ T # {}
        BY <1>1
    <2> HIDE DEF T
    <2> QED
        BY <2>1, Least
<1>3. n # 0
    BY <1>2, UptoSteps
<1>4. n - 1 \in 0..Len(ss) /\ n - 1 \notin T
    BY <1>2, <1>3
<1>5. Upto(ss, n - 1) < g
    <2>1. ~(g <= Upto(ss, n - 1))
        BY <1>4
    <2>2. Upto(ss, n - 1) \in Nat
        BY <1>4, UptoSteps
    <2> QED
        BY <2>1, <2>2
<1> QED
    BY <1>2, <1>3, <1>5

\* ... and what is there is what is there in that sequence.
LEMMA PlaceHas ==
    ASSUME NEW X, NEW ss \in Seq(Seq(X)), NEW n \in 1..Len(ss), NEW j \in 1..Len(ss[n])
    PROVE  /\ Upto(ss, n - 1) + j \in 1..Len(FlattenSeq(ss))
           /\ FlattenSeq(ss)[Upto(ss, n - 1) + j] = ss[n][j]
<1> DEFINE g == Upto(ss, n - 1) + j
           F(k) == FlattenSeq(First(ss, k))
           P(k) == k \in n..Len(ss) => F(k)[g] = ss[n][j]
           S == {k \in Nat : P(k)}
<1>1. Upto(ss, n - 1) \in Nat /\ g \in 1..Upto(ss, n)
    <2>1. n - 1 \in 0..Len(ss) /\ Len(ss[n]) \in Nat
        OBVIOUS
    <2>2. Upto(ss, n - 1) \in Nat /\ Upto(ss, n) = Upto(ss, n - 1) + Len(ss[n])
        BY <2>1, UptoSteps
    <2> QED
        BY <2>1, <2>2
<1>2. ASSUME NEW k \in 0..Len(ss) PROVE F(k) \in Seq(X) /\ Len(F(k)) = Upto(ss, k)
    BY FlattenType, Zenon DEF Upto
<1>3. ASSUME NEW k \in 0..(Len(ss) - 1) PROVE F(k + 1) = F(k) \o ss[k + 1]
    BY FlattenSteps, Zenon
<1>4. \A k \in n..Len(ss) : g \in 1..Upto(ss, k)
    <2>1. ASSUME NEW k \in n..Len(ss) PROVE Upto(ss, n) <= Upto(ss, k) /\ Upto(ss, k) \in Nat
        BY UptoMonotone, UptoSteps
    <2> HIDE DEF g
    <2> QED
        BY <1>1, <2>1, UptoSteps
<1>5. P(0)
    OBVIOUS
<1>6. ASSUME NEW k \in Nat, P(k) PROVE P(k + 1)
    <2> SUFFICES ASSUME k + 1 \in n..Len(ss) PROVE F(k + 1)[g] = ss[n][j]
        OBVIOUS
    <2>1. k \in 0..Len(ss) /\ k \in 0..(Len(ss) - 1) /\ k + 1 \in 0..Len(ss)
        OBVIOUS
    <2>2. F(k) \in Seq(X) /\ ss[k + 1] \in Seq(X) /\ F(k + 1) = F(k) \o ss[k + 1]
        <3>1. ss[k + 1] \in Seq(X)
            OBVIOUS
        <3> QED
            BY <1>2, <1>3, <2>1, <3>1, Zenon
    <2>3. Len(F(k)) = Upto(ss, k)
        BY <1>2, <2>1, Zenon
    <2>4. CASE k + 1 = n
        <3>1. Len(F(k)) = Upto(ss, n - 1)
            <4>1. k = n - 1
                BY <2>4
            <4> QED
                BY <2>3, <4>1
        <3>2. ss[k + 1] = ss[n]
            BY <2>4
        <3>3. \A s, t \in Seq(X) : \A i \in 1..Len(t) : (s \o t)[Len(s) + i] = t[i]
            OBVIOUS
        <3>4. (F(k) \o ss[k + 1])[Len(F(k)) + j] = ss[k + 1][j]
            BY <2>2, <3>2, <3>3, Zenon
        <3> QED
            BY <2>2, <3>1, <3>2, <3>4, Zenon
    <2>5. CASE k \in n..Len(ss)
        <3>1. F(k)[g] = ss[n][j]
            BY <1>6, <2>5
        <3>2. g \in 1..Len(F(k))
            BY <1>4, <2>3, <2>5
        <3> HIDE DEF F, g
        <3> QED
            BY <2>2, <3>1, <3>2
    <2> QED
        BY <2>4, <2>5
<1>7. Len(ss) \in S
    <2>1. 0 \in S /\ \A k \in 0..(Len(ss) - 1) : k \in S => k + 1 \in S
        <3> HIDE DEF P
        <3> QED
            BY <1>5, <1>6
    <2> HIDE DEF S
    <2> QED
        BY <2>1, Induction
<1>8. F(Len(ss))[g] = ss[n][j]
    <2>1. P(Len(ss))
        <3> HIDE DEF P
        <3> QED
            BY <1>7
    <2> QED
        BY <2>1
<1>9. F(Len(ss)) = FlattenSeq(ss)
    BY FlattenSteps, Zenon
<1>10. g \in 1..Len(FlattenSeq(ss))
    BY <1>4, UptoSteps
<1> QED
    BY <1>8, <1>9, <1>10

-----------------------------------------------------------------------------
(* FormData takes characters, parameters and callbacks in turn *)

BySep(sep) == <<"char", sep>>
ByName(name) == <<"param", name>>
ByCall == <<"call", "">>

Turn(what, before, x) ==
    CASE what[1] = "char"  -> AfterChar(before, x, what[2])
      [] what[1] = "param" -> AfterParam(before, x, what[2])
      [] what[1] = "call"  -> Multipart(before, x)

\* What a turn does.
LEMMA TurnIs ==
    /\ \A sep, b, x : Turn(BySep(sep), b, x) = AfterChar(b, x, sep)
    /\ \A name, b, x : Turn(ByName(name), b, x) = AfterParam(b, x, name)
    /\ \A b, x : Turn(ByCall, b, x) = Multipart(b, x)
<1>1. \A sep, b, x : Turn(BySep(sep), b, x) = AfterChar(b, x, sep)
    <2> TAKE sep, b, x
    <2>1. BySep(sep)[1] = "char" /\ BySep(sep)[2] = sep
        BY DEF BySep
    <2> QED
        BY <2>1 DEF Turn
<1>2. \A name, b, x : Turn(ByName(name), b, x) = AfterParam(b, x, name)
    <2> TAKE name, b, x
    <2>1. ByName(name)[1] = "param" /\ ByName(name)[2] = name
        BY DEF ByName
    <2> QED
        BY <2>1 DEF Turn
<1>3. \A b, x : Turn(ByCall, b, x) = Multipart(b, x)
    <2> TAKE b, x
    <2>1. ByCall[1] = "call"
        BY DEF ByCall
    <2> QED
        BY <2>1 DEF Turn
<1> QED
    BY <1>1, <1>2, <1>3, Zenon

\* The functions of the recursive definitions, step by step.
Turns(f, what, start, s, n) ==
    f[0] = start /\ \A i \in 1..n : f[i] = Turn(what, f[i - 1], s[i])

TurnsOn(f, what, start, s, n) ==
    Turns(f, what, start, s, n) /\ f = [i \in 0..n |-> f[i]]

\* There is such a function, for any number of turns.
LEMMA TurnsExist ==
    ASSUME NEW what, NEW start, NEW s, NEW n \in Nat
    PROVE  \E f : TurnsOn(f, what, start, s, n)
<1> DEFINE S == {k \in Nat : \E f : TurnsOn(f, what, start, s, k)}
<1>1. 0 \in S
    <2> DEFINE g == [i \in 0..0 |-> start]
    <2>1. TurnsOn(g, what, start, s, 0)
        BY DEF Turns, TurnsOn
    <2> HIDE DEF g
    <2> QED
        BY <2>1
<1>2. ASSUME NEW k \in Nat, k \in S PROVE k + 1 \in S
    <2>1. PICK f : Turns(f, what, start, s, k)
        BY <1>2 DEF TurnsOn
    <2> DEFINE e == Turn(what, f[k], s[k + 1])
               g == [i \in 0..(k + 1) |-> IF i <= k THEN f[i] ELSE e]
    <2>2. (\A i \in 0..k : g[i] = f[i]) /\ g[k + 1] = e
        <3> HIDE DEF e
        <3> QED
            OBVIOUS
    <2>3. g = [i \in 0..(k + 1) |-> g[i]]
        <3> HIDE DEF e
        <3> QED
            BY Zenon
    <2> HIDE DEF g
    <2>4. ASSUME NEW i \in 1..(k + 1) PROVE g[i] = Turn(what, g[i - 1], s[i])
        <3>1. CASE i \in 1..k
            <4>1. i \in 0..k /\ i - 1 \in 0..k
                BY <3>1
            <4>2. g[i] = f[i] /\ g[i - 1] = f[i - 1]
                BY <2>2, <4>1, Zenon
            <4>3. f[i] = Turn(what, f[i - 1], s[i])
                BY <2>1, <3>1, Zenon DEF Turns
            <4> QED
                BY <4>2, <4>3, Zenon
        <3>2. CASE i = k + 1
            <4>1. i - 1 = k /\ k \in 0..k
                BY <3>2
            <4> QED
                BY <2>2, <3>2, <4>1, Zenon
        <3> QED
            BY <3>1, <3>2
    <2>5. g[0] = start
        <3>1. 0 \in 0..k
            OBVIOUS
        <3> QED
            BY <2>1, <2>2, <3>1, Zenon DEF Turns
    <2>6. Turns(g, what, start, s, k + 1)
        BY <2>4, <2>5, Zenon DEF Turns
    <2>7. TurnsOn(g, what, start, s, k + 1)
        BY <2>3, <2>6, Zenon DEF TurnsOn
    <2> QED
        BY <2>7
<1>3. n \in S
    <2> HIDE DEF S
    <2> QED
        BY <1>1, <1>2, Induction
<1> QED
    BY <1>3

\* And one only, as far as it goes, of what starts alike.
LEMMA TurnsOnce ==
    ASSUME NEW what, NEW start, NEW s, NEW t, NEW n \in Nat, \A i \in 1..n : s[i] = t[i],
           NEW f, Turns(f, what, start, s, n), NEW g, Turns(g, what, start, t, n)
    PROVE  f[n] = g[n]
<1> DEFINE S == {k \in Nat : f[k] = g[k]}
<1>1. 0 \in S
    BY DEF Turns
<1>2. ASSUME NEW k \in 0..(n - 1), k \in S PROVE k + 1 \in S
    <2>1. k + 1 \in 1..n /\ (k + 1) - 1 = k /\ k + 1 \in Nat
        OBVIOUS
    <2>2. /\ f[k + 1] = Turn(what, f[(k + 1) - 1], s[k + 1])
          /\ g[k + 1] = Turn(what, g[(k + 1) - 1], t[k + 1])
        BY <2>1, Zenon DEF Turns
    <2>3. f[k] = g[k]
        BY <1>2
    <2>4. f[k + 1] = g[k + 1]
        BY <2>1, <2>2, <2>3, Zenon
    <2> QED
        BY <2>1, <2>4
<1>3. n \in S
    <2> HIDE DEF S
    <2> QED
        BY <1>1, <1>2, Induction
<1> QED
    BY <1>3

\* A sequence, of whatever elements.
IsSeq(s) == \E X : s \in Seq(X)

\* What is joined of sequences is one.
LEMMA AreSeq ==
    /\ \A X : \A s \in Seq(X) : IsSeq(s)
    /\ IsSeq(<<>>) /\ \A x : IsSeq(<<x>>)
    /\ \A s, x : IsSeq(s) => IsSeq(Append(s, x))
    /\ \A s, t : IsSeq(s) /\ IsSeq(t) => IsSeq(s \o t)
<1>1. \A X : \A s \in Seq(X) : IsSeq(s)
    BY Zenon DEF IsSeq
<1>2. IsSeq(<<>>) /\ \A x : IsSeq(<<x>>)
    <2>1. <<>> \in Seq({}) /\ \A x : <<x>> \in Seq({x})
        OBVIOUS
    <2> QED
        BY <2>1, <1>1, Zenon
<1>3. ASSUME NEW s, NEW x, IsSeq(s) PROVE IsSeq(Append(s, x))
    <2>1. PICK X : s \in Seq(X)
        BY <1>3, Zenon DEF IsSeq
    <2>2. Append(s, x) \in Seq(X \cup {x})
        BY <2>1
    <2> QED
        BY <2>2, <1>1, Zenon
<1>4. ASSUME NEW s, NEW t, IsSeq(s), IsSeq(t) PROVE IsSeq(s \o t)
    <2>1. PICK X : s \in Seq(X)
        BY <1>4, Zenon DEF IsSeq
    <2>2. PICK Y : t \in Seq(Y)
        BY <1>4, Zenon DEF IsSeq
    <2>3. s \in Seq(X \cup Y) /\ t \in Seq(X \cup Y)
        BY <2>1, <2>2
    <2>4. s \o t \in Seq(X \cup Y)
        BY <2>3
    <2> QED
        BY <2>4, <1>1, Zenon
<1> QED
    BY <1>1, <1>2, <1>3, <1>4, Zenon

\* Taken in turn from start, s comes to m.
Comes(what, start, s, m) ==
    IsSeq(s) /\ \E f : Turns(f, what, start, s, Len(s)) /\ m = f[Len(s)]

\* What a sequence comes to, given what each of its elements does.
LEMMA ComesEach ==
    ASSUME NEW what, NEW start, NEW X, NEW s \in Seq(X), NEW f, f[0] = start,
           \A n \in 0..(Len(s) - 1) : f[n + 1] = Turn(what, f[n], s[n + 1])
    PROVE  Comes(what, start, s, f[Len(s)])
<1>1. ASSUME NEW i \in 1..Len(s) PROVE f[i] = Turn(what, f[i - 1], s[i])
    <2>1. i - 1 \in 0..(Len(s) - 1) /\ (i - 1) + 1 = i
        OBVIOUS
    <2>2. f[(i - 1) + 1] = Turn(what, f[i - 1], s[(i - 1) + 1])
        BY <2>1, Zenon
    <2> QED
        BY <2>1, <2>2, Zenon
<1>2. Turns(f, what, start, s, Len(s))
    BY <1>1, Zenon DEF Turns
<1> QED
    BY <1>2, Zenon DEF Comes, IsSeq

\* An empty sequence, and one of one element.
LEMMA ComesShort ==
    ASSUME NEW what, NEW start
    PROVE  Comes(what, start, <<>>, start) /\ \A x : Comes(what, start, <<x>>, Turn(what, start, x))
<1>1. Comes(what, start, <<>>, start)
    <2> DEFINE f == [i \in 0..0 |-> start]
    <2>1. Turns(f, what, start, <<>>, Len(<<>>)) /\ f[Len(<<>>)] = start
        BY DEF Turns
    <2> HIDE DEF f
    <2> QED
        BY <2>1, AreSeq, Zenon DEF Comes
<1>2. ASSUME NEW x PROVE Comes(what, start, <<x>>, Turn(what, start, x))
    <2> DEFINE m == Turn(what, start, x)
               f == [i \in 0..1 |-> IF i = 0 THEN start ELSE m]
    <2>1. Len(<<x>>) = 1 /\ <<x>>[1] = x /\ \A i \in 1..1 : i = 1 /\ i - 1 = 0
        OBVIOUS
    <2>2. f[0] = start /\ f[1] = m
        <3> HIDE DEF m
        <3> QED
            OBVIOUS
    <2> HIDE DEF f
    <2>3. Turns(f, what, start, <<x>>, 1)
        BY <2>1, <2>2, Zenon DEF Turns
    <2> QED
        BY <2>1, <2>2, <2>3, AreSeq, Zenon DEF Comes
<1> QED
    BY <1>1, <1>2, Zenon

\* Two sequences joined: the second goes on from what the first comes to.
LEMMA ComesJoined ==
    ASSUME NEW what, NEW start, NEW s, NEW m, Comes(what, start, s, m),
           NEW t, NEW z, Comes(what, m, t, z)
    PROVE  Comes(what, start, s \o t, z)
<1> DEFINE k == Len(s)
           l == Len(t)
           w == s \o t
<1>1. PICK f : Turns(f, what, start, s, k) /\ m = f[k]
    BY Zenon DEF Comes
<1>2. PICK g : Turns(g, what, m, t, l) /\ z = g[l]
    BY Zenon DEF Comes
<1>3. IsSeq(s) /\ IsSeq(t) /\ IsSeq(w)
    BY AreSeq, Zenon DEF Comes
<1>4. /\ k \in Nat /\ l \in Nat /\ Len(w) = k + l
      /\ \A i \in 1..k : w[i] = s[i]
      /\ \A i \in 1..l : w[k + i] = t[i]
    <2>1. PICK X : s \in Seq(X)
        BY <1>3, Zenon DEF IsSeq
    <2>2. PICK Y : t \in Seq(Y)
        BY <1>3, Zenon DEF IsSeq
    <2>3. s \in Seq(X \cup Y) /\ t \in Seq(X \cup Y)
        BY <2>1, <2>2
    <2> QED
        BY <2>3
<1> HIDE DEF k, l, w
<1> DEFINE h == [i \in 0..(k + l) |-> IF i <= k THEN f[i] ELSE g[i - k]]
<1>5. /\ \A i \in 0..k : h[i] = f[i]
      /\ \A i \in 1..l : h[k + i] = g[i]
    BY <1>4
<1>6. h[k + 0] = g[0]
    <2>1. k + 0 = k /\ k \in 0..k
        BY <1>4
    <2>2. g[0] = m
        BY <1>2, Zenon DEF Turns
    <2> QED
        BY <1>1, <1>5, <2>1, <2>2, Zenon
<1> HIDE DEF h
<1>7. ASSUME NEW i \in 1..(k + l) PROVE h[i] = Turn(what, h[i - 1], w[i])
    <2>1. CASE i \in 1..k
        <3>1. i \in 0..k /\ i - 1 \in 0..k
            BY <1>4, <2>1
        <3>2. h[i] = f[i] /\ h[i - 1] = f[i - 1] /\ w[i] = s[i]
            BY <1>4, <1>5, <2>1, <3>1, Zenon
        <3>3. f[i] = Turn(what, f[i - 1], s[i])
            BY <1>1, <2>1, Zenon DEF Turns
        <3> QED
            BY <3>2, <3>3, Zenon
    <2>2. CASE i \notin 1..k
        <3> DEFINE j == i - k
        <3>1. j \in 1..l /\ i = k + j /\ i - 1 = k + (j - 1) /\ (j - 1 = 0 \/ j - 1 \in 1..l)
            BY <1>4, <2>2
        <3> HIDE DEF j
        <3>2. h[k + j] = g[j] /\ w[k + j] = t[j]
            BY <1>4, <1>5, <3>1, Zenon
        <3>3. h[k + (j - 1)] = g[j - 1]
            <4>1. CASE j - 1 = 0
                BY <1>6, <4>1, Zenon
            <4>2. CASE j - 1 \in 1..l
                BY <1>5, <4>2, Zenon
            <4> QED
                BY <3>1, <4>1, <4>2, Zenon
        <3>4. g[j] = Turn(what, g[j - 1], t[j])
            BY <1>2, <3>1, Zenon DEF Turns
        <3> QED
            BY <3>1, <3>2, <3>3, <3>4, Zenon
    <2> QED
        BY <2>1, <2>2, Zenon
<1>8. h[0] = start
    <2>1. 0 \in 0..k
        BY <1>4
    <2> QED
        BY <1>1, <1>5, <2>1, Zenon DEF Turns
<1>9. Turns(h, what, start, w, Len(w))
    BY <1>4, <1>7, <1>8, Zenon DEF Turns
<1>10. z = h[Len(w)]
    <2>1. CASE l = 0
        <3>1. Len(w) = k + 0
            BY <1>4, <2>1
        <3> QED
            BY <1>2, <1>6, <2>1, <3>1, Zenon
    <2>2. CASE l # 0
        <3>1. l \in 1..l
            BY <1>4, <2>2
        <3> QED
            BY <1>2, <1>4, <1>5, <3>1, Zenon
    <2> QED
        BY <2>1, <2>2
<1>11. Comes(what, start, w, z)
    BY <1>3, <1>9, <1>10, Zenon DEF Comes
<1> QED
    BY <1>11, Zenon DEF w

\* Sequences joined, given what each of them comes to.
LEMMA ComesFlat ==
    ASSUME NEW what, NEW start, NEW X, NEW ss \in Seq(Seq(X)), NEW f, f[0] = start,
           \A n \in 0..(Len(ss) - 1) : Comes(what, f[n], ss[n + 1], f[n + 1])
    PROVE  Comes(what, start, FlattenSeq(ss), f[Len(ss)])
<1> DEFINE S == {k \in Nat : Comes(what, start, FlattenSeq(First(ss, k)), f[k])}
<1>1. 0 \in S
    <2>1. Comes(what, start, FlattenSeq(First(ss, 0)), f[0])
        BY FlattenSteps, ComesShort, Zenon
    <2> QED
        BY <2>1
<1>2. ASSUME NEW k \in 0..(Len(ss) - 1), k \in S PROVE k + 1 \in S
    <2>1. Comes(what, start, FlattenSeq(First(ss, k)), f[k])
        BY <1>2
    <2>2. Comes(what, f[k], ss[k + 1], f[k + 1])
        BY Zenon
    <2>3. Comes(what, start, FlattenSeq(First(ss, k)) \o ss[k + 1], f[k + 1])
        BY <2>1, <2>2, ComesJoined, Zenon
    <2>4. FlattenSeq(First(ss, k + 1)) = FlattenSeq(First(ss, k)) \o ss[k + 1]
        BY FlattenSteps, Zenon
    <2>5. Comes(what, start, FlattenSeq(First(ss, k + 1)), f[k + 1])
        BY <2>3, <2>4, Zenon
    <2> QED
        BY <2>5
<1>3. Len(ss) \in S
    <2>1. Len(ss) \in Nat
        OBVIOUS
    <2> HIDE DEF S
    <2> QED
        BY <1>1, <1>2, <2>1, Induction
<1>4. Comes(what, start, FlattenSeq(First(ss, Len(ss))), f[Len(ss)])
    BY <1>3
<1> QED
    BY <1>4, FlattenSteps, Zenon

\* Parts is what the characters of a text come to.
LEMMA PartsCome ==
    ASSUME NEW s, NEW sep, NEW m, Comes(BySep(sep), << <<>> >>, s, m)
    PROVE  Parts(s, sep) = m
<1> DEFINE n == Len(s)
           R(f) == f = [i \in 0..n |-> IF i = 0 THEN << <<>> >> ELSE AfterChar(f[i - 1], s[i], sep)]
           h == CHOOSE f : R(f)
<1>1. n \in Nat
    <2>1. PICK X : s \in Seq(X)
        BY Zenon DEF Comes, IsSeq
    <2> QED
        BY <2>1
<1>2. Parts(s, sep) = h[n]
    BY Zenon DEF Parts
<1>3. ASSUME NEW f, NEW i \in 0..n
      PROVE  Turns(f, BySep(sep), << <<>> >>, s, n)
                 => f[i] = IF i = 0 THEN << <<>> >> ELSE AfterChar(f[i - 1], s[i], sep)
    <2>1. i = 0 \/ (i \in 1..n /\ i # 0)
        OBVIOUS
    <2> QED
        BY <2>1, TurnIs, Zenon DEF Turns
<1>4. PICK f : Turns(f, BySep(sep), << <<>> >>, s, n) /\ f = [i \in 0..n |-> f[i]]
    <2>1. \E f : TurnsOn(f, BySep(sep), << <<>> >>, s, n)
        BY <1>1, TurnsExist
    <2> QED
        BY <2>1, Zenon DEF TurnsOn
<1>5. R(f)
    BY <1>3, <1>4, Zenon
<1>6. R(h)
    BY <1>5, Zenon
<1> HIDE DEF h
<1>7. Turns(h, BySep(sep), << <<>> >>, s, n)
    <2>1. \A i \in 0..n : h[i] = IF i = 0 THEN << <<>> >> ELSE AfterChar(h[i - 1], s[i], sep)
        BY <1>6, Zenon
    <2>2. 0 \in 0..n /\ \A i \in 1..n : i \in 0..n /\ i # 0
        BY <1>1
    <2>3. ASSUME NEW i \in 1..n PROVE h[i] = Turn(BySep(sep), h[i - 1], s[i])
        <3>1. h[i] = AfterChar(h[i - 1], s[i], sep)
            BY <2>1, <2>2, Zenon
        <3> QED
            BY <3>1, TurnIs, Zenon
    <2> QED
        BY <2>1, <2>2, <2>3, Zenon DEF Turns
<1>8. PICK g : Turns(g, BySep(sep), << <<>> >>, s, n) /\ m = g[n]
    BY Zenon DEF Comes
<1>9. h[n] = g[n]
    <2> HIDE DEF n
    <2> QED
        BY <1>1, <1>7, <1>8, TurnsOnce
<1> QED
    BY <1>2, <1>8, <1>9, Zenon

\* GetParams is what parameters come to.
LEMMA ParamsCome ==
    ASSUME NEW s, NEW name, NEW m, Comes(ByName(name), <<>>, s, m)
    PROVE  GetParams(s, name) = m
<1> DEFINE n == Len(s)
           R(f) == f = [i \in 0..n |-> IF i = 0 THEN <<>> ELSE AfterParam(f[i - 1], s[i], name)]
           h == CHOOSE f : R(f)
<1>1. n \in Nat
    <2>1. PICK X : s \in Seq(X)
        BY Zenon DEF Comes, IsSeq
    <2> QED
        BY <2>1
<1>2. GetParams(s, name) = h[n]
    BY Zenon DEF GetParams
<1>3. ASSUME NEW f, NEW i \in 0..n
      PROVE  Turns(f, ByName(name), <<>>, s, n)
                 => f[i] = IF i = 0 THEN <<>> ELSE AfterParam(f[i - 1], s[i], name)
    <2>1. i = 0 \/ (i \in 1..n /\ i # 0)
        OBVIOUS
    <2> QED
        BY <2>1, TurnIs, Zenon DEF Turns
<1>4. PICK f : Turns(f, ByName(name), <<>>, s, n) /\ f = [i \in 0..n |-> f[i]]
    <2>1. \E f : TurnsOn(f, ByName(name), <<>>, s, n)
        BY <1>1, TurnsExist
    <2> QED
        BY <2>1, Zenon DEF TurnsOn
<1>5. R(f)
    BY <1>3, <1>4, Zenon
<1>6. R(h)
    BY <1>5, Zenon
<1> HIDE DEF h
<1>7. Turns(h, ByName(name), <<>>, s, n)
    <2>1. \A i \in 0..n : h[i] = IF i = 0 THEN <<>> ELSE AfterParam(h[i - 1], s[i], name)
        BY <1>6, Zenon
    <2>2. 0 \in 0..n /\ \A i \in 1..n : i \in 0..n /\ i # 0
        BY <1>1
    <2>3. ASSUME NEW i \in 1..n PROVE h[i] = Turn(ByName(name), h[i - 1], s[i])
        <3>1. h[i] = AfterParam(h[i - 1], s[i], name)
            BY <2>1, <2>2, Zenon
        <3> QED
            BY <3>1, TurnIs, Zenon
    <2> QED
        BY <2>1, <2>2, <2>3, Zenon DEF Turns
<1>8. PICK g : Turns(g, ByName(name), <<>>, s, n) /\ m = g[n]
    BY Zenon DEF Comes
<1>9. h[n] = g[n]
    <2> HIDE DEF n
    <2> QED
        BY <1>1, <1>7, <1>8, TurnsOnce
<1> QED
    BY <1>2, <1>8, <1>9, Zenon

\* Where ParseMultipart begins.
NoneYet(items, params) == [items |-> items, params |-> params, failed |-> FALSE]

\* ParseMultipart is what callbacks come to.
LEMMA CallsCome ==
    ASSUME NEW s, NEW items, NEW params, NEW m, Comes(ByCall, NoneYet(items, params), s, m)
    PROVE  ParseMultipart(s, items, params) = m
<1> DEFINE n == Len(s)
           R(f) == f = [i \in 0..n |-> IF i = 0 THEN NoneYet(items, params)
                               ELSE Multipart(f[i - 1], s[i])]
           h == CHOOSE f : R(f)
<1>1. n \in Nat
    <2>1. PICK X : s \in Seq(X)
        BY Zenon DEF Comes, IsSeq
    <2> QED
        BY <2>1
<1>2. ParseMultipart(s, items, params) = h[n]
    BY Zenon DEF ParseMultipart, NoneYet
<1>3. ASSUME NEW f, NEW i \in 0..n
      PROVE  Turns(f, ByCall, NoneYet(items, params), s, n)
                 => f[i] = IF i = 0 THEN NoneYet(items, params) ELSE Multipart(f[i - 1], s[i])
    <2>1. i = 0 \/ (i \in 1..n /\ i # 0)
        OBVIOUS
    <2> QED
        BY <2>1, TurnIs, Zenon DEF Turns
<1>4. PICK f : Turns(f, ByCall, NoneYet(items, params), s, n) /\ f = [i \in 0..n |-> f[i]]
    <2>1. \E f : TurnsOn(f, ByCall, NoneYet(items, params), s, n)
        BY <1>1, TurnsExist
    <2> QED
        BY <2>1, Zenon DEF TurnsOn
<1>5. R(f)
    BY <1>3, <1>4, Zenon
<1>6. R(h)
    BY <1>5, Zenon
<1> HIDE DEF h
<1>7. Turns(h, ByCall, NoneYet(items, params), s, n)
    <2>1. \A i \in 0..n : h[i] = IF i = 0 THEN NoneYet(items, params) ELSE Multipart(h[i - 1], s[i])
        BY <1>6, Zenon
    <2>2. 0 \in 0..n /\ \A i \in 1..n : i \in 0..n /\ i # 0
        BY <1>1
    <2>3. ASSUME NEW i \in 1..n PROVE h[i] = Turn(ByCall, h[i - 1], s[i])
        <3>1. h[i] = Multipart(h[i - 1], s[i])
            BY <2>1, <2>2, Zenon
        <3> QED
            BY <3>1, TurnIs, Zenon
    <2> QED
        BY <2>1, <2>2, <2>3, Zenon DEF Turns
<1>8. PICK g : Turns(g, ByCall, NoneYet(items, params), s, n) /\ m = g[n]
    BY Zenon DEF Comes
<1>9. h[n] = g[n]
    <2> HIDE DEF n
    <2> QED
        BY <1>1, <1>7, <1>8, TurnsOnce
<1> QED
    BY <1>2, <1>8, <1>9, Zenon

-----------------------------------------------------------------------------
(* Pieces of a text *)

Free(t, sep) == \A i \in DOMAIN t : t[i] # sep

\* A sequence with another last element.
LEMMA LastReplaced ==
    ASSUME NEW B, NEW s \in Seq(B), NEW x \in B, NEW b \in B
    PROVE  [Append(s, x) EXCEPT ![Len(s) + 1] = b] = Append(s, b)
<1> DEFINE t == Append(s, x)
           n == Len(s) + 1
<1>1. Len(s) \in Nat /\ t \in Seq(B) /\ DOMAIN t = 1..n /\ n \in Nat
    OBVIOUS
<1>2. \A i \in 1..Len(s) : t[i] = s[i]
    OBVIOUS
<1> HIDE DEF t, n
<1> DEFINE u == [t EXCEPT ![n] = b]
<1>3. \A i \in 1..Len(s) : u[i] = s[i]
    BY <1>1, <1>2 DEF n
<1>4. u[n] = b /\ DOMAIN u = 1..n /\ u = [i \in 1..n |-> u[i]]
    <2>1. n \in DOMAIN t
        BY <1>1 DEF n
    <2>2. DOMAIN u = DOMAIN t
        BY Zenon
    <2>3. u[n] = b
        BY <2>1
    <2>4. u = [i \in DOMAIN u |-> u[i]]
        BY Zenon
    <2> QED
        BY <1>1, <2>2, <2>3, <2>4, Zenon
<1>5. u \in Seq(B) /\ Len(u) = n
    <2>1. \A i \in 1..n : u[i] \in B
        BY <1>1
    <2> HIDE DEF u
    <2>2. u \in Seq(B)
        BY <1>1, <1>4, <2>1, FunctionType, Zenon
    <2> QED
        BY <1>1, <1>4, <2>2
<1> HIDE DEF u
<1>6. u = Append(s, b)
    <2>1. \A i \in 1..n : u[i] = Append(s, b)[i]
        <3>1. \A i \in 1..Len(s) : Append(s, b)[i] = s[i]
            OBVIOUS
        <3>2. Append(s, b)[n] = b
            BY DEF n
        <3>3. \A i \in 1..n : i \in 1..Len(s) \/ i = n
            BY <1>1 DEF n
        <3> QED
            BY <1>3, <1>4, <3>1, <3>2, <3>3, Zenon
    <2>2. Append(s, b) \in Seq(B) /\ Len(Append(s, b)) = n
        BY DEF n
    <2> QED
        BY <1>5, <2>1, <2>2
<1> QED
    BY <1>6, Zenon DEF u, t, n

\* What a character does to the piece it comes after.
LEMMA AfterCharIs ==
    ASSUME NEW X, NEW ps \in Seq(Seq(X)), NEW u \in Seq(X), NEW c \in X, NEW sep
    PROVE  AfterChar(Append(ps, u), c, sep)
               = IF c = sep THEN Append(Append(ps, u), <<>>) ELSE Append(ps, Append(u, c))
<1> DEFINE w == Append(ps, u)
           n == Len(ps) + 1
           v == Append(u, c)
<1>1. /\ w \in Seq(Seq(X)) /\ v \in Seq(X) /\ Len(w) = n /\ n \in Nat
      /\ w[n] = u /\ \A i \in 1..Len(ps) : w[i] = ps[i] /\ i # n
    OBVIOUS
<1>2. Append(w[n], c) = v
    BY <1>1
<1> HIDE DEF v
<1>3. [w EXCEPT ![n] = v] = Append(ps, v)
    <2> DEFINE B == Seq(X)
    <2>1. ps \in Seq(B) /\ u \in B /\ v \in B
        BY <1>1
    <2> HIDE DEF B
    <2>2. [Append(ps, u) EXCEPT ![Len(ps) + 1] = v] = Append(ps, v)
        BY <2>1, LastReplaced
    <2> QED
        BY <2>2, Zenon DEF w, n
<1>4. AfterChar(w, c, sep) = IF c = sep THEN Append(w, <<>>) ELSE [w EXCEPT ![n] = v]
    BY <1>1, <1>2, Zenon DEF AfterChar
<1> QED
    BY <1>3, <1>4, Zenon DEF w, v

\* A text without the separator goes to the last piece.
LEMMA TextComes ==
    ASSUME NEW X, NEW ps \in Seq(Seq(X)), NEW u \in Seq(X), NEW t \in Seq(X),
           NEW sep, Free(t, sep)
    PROVE  Comes(BySep(sep), Append(ps, u), t, Append(ps, u \o t))
<1> DEFINE g(n) == u \o SubSeq(t, 1, n)
           f == [n \in 0..Len(t) |-> Append(ps, g(n))]
<1>1. g(0) = u /\ g(Len(t)) = u \o t
    OBVIOUS
<1>2. ASSUME NEW n \in 0..(Len(t) - 1)
      PROVE  g(n) \in Seq(X) /\ g(n + 1) = Append(g(n), t[n + 1]) /\ t[n + 1] \in X
             /\ t[n + 1] # sep
    <2>1. /\ SubSeq(t, 1, n) \in Seq(X) /\ t[n + 1] \in X
          /\ SubSeq(t, 1, n + 1) = Append(SubSeq(t, 1, n), t[n + 1])
        OBVIOUS
    <2>2. t[n + 1] # sep
        BY DEF Free
    <2> DEFINE z == SubSeq(t, 1, n)
               c == t[n + 1]
    <2>3. z \in Seq(X) /\ c \in X
        BY <2>1
    <2> HIDE DEF z, c
    <2>4. u \o z \in Seq(X) /\ u \o Append(z, c) = Append(u \o z, c)
        BY <2>3
    <2> QED
        BY <2>1, <2>2, <2>4, Zenon DEF z, c
<1>3. \A n \in 0..Len(t) : f[n] = Append(ps, g(n))
    BY Zenon
<1> HIDE DEF f
<1>4. 0 \in 0..Len(t) /\ Len(t) \in 0..Len(t) /\ \A n \in 0..(Len(t) - 1) : n \in 0..Len(t)
                                                       /\ n + 1 \in 0..Len(t)
    OBVIOUS
<1>5. f[0] = Append(ps, u) /\ f[Len(t)] = Append(ps, u \o t)
    BY <1>1, <1>3, <1>4, Zenon
<1>6. ASSUME NEW n \in 0..(Len(t) - 1) PROVE f[n + 1] = Turn(BySep(sep), f[n], t[n + 1])
    <2> HIDE DEF g
    <2>1. AfterChar(Append(ps, g(n)), t[n + 1], sep) = Append(ps, Append(g(n), t[n + 1]))
        <3> DEFINE y == g(n)
                   c == t[n + 1]
        <3>1. y \in Seq(X) /\ c \in X /\ c # sep
            BY <1>2
        <3> HIDE DEF y, c
        <3>2. AfterChar(Append(ps, y), c, sep) = Append(ps, Append(y, c))
            BY <3>1, AfterCharIs
        <3> QED
            BY <3>2, Zenon DEF y, c
    <2>2. f[n] = Append(ps, g(n)) /\ f[n + 1] = Append(ps, g(n + 1))
        BY <1>3, <1>4, Zenon
    <2> QED
        BY <1>2, <2>1, <2>2, TurnIs, Zenon
<1>7. Comes(BySep(sep), Append(ps, u), t, f[Len(t)])
    <2> HIDE DEF g
    <2>1. f[0] = Append(ps, u)
        BY <1>5
    <2> DEFINE st == Append(ps, u)
               wh == BySep(sep)
    <2> HIDE DEF st, wh
    <2>2. f[0] = st /\ \A n \in 0..(Len(t) - 1) : f[n + 1] = Turn(wh, f[n], t[n + 1])
        BY <1>6, <2>1, Zenon DEF st, wh
    <2>3. Comes(wh, st, t, f[Len(t)])
        BY <2>2, ComesEach, Zenon
    <2> QED
        BY <2>3, Zenon DEF st, wh
<1> QED
    BY <1>5, <1>7, Zenon

\* The separator begins a piece.
LEMMA SepComes ==
    ASSUME NEW sep, NEW ps
    PROVE  Comes(BySep(sep), ps, <<sep>>, Append(ps, <<>>))
<1>1. Comes(BySep(sep), ps, <<sep>>, Turn(BySep(sep), ps, sep))
    BY ComesShort, Zenon
<1>2. Turn(BySep(sep), ps, sep) = Append(ps, <<>>)
    BY TurnIs, Zenon DEF AfterChar
<1> QED
    BY <1>1, <1>2, Zenon

\* The first piece of a text, and one more.
LEMMA PieceComes ==
    ASSUME NEW X, NEW t \in Seq(X), NEW sep, Free(t, sep)
    PROVE  /\ Comes(BySep(sep), << <<>> >>, t, <<t>>)
           /\ \A ps \in Seq(Seq(X)) : Comes(BySep(sep), ps, <<sep>> \o t, Append(ps, t))
<1>1. Comes(BySep(sep), << <<>> >>, t, <<t>>)
    <2>1. Comes(BySep(sep), Append(<<>>, <<>>), t, Append(<<>>, <<>> \o t))
        <3>1. <<>> \in Seq(Seq(X)) /\ <<>> \in Seq(X)
            BY EmptySeq, Zenon
        <3> QED
            BY <3>1, TextComes, Zenon
    <2>2. Append(<<>>, <<>>) = << <<>> >> /\ Append(<<>>, <<>> \o t) = <<t>>
        OBVIOUS
    <2> QED
        BY <2>1, <2>2, Zenon
<1>2. ASSUME NEW ps \in Seq(Seq(X))
      PROVE  Comes(BySep(sep), ps, <<sep>> \o t, Append(ps, t))
    <2>1. Comes(BySep(sep), ps, <<sep>>, Append(ps, <<>>))
        BY SepComes, Zenon
    <2>2. Comes(BySep(sep), Append(ps, <<>>), t, Append(ps, <<>> \o t))
        <3>1. <<>> \in Seq(X)
            BY EmptySeq, Zenon
        <3> QED
            BY <3>1, TextComes, Zenon
    <2>3. <<>> \o t = t
        OBVIOUS
    <2>4. Comes(BySep(sep), Append(ps, <<>>), t, Append(ps, t))
        BY <2>2, <2>3, Zenon
    <2> QED
        BY <2>1, <2>4, ComesJoined, Zenon
<1> QED
    BY <1>1, <1>2, Zenon

\* A text of one piece, of two and of three.
LEMMA PartsFew ==
    ASSUME NEW X, NEW sep, NEW a \in Seq(X), Free(a, sep), NEW b \in Seq(X), Free(b, sep)
    PROVE  /\ Parts(a, sep) = <<a>>
           /\ Parts(a \o (<<sep>> \o b), sep) = <<a, b>>
           /\ \A c \in Seq(X) : Free(c, sep) =>
                Parts(a \o (<<sep>> \o b) \o (<<sep>> \o c), sep) = <<a, b, c>>
<1> DEFINE s == a \o (<<sep>> \o b)
<1>1. Comes(BySep(sep), << <<>> >>, a, <<a>>)
    BY PieceComes, Zenon
<1>2. <<a>> \in Seq(Seq(X)) /\ Append(<<a>>, b) = <<a, b>> /\ <<a, b>> \in Seq(Seq(X))
      /\ \A c \in Seq(X) : Append(<<a, b>>, c) = <<a, b, c>>
    <2> DEFINE B == Seq(X)
    <2>1. a \in B /\ b \in B
        OBVIOUS
    <2> HIDE DEF B
    <2>2. <<a>> \in Seq(B) /\ <<a, b>> \in Seq(B)
        BY <2>1
    <2>3. Append(<<a>>, b) = <<a, b>> /\ \A c \in B : Append(<<a, b>>, c) = <<a, b, c>>
        BY <2>1, FewAppended
    <2> QED
        BY <2>2, <2>3, Zenon DEF B
<1>3. Comes(BySep(sep), << <<>> >>, s, <<a, b>>)
    <2>1. Comes(BySep(sep), <<a>>, <<sep>> \o b, Append(<<a>>, b))
        BY <1>2, PieceComes, Zenon
    <2>2. Comes(BySep(sep), << <<>> >>, s, Append(<<a>>, b))
        BY <1>1, <2>1, ComesJoined, Zenon
    <2> QED
        BY <1>2, <2>2, Zenon
<1>4. ASSUME NEW c \in Seq(X), Free(c, sep)
      PROVE  Comes(BySep(sep), << <<>> >>, s \o (<<sep>> \o c), <<a, b, c>>)
    <2>1. Comes(BySep(sep), <<a, b>>, <<sep>> \o c, Append(<<a, b>>, c))
        BY <1>2, <1>4, PieceComes, Zenon
    <2> HIDE DEF s
    <2>2. Comes(BySep(sep), << <<>> >>, s \o (<<sep>> \o c), Append(<<a, b>>, c))
        BY <1>3, <2>1, ComesJoined, Zenon
    <2> QED
        BY <1>2, <2>2, Zenon
<1> HIDE DEF s
<1>5. Parts(a, sep) = <<a>> /\ Parts(s, sep) = <<a, b>>
    BY <1>1, <1>3, PartsCome
<1>6. ASSUME NEW c \in Seq(X), Free(c, sep)
      PROVE  Parts(s \o (<<sep>> \o c), sep) = <<a, b, c>>
    BY <1>4, <1>6, PartsCome
<1> QED
    BY <1>5, <1>6, Zenon DEF s

\* Pieces with the separator between them.
Joined(ss, sep) == FlattenSeq([i \in DOMAIN ss |-> (IF i = 1 THEN <<>> ELSE <<sep>>) \o ss[i]])

LEMMA PartsMany ==
    ASSUME NEW X, NEW sep \in X, NEW ss \in Seq(Seq(X)), ss # <<>>,
           \A i \in DOMAIN ss : Free(ss[i], sep)
    PROVE  Parts(Joined(ss, sep), sep) = ss
<1> DEFINE z(i) == (IF i = 1 THEN <<>> ELSE <<sep>>) \o ss[i]
           zs == [i \in DOMAIN ss |-> z(i)]
           st == << <<>> >>
           f == [i \in 0..Len(ss) |-> IF i = 0 THEN st ELSE SubSeq(ss, 1, i)]
<1>1. Len(ss) \in Nat /\ DOMAIN ss = 1..Len(ss) /\ Len(ss) # 0
    OBVIOUS
<1>2. ASSUME NEW i \in 1..Len(ss) PROVE z(i) \in Seq(X)
    <2>1. ss[i] \in Seq(X) /\ <<>> \in Seq(X) /\ <<sep>> \in Seq(X)
        OBVIOUS
    <2> QED
        BY <2>1, ConcatType, Zenon
<1>3. zs \in Seq(Seq(X)) /\ Len(zs) = Len(ss) /\ \A i \in 1..Len(ss) : zs[i] = z(i)
    <2> HIDE DEF z
    <2>1. zs = [i \in 1..Len(ss) |-> zs[i]] /\ \A i \in 1..Len(ss) : zs[i] = z(i)
        BY <1>1
    <2> HIDE DEF zs
    <2>2. \A i \in 1..Len(ss) : zs[i] \in Seq(X)
        BY <1>2, <2>1, Zenon
    <2>3. zs \in Seq(Seq(X))
        BY <1>1, <2>1, <2>2, FunctionType, Zenon
    <2> QED
        BY <1>1, <2>1, <2>3
<1>4. /\ f[0] = st /\ f[Len(ss)] = ss
      /\ \A i \in 1..Len(ss) : f[i] = SubSeq(ss, 1, i) /\ f[i] \in Seq(Seq(X))
    <2> HIDE DEF st
    <2> QED
        BY <1>1
<1> HIDE DEF zs, f
<1>5. ASSUME NEW n \in 0..(Len(ss) - 1) PROVE Comes(BySep(sep), f[n], zs[n + 1], f[n + 1])
    <2>1. n + 1 \in 1..Len(ss) /\ ss[n + 1] \in Seq(X) /\ zs[n + 1] = z(n + 1)
        <3> HIDE DEF z
        <3> QED
            BY <1>1, <1>3
    <2>2. Free(ss[n + 1], sep)
        BY <1>1, <2>1, Zenon
    <2>3. CASE n = 0
        <3>1. zs[n + 1] = ss[n + 1] /\ f[n] = st /\ f[n + 1] = <<ss[n + 1]>>
            <4>1. n + 1 = 1
                BY <2>3
            <4>2. zs[1] = <<>> \o ss[1] /\ f[1] = SubSeq(ss, 1, 1)
                BY <1>4, <2>1, <4>1, Zenon
            <4>3. <<>> \o ss[1] = ss[1]
                BY <2>1, <4>1
            <4>4. SubSeq(ss, 1, 1) = <<ss[1]>>
                <5> DEFINE B == Seq(X)
                <5>1. ss \in Seq(B) /\ ss[1] \in B
                    BY <2>1, <4>1
                <5> HIDE DEF B
                <5> QED
                    BY <5>1, FewAppended
            <4> QED
                BY <1>4, <2>3, <4>1, <4>2, <4>3, <4>4, Zenon
        <3> QED
            BY <2>1, <2>2, <3>1, PieceComes, Zenon
    <2>4. CASE n # 0
        <3>1. n \in 1..Len(ss) /\ n + 1 # 1
            BY <1>1, <2>4
        <3>2. zs[n + 1] = <<sep>> \o ss[n + 1] /\ f[n] \in Seq(Seq(X))
            BY <1>4, <2>1, <3>1, Zenon
        <3>3. f[n + 1] = Append(f[n], ss[n + 1])
            <4>1. SubSeq(ss, 1, n + 1) = Append(SubSeq(ss, 1, n), ss[n + 1])
                BY <2>1, <3>1
            <4> QED
                BY <1>4, <2>1, <3>1, <4>1, Zenon
        <3> QED
            BY <2>1, <2>2, <3>2, <3>3, PieceComes, Zenon
    <2> QED
        BY <2>3, <2>4
<1>6. Comes(BySep(sep), st, FlattenSeq(zs), f[Len(zs)])
    <2>1. \A n \in 0..(Len(zs) - 1) : Comes(BySep(sep), f[n], zs[n + 1], f[n + 1])
        BY <1>3, <1>5, Zenon
    <2> HIDE DEF st
    <2> QED
        BY <1>3, <1>4, <2>1, ComesFlat
<1>7. Comes(BySep(sep), << <<>> >>, FlattenSeq(zs), ss)
    BY <1>3, <1>4, <1>6, Zenon
<1>8. Parts(FlattenSeq(zs), sep) = ss
    BY <1>7, PartsCome
<1> QED
    BY <1>8, Zenon DEF zs, Joined

\* ss_split_str, of two pieces and of three, when the last is not empty.
LEMMA SplitFew ==
    ASSUME NEW X, NEW sep, NEW a \in Seq(X), Free(a, sep), NEW b \in Seq(X), Free(b, sep)
    PROVE  /\ b # <<>> => SplitStr(a \o (<<sep>> \o b), sep) = <<a, b>>
           /\ \A c \in Seq(X) : Free(c, sep) /\ c # <<>> =>
                SplitStr(a \o (<<sep>> \o b) \o (<<sep>> \o c), sep) = <<a, b, c>>
<1>1. \A x, y, z : Last(<<x, y>>) = y /\ Last(<<x, y, z>>) = z
    BY DEF Last
<1>2. ASSUME b # <<>> PROVE SplitStr(a \o (<<sep>> \o b), sep) = <<a, b>>
    <2>1. Parts(a \o (<<sep>> \o b), sep) = <<a, b>>
        BY PartsFew
    <2> QED
        BY <1>1, <1>2, <2>1 DEF SplitStr
<1>3. ASSUME NEW c \in Seq(X), Free(c, sep), c # <<>>
      PROVE  SplitStr(a \o (<<sep>> \o b) \o (<<sep>> \o c), sep) = <<a, b, c>>
    <2>1. Parts(a \o (<<sep>> \o b) \o (<<sep>> \o c), sep) = <<a, b, c>>
        BY <1>3, PartsFew
    <2> QED
        BY <1>1, <1>3, <2>1 DEF SplitStr
<1> QED
    BY <1>2, <1>3, Zenon

-----------------------------------------------------------------------------
(* A multipart body, call by call *)

InQuotes(text) == <<Quote>> \o text \o <<Quote>>
Setting(key, text) == <<key>> \o (<<"=">> \o InQuotes(text))

\* What is free of a separator.
LEMMA FreeOf ==
    /\ \A x, sep : x # sep => Free(<<x>>, sep)
    /\ \A X : \A s \in Seq(X), t \in Seq(X) : \A sep :
           Free(s, sep) /\ Free(t, sep) => Free(s \o t, sep)
<1>1. ASSUME NEW x, NEW sep, x # sep PROVE Free(<<x>>, sep)
    BY <1>1 DEF Free
<1>2. ASSUME NEW X, NEW s \in Seq(X), NEW t \in Seq(X), NEW sep, Free(s, sep), Free(t, sep)
      PROVE  Free(s \o t, sep)
    BY <1>2 DEF Free
<1> QED
    BY <1>1, <1>2, Zenon

\* A sequence behind one element, and before one.
LEMMA OneBefore ==
    ASSUME NEW X, NEW t \in Seq(X), NEW x \in X, NEW w, w = <<x>> \o t
    PROVE  /\ w \in Seq(X) /\ Len(w) = Len(t) + 1 /\ w # <<>>
           /\ w[1] = x /\ \A i \in 1..Len(t) : w[i + 1] = t[i]
<1>1. w \in Seq(X) /\ Len(w) = Len(t) + 1
    OBVIOUS
<1>2. w # <<>>
    BY <1>1
<1>3. w[1] = x
    OBVIOUS
<1>4. \A i \in 1..Len(t) : w[i + 1] = t[i]
    OBVIOUS
<1> QED
    BY <1>1, <1>2, <1>3, <1>4

LEMMA OneAfter ==
    ASSUME NEW X, NEW w \in Seq(X), NEW x \in X, NEW z, z = w \o <<x>>
    PROVE  z \in Seq(X) /\ Len(z) = Len(w) + 1 /\ \A i \in 1..Len(w) : z[i] = w[i]
<1>1. z \in Seq(X) /\ Len(z) = Len(w) + 1
    OBVIOUS
<1>2. \A i \in 1..Len(w) : z[i] = w[i]
    OBVIOUS
<1> QED
    BY <1>1, <1>2

\* What is inside of quotes.
LEMMA Inside ==
    ASSUME NEW X, NEW t \in Seq(X), NEW q \in X, NEW z, z = (<<q>> \o t) \o <<q>>
    PROVE  z \in Seq(X) /\ z # <<>> /\ SubSeq(z, 2, Len(z) - 1) = t
<1> DEFINE w == <<q>> \o t
           n == Len(t)
           y == SubSeq(z, 2, n + 1)
<1>1. /\ w \in Seq(X) /\ Len(w) = n + 1 /\ n \in Nat
      /\ \A i \in 1..n : w[i + 1] = t[i]
    BY OneBefore
<1> HIDE DEF w
<1>2. z \in Seq(X) /\ Len(z) = Len(w) + 1 /\ \A i \in 1..Len(w) : z[i] = w[i]
    BY <1>1, OneAfter DEF w
<1> HIDE DEF n
<1>3. Len(z) = n + 2 /\ Len(z) - 1 = n + 1 /\ \A i \in 1..n : i + 1 \in 1..Len(w)
    BY <1>1, <1>2
<1>4. y \in Seq(X) /\ Len(y) = n /\ \A i \in 1..n : y[i] = z[i + 1]
    BY <1>1, <1>2, <1>3
<1>5. \A i \in 1..n : y[i] = t[i]
    BY <1>1, <1>2, <1>3, <1>4, Zenon
<1> HIDE DEF y
<1>6. y = t
    BY <1>4, <1>5, SameSeq, Zenon DEF n
<1>7. z # <<>>
    BY <1>1, <1>3
<1> QED
    BY <1>2, <1>3, <1>6, <1>7, Zenon DEF y

\* A text in quotes, and key="text".
LEMMA SettingIs ==
    ASSUME NEW X, NEW text \in Seq(X), Quote \in X, "=" \in X, NEW key \in X
    PROVE  /\ InQuotes(text) \in Seq(X) /\ InQuotes(text) # <<>>
           /\ SubSeq(InQuotes(text), 2, Len(InQuotes(text)) - 1) = text
           /\ Setting(key, text) \in Seq(X) /\ Setting(key, text) # <<>>
           /\ \A sep : Free(text, sep) /\ sep # Quote =>
                /\ Free(InQuotes(text), sep)
                /\ key # sep /\ sep # "=" => Free(Setting(key, text), sep)
<1> DEFINE q == Quote
           z == InQuotes(text)
           k == "="
           e == <<k>> \o z
           s == <<key>> \o e
<1>1. q \in X /\ k \in X /\ z = (<<q>> \o text) \o <<q>> /\ s = Setting(key, text)
    BY Zenon DEF InQuotes, Setting
<1> HIDE DEF q, k, z
<1>2. z \in Seq(X) /\ z # <<>> /\ SubSeq(z, 2, Len(z) - 1) = text
    BY <1>1, Inside
<1>3. e \in Seq(X)
    BY <1>1, <1>2, OneBefore
<1> HIDE DEF e
<1>4. s \in Seq(X) /\ s # <<>>
    BY <1>1, <1>3, OneBefore
<1>5. <<q>> \in Seq(X) /\ <<k>> \in Seq(X) /\ <<key>> \in Seq(X) /\ <<q>> \o text \in Seq(X)
    BY <1>1, OneBefore
<1>6. ASSUME NEW sep, Free(text, sep), sep # Quote PROVE Free(z, sep)
    <2>1. Free(<<q>>, sep)
        <3>1. q # sep
            BY <1>6, Zenon DEF q
        <3> QED
            BY <3>1, FreeOf, Zenon
    <2>2. Free(<<q>> \o text, sep)
        BY <1>5, <1>6, <2>1, FreeOf, Zenon
    <2>3. Free((<<q>> \o text) \o <<q>>, sep)
        BY <1>5, <2>1, <2>2, FreeOf, Zenon
    <2> QED
        BY <1>1, <2>3, Zenon
<1>7. ASSUME NEW sep, Free(text, sep), sep # Quote, key # sep, sep # "=" PROVE Free(s, sep)
    <2>1. Free(<<k>>, sep) /\ Free(<<key>>, sep) /\ Free(z, sep)
        <3>1. k # sep
            BY <1>7 DEF k
        <3> QED
            BY <1>6, <1>7, <3>1, FreeOf, Zenon
    <2>2. Free(e, sep)
        BY <1>2, <1>5, <2>1, FreeOf, Zenon DEF e
    <2> QED
        BY <1>3, <1>5, <2>1, <2>2, FreeOf, Zenon
<1> HIDE DEF s
<1> QED
    BY <1>1, <1>2, <1>4, <1>6, <1>7, Zenon DEF z

\* Joining is associative.
LEMMA Assoc ==
    ASSUME NEW X, NEW s \in Seq(X), NEW t \in Seq(X), NEW u \in Seq(X)
    PROVE  (s \o t) \o u = s \o (t \o u)
OBVIOUS

\* A sequence of a few and another one, element by element. (The provers find the
\* instances of a named relation only.)
Two(a, b) == <<a, b>> = <<a>> \o <<b>>
Three(a, b, c, s) == <<a, b, c>> \o s = <<a>> \o (<<b>> \o (<<c>> \o s))
Four(a, b, c, d, s) == <<a, b, c, d>> \o s = <<a>> \o (<<b>> \o (<<c>> \o (<<d>> \o s)))

LEMMA Chain ==
    ASSUME NEW X, NEW a \in X, NEW b \in X, NEW c \in X, NEW d \in X, NEW s \in Seq(X)
    PROVE  Two(a, b) /\ Three(a, b, c, s) /\ Four(a, b, c, d, s)
<1> DEFINE i == <<a>>
           j == <<b>>
           k == <<c>>
           l == <<d>>
           z == <<c, d>>
           w == <<b, c, d>>
           y == <<b, c>>
<1>1. i \in Seq(X) /\ j \in Seq(X) /\ k \in Seq(X) /\ l \in Seq(X)
    BY SingleType, Zenon
<1>2. z \in Seq(X) /\ w \in Seq(X) /\ y \in Seq(X)
    OBVIOUS
<1>3. Append(<<a>>, b) = i \o j
    OBVIOUS
<1>4. Append(<<b>>, c) = j \o k
    OBVIOUS
<1>5. Append(<<c>>, d) = k \o l
    OBVIOUS
<1>6. Append(<<a>>, b) = <<a, b>> /\ Append(<<b>>, c) = <<b, c>> /\ Append(<<c>>, d) = <<c, d>>
    BY FewAppended
<1>7. <<a, b>> = i \o j /\ y = j \o k /\ z = k \o l
    BY <1>3, <1>4, <1>5, <1>6, Zenon
<1>8. w = j \o z
    OBVIOUS
<1>9. <<a, b, c>> = i \o y
    OBVIOUS
<1>10. <<a, b, c, d>> = i \o w
    OBVIOUS
<1> HIDE DEF i, j, k, l, z, w, y
<1>11. (k \o l) \o s = k \o (l \o s)
    BY <1>1, Assoc
<1>12. (j \o k) \o s = j \o (k \o s)
    BY <1>1, Assoc
<1>13. (j \o z) \o s = j \o (z \o s)
    <2>1. j \in Seq(X) /\ z \in Seq(X)
        BY <1>1, <1>2, Zenon
    <2> QED
        BY <2>1, Assoc
<1>14. (i \o y) \o s = i \o (y \o s)
    <2>1. i \in Seq(X) /\ y \in Seq(X)
        BY <1>1, <1>2, Zenon
    <2> QED
        BY <2>1, Assoc
<1>15. (i \o w) \o s = i \o (w \o s)
    <2>1. i \in Seq(X) /\ w \in Seq(X)
        BY <1>1, <1>2, Zenon
    <2> QED
        BY <2>1, Assoc
<1>16. Two(a, b)
    BY <1>7, Zenon DEF Two, i, j
<1>17. <<a, b, c>> \o s = i \o (j \o (k \o s))
    BY <1>7, <1>9, <1>12, <1>14, Zenon
<1>18. <<a, b, c, d>> \o s = i \o (j \o (k \o (l \o s)))
    BY <1>7, <1>8, <1>10, <1>11, <1>13, <1>15, Zenon
<1> QED
    BY <1>16, <1>17, <1>18, Zenon DEF Three, Four, i, j, k, l

\* The quote is no separator.
LEMMA QuoteIs == Quote # "=" /\ Quote # ";"
BY Zenon DEF Quote

\* ss_parse_disposition_value gives the text that is set.
IsSetting(key, text) == DispositionValue(Setting(key, text)) = [ok |-> TRUE, text |-> text]

LEMMA DispositionIs ==
    ASSUME NEW X, Quote \in X, "=" \in X, NEW key \in X, key # "=",
           NEW text \in Seq(X), Free(text, "=")
    PROVE  IsSetting(key, text)
<1> DEFINE q == InQuotes(text)
           k == <<key>>
           t == SplitStr(Setting(key, text), "=")
<1>1. /\ q \in Seq(X) /\ q # <<>> /\ SubSeq(q, 2, Len(q) - 1) = text
      /\ Free(q, "=")
    <2>1. "=" # Quote
        BY QuoteIs
    <2>2. /\ InQuotes(text) \in Seq(X) /\ InQuotes(text) # <<>>
          /\ SubSeq(InQuotes(text), 2, Len(InQuotes(text)) - 1) = text
          /\ Setting(key, text) \in Seq(X) /\ Setting(key, text) # <<>>
          /\ \A sep : Free(text, sep) /\ sep # Quote =>
                /\ Free(InQuotes(text), sep)
                /\ key # sep /\ sep # "=" => Free(Setting(key, text), sep)
        BY SettingIs
    <2> QED
        BY <2>1, <2>2, Zenon
<1>2. k \in Seq(X) /\ Free(k, "=")
    BY SingleType, FreeOf, Zenon
<1>3. Setting(key, text) = k \o (<<"=">> \o q)
    BY Zenon DEF Setting
<1> HIDE DEF q, k
<1>4. t = <<k, q>>
    <2>1. SplitStr(k \o (<<"=">> \o q), "=") = <<k, q>>
        BY <1>1, <1>2, SplitFew
    <2> QED
        BY <1>3, <2>1, Zenon
<1>5. Len(<<k, q>>) = 2 /\ <<k, q>>[2] = q
    OBVIOUS
<1>6. q = <<Quote, Quote>> \/ text # <<>>
    <2> SUFFICES ASSUME text = <<>> PROVE q = <<Quote, Quote>>
        OBVIOUS
    <2>1. <<Quote>> \o <<>> = <<Quote>>
        OBVIOUS
    <2>2. q = <<Quote>> \o <<Quote>>
        BY <2>1, Zenon DEF q, InQuotes
    <2>3. <<>> \in Seq({Quote}) /\ Quote \in {Quote}
        BY EmptySeq, Zenon
    <2>4. Two(Quote, Quote)
        BY <2>3, Chain, Zenon
    <2> QED
        BY <2>2, <2>4, Zenon DEF Two
<1> HIDE DEF t
<1>7. /\ Len(t) = 2 /\ t[2] = q
      /\ (t[2] = <<Quote, Quote>> \/ SubSeq(t[2], 2, Len(t[2]) - 1) # <<>>) = TRUE
      /\ SubSeq(t[2], 2, Len(t[2]) - 1) = text
    BY <1>1, <1>4, <1>5, <1>6, Zenon
<1> QED
    BY <1>7, Zenon DEF DispositionValue, IsSetting, t

\* The Content-Disposition of a part.
Disposition(name, file, filename) ==
    <<"form-data", ";", " name", "=">> \o InQuotes(name)
    \o (IF file THEN <<";", " filename", "=">> \o InQuotes(filename) ELSE <<>>)

Written == {"form-data", ";", " name", "=", " filename", Quote}

\* A text of two pieces or of three, split at m.
SplitsAt(m, a, b, c) ==
    /\ SplitStr(a \o (<<m>> \o b) \o <<>>, m) = <<a, b>>
    /\ SplitStr(a \o (<<m>> \o b) \o (<<m>> \o c), m) = <<a, b, c>>

LEMMA SplitsFew ==
    ASSUME NEW X, NEW m \in X, NEW a \in Seq(X), Free(a, m),
           NEW b \in Seq(X), b # <<>>, Free(b, m), NEW c \in Seq(X), c # <<>>, Free(c, m)
    PROVE  SplitsAt(m, a, b, c)
<1> DEFINE w == a \o (<<m>> \o b)
           S(e) == SplitStr(w \o (<<m>> \o e), m)
<1>1. SplitStr(w, m) = <<a, b>> /\ \A e \in Seq(X) : Free(e, m) /\ e # <<>> => S(e) = <<a, b, e>>
    BY SplitFew
<1>2. w \in Seq(X)
    <2>1. <<m>> \o b \in Seq(X)
        BY OneBefore
    <2> QED
        BY <2>1, ConcatType, Zenon
<1> HIDE DEF w
<1>3. w \o <<>> = w
    BY <1>2
<1> QED
    BY <1>1, <1>3, Zenon DEF w, SplitsAt

\* The pieces of a Content-Disposition. (The SMT backend does not take the semicolon.)
IsSplit(name, filename) ==
    /\ SplitStr(Disposition(name, FALSE, filename), ";")
           = << <<"form-data">>, Setting(" name", name)>>
    /\ SplitStr(Disposition(name, TRUE, filename), ";")
           = << <<"form-data">>, Setting(" name", name), Setting(" filename", filename)>>

LEMMA DispositionSplit ==
    ASSUME NEW X, Written \subseteq X, NEW name \in Seq(X), NEW filename \in Seq(X),
           Free(name, ";"), Free(filename, ";")
    PROVE  IsSplit(name, filename)
<1> DEFINE a == <<"form-data">>
           b == Setting(" name", name)
           c == Setting(" filename", filename)
           q == InQuotes(name)
           p == InQuotes(filename)
           s == <<";">>
<1>1. "form-data" \in X /\ ";" \in X /\ " name" \in X /\ "=" \in X /\ " filename" \in X
      /\ Quote \in X
    BY Zenon DEF Written
<1>2. a \in Seq(X) /\ Free(a, ";") /\ s \in Seq(X)
    <2>1. "form-data" # ";"
        OBVIOUS
    <2> QED
        BY <1>1, <2>1, SingleType, FreeOf, Zenon
<1>3. q \in Seq(X) /\ b \in Seq(X) /\ b # <<>> /\ Free(b, ";")
    <2>1. ";" # Quote /\ " name" # ";" /\ ";" # "="
        BY QuoteIs
    <2>2. /\ InQuotes(name) \in Seq(X) /\ InQuotes(name) # <<>>
          /\ SubSeq(InQuotes(name), 2, Len(InQuotes(name)) - 1) = name
          /\ Setting(" name", name) \in Seq(X) /\ Setting(" name", name) # <<>>
          /\ \A sep : Free(name, sep) /\ sep # Quote =>
                /\ Free(InQuotes(name), sep)
                /\ " name" # sep /\ sep # "=" => Free(Setting(" name", name), sep)
        BY <1>1, SettingIs
    <2> QED
        BY <2>1, <2>2, Zenon
<1>4. p \in Seq(X) /\ c \in Seq(X) /\ c # <<>> /\ Free(c, ";")
    <2>1. ";" # Quote /\ " filename" # ";" /\ ";" # "="
        BY QuoteIs
    <2>2. /\ InQuotes(filename) \in Seq(X) /\ InQuotes(filename) # <<>>
          /\ SubSeq(InQuotes(filename), 2, Len(InQuotes(filename)) - 1) = filename
          /\ Setting(" filename", filename) \in Seq(X) /\ Setting(" filename", filename) # <<>>
          /\ \A sep : Free(filename, sep) /\ sep # Quote =>
                /\ Free(InQuotes(filename), sep)
                /\ " filename" # sep /\ sep # "=" => Free(Setting(" filename", filename), sep)
        BY <1>1, SettingIs
    <2> QED
        BY <2>1, <2>2, Zenon
<1>5. <<"form-data", ";", " name", "=">> \o q = a \o (s \o b)
    <2>1. Four("form-data", ";", " name", "=", q)
        BY <1>1, <1>3, Chain, Zenon
    <2> QED
        BY <2>1, Zenon DEF Four, Setting
<1>6. <<";", " filename", "=">> \o p = s \o c
    <2>1. Three(";", " filename", "=", p)
        BY <1>1, <1>4, Chain, Zenon
    <2> QED
        BY <2>1, Zenon DEF Three, Setting
<1>7. SplitsAt(";", a, b, c)
    <2>1. ";" \in X
        BY <1>1, Zenon
    <2> HIDE DEF a, b, c
    <2> QED
        BY <1>2, <1>3, <1>4, <2>1, SplitsFew, Zenon
<1>8. /\ Disposition(name, FALSE, filename) = a \o (s \o b) \o <<>>
      /\ Disposition(name, TRUE, filename) = a \o (s \o b) \o (s \o c)
    <2> HIDE DEF a, b, c, s
    <2> QED
        BY <1>5, <1>6, Zenon DEF Disposition
<1> HIDE DEF a, b, c, q, p
<1> QED
    BY <1>7, <1>8, Zenon DEF a, b, c, SplitsAt, IsSplit

\* The accumulator of ParseMultipart, with items and a last one it, and a callback.
With(items, it, params) == NoneYet(Append(items, it), params)
Call(on, text) == [on |-> on, text |-> text]
ItemOf(name, filename, file, type, data, typed) ==
    [name |-> name, filename |-> filename, is_file |-> file, type |-> type, data |-> data,
     typed |-> typed]

ItemFields == {"name", "filename", "is_file", "type", "data", "typed"}
\* An item is its fields.
LEMMA ItemIs ==
    ASSUME NEW i, DOMAIN i = ItemFields, i = [x \in DOMAIN i |-> i[x]]
    PROVE  i = ItemOf(i.name, i.filename, i.is_file, i.type, i.data, i.typed)
<1> DEFINE k == ItemOf(i.name, i.filename, i.is_file, i.type, i.data, i.typed)
<1>1. k = [x \in ItemFields |-> k[x]]
    BY DEF ItemOf, ItemFields
<1>2. k.name = i.name /\ k.filename = i.filename /\ k.is_file = i.is_file /\ k.type = i.type /\ k.data = i.data /\ k.typed = i.typed
    BY DEF ItemOf
<1> HIDE DEF k
<1>3. \A x \in ItemFields : k[x] = i[x]
    BY <1>2 DEF ItemFields
<1>4. i = k
    BY <1>1, <1>3
<1> QED
    BY <1>4 DEF k

\* An item with another field.
Changed(n, f, b, t, d, z, x, y) ==
    /\ [ItemOf(n, f, b, t, d, z) EXCEPT !.typed = x] = ItemOf(n, f, b, t, d, x)
    /\ [ItemOf(n, f, b, t, d, z) EXCEPT !.type = x] = ItemOf(n, f, b, x, d, z)
    /\ [ItemOf(n, f, b, t, d, z) EXCEPT !.data = x] = ItemOf(n, f, b, t, x, z)
    /\ [ItemOf(n, f, b, t, d, z) EXCEPT !.name = x] = ItemOf(x, f, b, t, d, z)
    /\ [ItemOf(n, f, b, t, d, z) EXCEPT !.name = x, !.is_file = TRUE, !.filename = y]
           = ItemOf(x, y, TRUE, t, d, z)

LEMMA ItemExcept ==
    ASSUME NEW n, NEW f, NEW b, NEW t, NEW d, NEW z, NEW x, NEW y
    PROVE  Changed(n, f, b, t, d, z, x, y)
<1> DEFINE i == ItemOf(n, f, b, t, d, z)
           i1 == [i EXCEPT !.typed = x]
           i2 == [i EXCEPT !.type = x]
           i3 == [i EXCEPT !.data = x]
           i4 == [i EXCEPT !.name = x]
           i5 == [i EXCEPT !.name = x, !.is_file = TRUE, !.filename = y]
<1>1. /\ DOMAIN i = ItemFields /\ i.name = n /\ i.filename = f /\ i.is_file = b
      /\ i.type = t /\ i.data = d /\ i.typed = z
    BY DEF ItemOf, ItemFields
<1> HIDE DEF i
<1>2. /\ DOMAIN i1 = DOMAIN i /\ i1 = [j \in DOMAIN i1 |-> i1[j]]
      /\ DOMAIN i2 = DOMAIN i /\ i2 = [j \in DOMAIN i2 |-> i2[j]]
      /\ DOMAIN i3 = DOMAIN i /\ i3 = [j \in DOMAIN i3 |-> i3[j]]
      /\ DOMAIN i4 = DOMAIN i /\ i4 = [j \in DOMAIN i4 |-> i4[j]]
      /\ DOMAIN i5 = DOMAIN i /\ i5 = [j \in DOMAIN i5 |-> i5[j]]
    BY Zenon
<1>3. i1.name = n /\ i1.filename = f /\ i1.is_file = b /\ i1.type = t /\ i1.data = d /\ i1.typed = x
    BY <1>1 DEF ItemFields
<1>4. i2.name = n /\ i2.filename = f /\ i2.is_file = b /\ i2.type = x /\ i2.data = d /\ i2.typed = z
    BY <1>1 DEF ItemFields
<1>5. i3.name = n /\ i3.filename = f /\ i3.is_file = b /\ i3.type = t /\ i3.data = x /\ i3.typed = z
    BY <1>1 DEF ItemFields
<1>6. i4.name = x /\ i4.filename = f /\ i4.is_file = b /\ i4.type = t /\ i4.data = d /\ i4.typed = z
    BY <1>1 DEF ItemFields
<1>7. i5.name = x /\ i5.filename = y /\ i5.is_file = TRUE /\ i5.type = t /\ i5.data = d /\ i5.typed = z
    BY <1>1 DEF ItemFields
<1> HIDE DEF i1, i2, i3, i4, i5
<1>8. i1 = ItemOf(n, f, b, t, d, x)
    BY <1>1, <1>2, <1>3, ItemIs
<1>9. i2 = ItemOf(n, f, b, x, d, z)
    BY <1>1, <1>2, <1>4, ItemIs
<1>10. i3 = ItemOf(n, f, b, t, x, z)
    BY <1>1, <1>2, <1>5, ItemIs
<1>11. i4 = ItemOf(x, f, b, t, d, z)
    BY <1>1, <1>2, <1>6, ItemIs
<1>12. i5 = ItemOf(x, y, TRUE, t, d, z)
    BY <1>1, <1>2, <1>7, ItemIs
<1> QED
    BY <1>8, <1>9, <1>10, <1>11, <1>12, Zenon DEF Changed, i, i1, i2, i3, i4, i5

\* The accumulator with another field.
LEMMA NoneYetExcept ==
    ASSUME NEW I, NEW P, NEW x
    PROVE  /\ [NoneYet(I, P) EXCEPT !.items = x] = NoneYet(x, P)
           /\ [NoneYet(I, P) EXCEPT !.params = x] = NoneYet(I, x)
<1> DEFINE m == NoneYet(I, P)
           u == [m EXCEPT !.items = x]
           v == [m EXCEPT !.params = x]
           k == NoneYet(x, P)
           l == NoneYet(I, x)
           F == {"items", "params", "failed"}
<1>1. DOMAIN m = F /\ m.items = I /\ m.params = P /\ m.failed = FALSE
    BY DEF NoneYet
<1>2. DOMAIN k = F /\ k.items = x /\ k.params = P /\ k.failed = FALSE /\ k = [j \in DOMAIN k |-> k[j]]
    BY DEF NoneYet
<1>3. DOMAIN l = F /\ l.items = I /\ l.params = x /\ l.failed = FALSE /\ l = [j \in DOMAIN l |-> l[j]]
    BY DEF NoneYet
<1> HIDE DEF m, k, l
<1>4. /\ DOMAIN u = DOMAIN m /\ u = [j \in DOMAIN u |-> u[j]]
      /\ DOMAIN v = DOMAIN m /\ v = [j \in DOMAIN v |-> v[j]]
    BY Zenon
<1>5. u.items = x /\ u.params = P /\ u.failed = FALSE
    BY <1>1
<1>6. v.items = I /\ v.params = x /\ v.failed = FALSE
    BY <1>1
<1> HIDE DEF u, v
<1>7. u = k
    BY <1>1, <1>2, <1>4, <1>5
<1>8. v = l
    BY <1>1, <1>3, <1>4, <1>6
<1> QED
    BY <1>7, <1>8, Zenon DEF m, u, v, k, l

Gives(m, on, text, z) == Multipart(m, Call(on, text)) = z

\* The last item, and another one in its place.
HasLast(m, I, it, P) ==
    /\ ~m.failed /\ m.items # <<>> /\ Last(m.items) = it
    /\ \A y : [m EXCEPT !.items = Append(Front(m.items), y)] = With(I, y, P)

LEMMA WithIs ==
    ASSUME NEW I, IsSeq(I), NEW it, NEW P
    PROVE  HasLast(With(I, it, P), I, it, P)
<1> DEFINE s == Append(I, it)
           m == With(I, it, P)
<1>1. s # <<>> /\ Last(s) = it /\ Front(s) = I
    <2>1. PICK Y : I \in Seq(Y)
        BY Zenon DEF IsSeq
    <2> DEFINE X == Y \cup {it}
    <2>2. I \in Seq(X) /\ it \in X
        BY <2>1
    <2> HIDE DEF X
    <2>3. s \in Seq(X) /\ Len(s) = Len(I) + 1 /\ s[Len(I) + 1] = it /\ Len(I) \in Nat
        BY <2>2
    <2>4. SubSeq(s, 1, Len(I)) = I
        BY <2>2
    <2> HIDE DEF s
    <2>5. s # <<>> /\ Len(s) - 1 = Len(I)
        BY <2>3
    <2> QED
        BY <2>3, <2>4, <2>5, Zenon DEF Last, Front
<1>2. ~m.failed /\ m.items = s
    <2> HIDE DEF s
    <2> QED
        BY DEF With, NoneYet, s
<1>3. ASSUME NEW y PROVE [m EXCEPT !.items = Append(Front(m.items), y)] = With(I, y, P)
    <2> DEFINE z == Append(I, y)
    <2>1. Append(Front(m.items), y) = z
        BY <1>1, <1>2, Zenon
    <2>2. m = NoneYet(s, P) /\ With(I, y, P) = NoneYet(z, P)
        BY Zenon DEF With
    <2> HIDE DEF z, m, s
    <2>3. [NoneYet(s, P) EXCEPT !.items = z] = NoneYet(z, P)
        BY NoneYetExcept
    <2> QED
        BY <2>1, <2>2, <2>3, Zenon
<1> HIDE DEF m
<1>4. HasLast(m, I, it, P)
    BY <1>1, <1>2, <1>3, Zenon DEF HasLast
<1> QED
    BY <1>4, Zenon DEF m

\* What each callback gives.
LEMMA GivesPart ==
    ASSUME NEW I, IsSeq(I), NEW P
    PROVE  Gives(NoneYet(I, P), "name", "Content-Disposition", With(I, NewFileItem, P))
<1> DEFINE m == NoneYet(I, P)
           call == Call("name", "Content-Disposition")
           z == Append(I, NewFileItem)
<1>1. With(I, NewFileItem, P) = NoneYet(z, P)
    BY Zenon DEF With
<1>2. call.on = "name" /\ call.text = "Content-Disposition"
    BY DEF Call
<1>3. ~m.failed /\ m.items = I
    BY DEF NoneYet
<1> HIDE DEF call, z
<1>4. [m EXCEPT !.items = z] = NoneYet(z, P)
    BY NoneYetExcept
<1> HIDE DEF m
<1>5. Multipart(m, call) = OnMultipartName(m, call.text)
    BY <1>2, <1>3 DEF Multipart
<1>6. OnMultipartName(m, call.text) = [m EXCEPT !.items = Append(m.items, NewFileItem)]
    BY <1>2 DEF OnMultipartName
<1>7. Multipart(m, call) = With(I, NewFileItem, P)
    BY <1>1, <1>3, <1>4, <1>5, <1>6, Zenon DEF z
<1> QED
    BY <1>7, Zenon DEF m, call, Gives

LEMMA GivesType ==
    ASSUME NEW I, IsSeq(I), NEW P, NEW n, NEW f, NEW b, NEW t, NEW d, NEW z, NEW text
    PROVE  /\ Gives(With(I, ItemOf(n, f, b, t, d, z), P), "name", "Content-Type",
                    With(I, ItemOf(n, f, b, t, d, TRUE), P))
           /\ Gives(With(I, ItemOf(n, f, b, t, d, TRUE), P), "value", text,
                    With(I, ItemOf(n, f, b, text, d, TRUE), P))
           /\ Gives(With(I, ItemOf(n, f, b, t, d, z), P), "over", "",
                    With(I, ItemOf(n, f, b, t, d, TRUE), P))
<1> DEFINE it == ItemOf(n, f, b, t, d, z)
           to == ItemOf(n, f, b, t, d, TRUE)
           tt == ItemOf(n, f, b, text, d, TRUE)
           m == With(I, it, P)
           u == With(I, to, P)
<1>1. [it EXCEPT !.typed = TRUE] = to /\ [to EXCEPT !.type = text] = tt /\ to.typed = TRUE
    <2>1. Changed(n, f, b, t, d, z, TRUE, TRUE) /\ Changed(n, f, b, t, d, TRUE, text, text)
        BY ItemExcept, Zenon
    <2>2. [it EXCEPT !.typed = TRUE] = to /\ [to EXCEPT !.type = text] = tt
        BY <2>1, Zenon DEF Changed
    <2>3. to.typed = TRUE
        BY DEF ItemOf
    <2> QED
        BY <2>1, <2>2, <2>3
<1> HIDE DEF it, to, tt
<1>2. /\ ~m.failed /\ m.items # <<>> /\ Last(m.items) = it
      /\ \A y : [m EXCEPT !.items = Append(Front(m.items), y)] = With(I, y, P)
    <2>1. HasLast(m, I, it, P)
        BY WithIs, Zenon
    <2> QED
        BY <2>1, Zenon DEF HasLast
<1>3. /\ ~u.failed /\ u.items # <<>> /\ Last(u.items) = to
      /\ \A y : [u EXCEPT !.items = Append(Front(u.items), y)] = With(I, y, P)
    <2>1. HasLast(u, I, to, P)
        BY WithIs, Zenon
    <2> QED
        BY <2>1, Zenon DEF HasLast
<1> HIDE DEF m, u
<1>4. OnLast(m, LAMBDA item : [item EXCEPT !.typed = TRUE]) = u
    BY <1>1, <1>2, Zenon DEF OnLast, u
<1>5. OnLast(u, LAMBDA item : [item EXCEPT !.type = text]) = With(I, tt, P)
    BY <1>1, <1>3, Zenon DEF OnLast
<1>6. Multipart(m, Call("name", "Content-Type")) = u
    <2> DEFINE call == Call("name", "Content-Type")
    <2>1. call.on = "name" /\ call.text = "Content-Type"
        BY DEF Call
    <2> HIDE DEF call
    <2>2. Multipart(m, call) = OnMultipartName(m, call.text)
        BY <1>2, <2>1 DEF Multipart
    <2>3. OnMultipartName(m, call.text) = OnLast(m, LAMBDA item : [item EXCEPT !.typed = TRUE])
        BY <2>1 DEF OnMultipartName
    <2> QED
        BY <1>4, <2>2, <2>3, Zenon DEF call
<1>7. Multipart(u, Call("value", text)) = With(I, tt, P)
    <2> DEFINE call == Call("value", text)
    <2>1. call.on = "value" /\ call.text = text
        BY DEF Call
    <2> HIDE DEF call
    <2>2. Multipart(u, call) = OnMultipartValue(u, text)
        BY <1>3, <2>1 DEF Multipart
    <2>3. OnMultipartValue(u, text) = OnLast(u, LAMBDA item : [item EXCEPT !.type = text])
        BY <1>1, <1>3, Zenon DEF OnMultipartValue
    <2> QED
        BY <1>5, <2>2, <2>3, Zenon DEF call
<1>8. Multipart(m, Call("over", "")) = u
    <2> DEFINE call == Call("over", "")
    <2>1. call.on = "over"
        BY DEF Call
    <2> HIDE DEF call
    <2>2. Multipart(m, call) = OnMultipartDataOver(m)
        BY <1>2, <2>1 DEF Multipart
    <2>3. OnMultipartDataOver(m) = OnLast(m, LAMBDA item : [item EXCEPT !.typed = TRUE])
        BY Zenon DEF OnMultipartDataOver
    <2> QED
        BY <1>4, <2>2, <2>3, Zenon DEF call
<1> QED
    BY <1>6, <1>7, <1>8, Zenon DEF Gives, m, u, it, to, tt

\* The value of a Content-Disposition is what ss_parse_multi_disposition makes of it.
LEMMA GivesValue ==
    ASSUME NEW I, IsSeq(I), NEW P, NEW text, NEW w,
           OnDisposition(With(I, NewFileItem, P), text) = w
    PROVE  Gives(With(I, NewFileItem, P), "value", text, w)
<1> DEFINE m == With(I, NewFileItem, P)
           call == Call("value", text)
<1>1. HasLast(m, I, NewFileItem, P)
    BY WithIs, Zenon
<1>2. call.on = "value" /\ call.text = text
    BY DEF Call
<1>3. NewFileItem.typed = FALSE
    BY DEF NewFileItem
<1>4. OnDisposition(m, text) = w
    OBVIOUS
<1> HIDE DEF m, call
<1>5. ~m.failed /\ m.items # <<>> /\ Last(m.items) = NewFileItem
    BY <1>1, Zenon DEF HasLast
<1>6. Multipart(m, call) = OnMultipartValue(m, text)
    BY <1>2, <1>5 DEF Multipart
<1>7. OnMultipartValue(m, text) = OnDisposition(m, text)
    BY <1>3, <1>5, Zenon DEF OnMultipartValue
<1> QED
    BY <1>4, <1>6, <1>7, Zenon DEF m, call, Gives

\* A pair and a triple have that many elements.
IsPair(t, b) == ~(Len(t) < 2) /\ Len(t) = 2 /\ t[2] = b
IsTriple(t, b, c) == ~(Len(t) < 2) /\ Len(t) # 2 /\ t[2] = b /\ t[3] = c

LEMMA FewLength ==
    \A t, a, b, c : /\ t = <<a, b>> => IsPair(t, b)
                    /\ t = <<a, b, c>> => IsTriple(t, b, c)
BY DEF IsPair, IsTriple

\* The Content-Disposition of a part sets its name, and of a file its name.
LEMMA GivesDisposition ==
    ASSUME NEW I, IsSeq(I), NEW P, NEW X, Written \subseteq X,
           NEW name \in Seq(X), Free(name, ";"), Free(name, "="),
           NEW filename \in Seq(X), Free(filename, ";"), Free(filename, "=")
    PROVE  /\ Gives(With(I, NewFileItem, P), "value", Disposition(name, FALSE, filename),
                    With(I, ItemOf(name, <<>>, FALSE, <<>>, <<>>, FALSE), P))
           /\ Gives(With(I, NewFileItem, P), "value", Disposition(name, TRUE, filename),
                    With(I, ItemOf(name, filename, TRUE, <<>>, <<>>, FALSE), P))
<1> DEFINE m == With(I, NewFileItem, P)
           a == <<"form-data">>
           b == Setting(" name", name)
           c == Setting(" filename", filename)
           u == Disposition(name, FALSE, filename)
           v == Disposition(name, TRUE, filename)
           n == [ok |-> TRUE, text |-> name]
           f == [ok |-> TRUE, text |-> filename]
           it == ItemOf(name, <<>>, FALSE, <<>>, <<>>, FALSE)
           jt == ItemOf(name, filename, TRUE, <<>>, <<>>, FALSE)
<1>1. SplitStr(u, ";") = <<a, b>> /\ SplitStr(v, ";") = <<a, b, c>>
    <2>1. IsSplit(name, filename)
        BY DispositionSplit, Zenon
    <2> QED
        BY <2>1, Zenon DEF IsSplit
<1>2. DispositionValue(b) = n /\ DispositionValue(c) = f
    <2>1. Quote \in X /\ "=" \in X /\ " name" \in X /\ " filename" \in X
        BY Zenon DEF Written
    <2>2. " name" # "=" /\ " filename" # "="
        BY Zenon
    <2>3. IsSetting(" name", name) /\ IsSetting(" filename", filename)
        BY <2>1, <2>2, DispositionIs, Zenon
    <2> QED
        BY <2>3, Zenon DEF IsSetting
<1>3. HasLast(m, I, NewFileItem, P)
    BY WithIs, Zenon
<1>4. n.ok = TRUE /\ n.text = name /\ f.ok = TRUE /\ f.text = filename
    BY Zenon
<1>5. /\ [NewFileItem EXCEPT !.name = name] = it
      /\ [NewFileItem EXCEPT !.name = name, !.is_file = TRUE, !.filename = filename] = jt
    <2>1. Changed(<<>>, <<>>, FALSE, <<>>, <<>>, FALSE, name, filename)
        BY ItemExcept, Zenon
    <2>2. NewFileItem = ItemOf(<<>>, <<>>, FALSE, <<>>, <<>>, FALSE)
        BY Zenon DEF NewFileItem, ItemOf
    <2> QED
        BY <2>1, <2>2, Zenon DEF Changed
<1> HIDE DEF m, a, b, c, u, v, n, f, it, jt
<1>6. ~m.failed /\ m.items # <<>> /\ Last(m.items) = NewFileItem
      /\ \A y : [m EXCEPT !.items = Append(Front(m.items), y)] = With(I, y, P)
    BY <1>3, Zenon DEF HasLast
<1>7. OnDisposition(m, u) = With(I, it, P)
    <2> DEFINE t == SplitStr(u, ";")
               p == DispositionValue(t[2])
    <2>1. IsPair(t, b)
        BY <1>1, FewLength, Zenon
    <2>2. p.ok = TRUE /\ p.text = name
        BY <1>2, <1>4, <2>1, Zenon DEF IsPair
    <2> HIDE DEF t
    <2>3. OnLast(m, LAMBDA item : [item EXCEPT !.name = p.text]) = With(I, it, P)
        BY <1>5, <1>6, <2>2, Zenon DEF OnLast
    <2>4. OnDisposition(m, u) = OnLast(m, LAMBDA item : [item EXCEPT !.name = p.text])
        BY <2>1, <2>2, Zenon DEF OnDisposition, IsPair, t
    <2> QED
        BY <2>3, <2>4, Zenon
<1>8. OnDisposition(m, v) = With(I, jt, P)
    <2> DEFINE t == SplitStr(v, ";")
               p == DispositionValue(t[2])
               r == DispositionValue(t[3])
    <2>1. IsTriple(t, b, c)
        BY <1>1, FewLength, Zenon
    <2>2. p.ok = TRUE /\ p.text = name /\ r.ok = TRUE /\ r.text = filename
        BY <1>2, <1>4, <2>1, Zenon DEF IsTriple
    <2> HIDE DEF t
    <2>3. OnLast(m, LAMBDA item : [item EXCEPT !.name = p.text, !.is_file = TRUE,
                                               !.filename = r.text]) = With(I, jt, P)
        BY <1>5, <1>6, <2>2, Zenon DEF OnLast
    <2>4. OnDisposition(m, v)
              = OnLast(m, LAMBDA item : [item EXCEPT !.name = p.text, !.is_file = TRUE,
                                                     !.filename = r.text])
        BY <2>1, <2>2, Zenon DEF OnDisposition, IsTriple, t
    <2> QED
        BY <2>3, <2>4, Zenon
<1> QED
    BY <1>7, <1>8, GivesValue, Zenon DEF m, u, v, it, jt

\* Data is added to the data there is.
LEMMA GivesData ==
    ASSUME NEW I, IsSeq(I), NEW P, NEW n, NEW f, NEW b, NEW t, NEW z,
           NEW X, NEW d \in Seq(X), NEW x \in Seq(X)
    PROVE  Gives(With(I, ItemOf(n, f, b, t, d, z), P), "data", x,
                 With(I, ItemOf(n, f, b, t, d \o x, z), P))
<1> DEFINE it == ItemOf(n, f, b, t, d, z)
           e == d \o x
           m == With(I, it, P)
           call == Call("data", x)
<1>1. HasLast(m, I, it, P)
    BY WithIs, Zenon
<1>2. [it EXCEPT !.data = it.data \o x] = ItemOf(n, f, b, t, e, z)
    <2>1. Changed(n, f, b, t, d, z, e, e)
        BY ItemExcept, Zenon
    <2>2. it.data = d
        BY DEF ItemOf
    <2> QED
        BY <2>1, <2>2, Zenon DEF Changed
<1>3. call.on = "data" /\ call.text = x
    BY DEF Call
<1>4. x = <<>> => e = d
    OBVIOUS
<1> HIDE DEF it, e, m, call
<1>5. ~m.failed /\ m.items # <<>> /\ Last(m.items) = it
      /\ \A y : [m EXCEPT !.items = Append(Front(m.items), y)] = With(I, y, P)
    BY <1>1, Zenon DEF HasLast
<1>6. Multipart(m, call) = OnMultipartData(m, x)
    BY <1>3, <1>5 DEF Multipart
<1>7. OnLast(m, LAMBDA item : [item EXCEPT !.data = item.data \o x])
          = With(I, ItemOf(n, f, b, t, e, z), P)
    BY <1>2, <1>5, Zenon DEF OnLast
<1>8. OnMultipartData(m, x) = With(I, ItemOf(n, f, b, t, e, z), P)
    <2>1. CASE x = <<>>
        BY <1>4, <2>1, Zenon DEF OnMultipartData, m, it
    <2>2. CASE x # <<>>
        BY <1>7, <2>2, Zenon DEF OnMultipartData
    <2> QED
        BY <2>1, <2>2, Zenon
<1> QED
    BY <1>6, <1>8, Zenon DEF Gives, it, e, m, call

\* A callback alone.
LEMMA CallComes ==
    ASSUME NEW m, NEW on, NEW text, NEW z, Gives(m, on, text, z)
    PROVE  Comes(ByCall, m, <<Call(on, text)>>, z)
<1>1. Comes(ByCall, m, <<Call(on, text)>>, Turn(ByCall, m, Call(on, text)))
    BY ComesShort, Zenon
<1>2. Turn(ByCall, m, Call(on, text)) = z
    BY TurnIs, Zenon DEF Gives
<1> QED
    BY <1>1, <1>2, Zenon

\* The callbacks for the data of a part.
DataSent(data) == [i \in DOMAIN data |-> Call("data", data[i])]

LEMMA DataComes ==
    ASSUME NEW I, IsSeq(I), NEW P, NEW n, NEW f, NEW b, NEW t, NEW z,
           NEW X, NEW data \in Seq(Seq(X))
    PROVE  Comes(ByCall, With(I, ItemOf(n, f, b, t, <<>>, z), P), DataSent(data),
                 With(I, ItemOf(n, f, b, t, FlattenSeq(data), z), P))
<1> DEFINE F(k) == FlattenSeq(First(data, k))
           S(d) == With(I, ItemOf(n, f, b, t, d, z), P)
           N == Len(data)
           g == [k \in 0..N |-> S(F(k))]
           s == DataSent(data)
           Y == {s[i] : i \in 1..N}
<1>1. N \in Nat /\ DOMAIN data = 1..N
    BY SeqDomain
<1>2. /\ F(0) = <<>> /\ F(N) = FlattenSeq(data)
      /\ \A k \in 0..(N - 1) : F(k + 1) = F(k) \o data[k + 1]
    <2>1. /\ FlattenSeq(First(data, 0)) = <<>>
          /\ \A k \in 0..(Len(data) - 1) :
               FlattenSeq(First(data, k + 1)) = FlattenSeq(First(data, k)) \o data[k + 1]
          /\ First(data, Len(data)) = data
        BY FlattenSteps
    <2> QED
        BY <2>1, Zenon
<1>3. \A k \in 0..N : F(k) \in Seq(X)
    BY FlattenType, Zenon
<1>4. \A k \in 0..N : g[k] = S(F(k))
    BY Zenon
<1>5. s = [i \in 1..N |-> s[i]] /\ \A i \in 1..N : s[i] = Call("data", data[i])
    BY <1>1, Zenon DEF DataSent
<1> HIDE DEF g, s, F
<1>6. s \in Seq(Y)
    <2>1. \A i \in 1..N : s[i] \in Y
        BY Zenon
    <2> HIDE DEF Y, N
    <2> QED
        BY <1>1, <1>5, <2>1, FunctionType, Zenon
<1>7. Len(s) = N
    BY <1>1, <1>5, <1>6
<1>8. ASSUME NEW k \in 0..(N - 1) PROVE g[k + 1] = Turn(ByCall, g[k], s[k + 1])
    <2>1. k \in 0..N /\ k + 1 \in 0..N /\ k + 1 \in 1..N /\ data[k + 1] \in Seq(X)
        BY <1>1
    <2>2. Gives(S(F(k)), "data", data[k + 1], S(F(k) \o data[k + 1]))
        BY <1>3, <2>1, GivesData, Zenon
    <2>3. Turn(ByCall, S(F(k)), s[k + 1]) = S(F(k) \o data[k + 1])
        BY <1>5, <2>1, <2>2, TurnIs, Zenon DEF Gives
    <2> QED
        BY <1>2, <1>4, <2>1, <2>3, Zenon
<1>9. g[0] = S(<<>>) /\ g[N] = S(FlattenSeq(data))
    <2>1. 0 \in 0..N /\ N \in 0..N
        BY <1>1
    <2> QED
        BY <1>2, <1>4, <2>1, Zenon
<1>10. Comes(ByCall, S(<<>>), s, g[Len(s)])
    <2> DEFINE st == S(<<>>)
    <2> HIDE DEF st, Y
    <2>1. g[0] = st
        BY <1>9, Zenon DEF st
    <2>2. \A k \in 0..(Len(s) - 1) : g[k + 1] = Turn(ByCall, g[k], s[k + 1])
        BY <1>7, <1>8, Zenon
    <2>3. Comes(ByCall, st, s, g[Len(s)])
        BY <1>6, <2>1, <2>2, ComesEach, Zenon
    <2> QED
        BY <2>3, Zenon DEF st
<1> QED
    BY <1>7, <1>9, <1>10, Zenon DEF s

\* The callbacks for a part.
PartSent(name, file, filename, type, data) ==
    <<Call("name", "Content-Disposition"), Call("value", Disposition(name, file, filename))>>
    \o (IF type = <<>> THEN <<>>
        ELSE <<Call("name", "Content-Type"), Call("value", type)>>)
    \o DataSent(data)
    \o <<Call("over", "")>>

LEMMA PartComes ==
    ASSUME NEW I, IsSeq(I), NEW P, NEW X, Written \subseteq X,
           NEW name \in Seq(X), Free(name, ";"), Free(name, "="),
           NEW filename \in Seq(X), Free(filename, ";"), Free(filename, "="),
           NEW file \in BOOLEAN, file \/ filename = <<>>,
           NEW type, NEW data \in Seq(Seq(X))
    PROVE  Comes(ByCall, NoneYet(I, P), PartSent(name, file, filename, type, data),
                 With(I, ItemOf(name, filename, file, type, FlattenSeq(data), TRUE), P))
<1> DEFINE It(t, d, z) == ItemOf(name, filename, file, t, d, z)
           c1 == Call("name", "Content-Disposition")
           c2 == Call("value", Disposition(name, file, filename))
           c3 == Call("name", "Content-Type")
           c4 == Call("value", type)
           ts == IF type = <<>> THEN <<>> ELSE <<c3, c4>>
           ds == DataSent(data)
           d == FlattenSeq(data)
           c5 == Call("over", "")
<1>1. Comes(ByCall, NoneYet(I, P), <<c1>>, With(I, NewFileItem, P))
    BY GivesPart, CallComes, Zenon
<1>2. Comes(ByCall, With(I, NewFileItem, P), <<c2>>, With(I, It(<<>>, <<>>, FALSE), P))
    <2>1. /\ Gives(With(I, NewFileItem, P), "value", Disposition(name, FALSE, filename),
                   With(I, ItemOf(name, <<>>, FALSE, <<>>, <<>>, FALSE), P))
          /\ Gives(With(I, NewFileItem, P), "value", Disposition(name, TRUE, filename),
                   With(I, ItemOf(name, filename, TRUE, <<>>, <<>>, FALSE), P))
        BY GivesDisposition, Zenon
    <2>2. Gives(With(I, NewFileItem, P), "value", Disposition(name, file, filename),
                With(I, It(<<>>, <<>>, FALSE), P))
        <3>1. CASE file = TRUE
            BY <2>1, <3>1, Zenon
        <3>2. CASE file = FALSE
            BY <2>1, <3>2, Zenon
        <3> QED
            BY <3>1, <3>2, Zenon
    <2> QED
        BY <2>2, CallComes, Zenon
<1>3. \E z : Comes(ByCall, With(I, It(<<>>, <<>>, FALSE), P), ts, With(I, It(type, <<>>, z), P))
    <2>1. CASE type = <<>>
        <3>1. ts = <<>> /\ With(I, It(<<>>, <<>>, FALSE), P) = With(I, It(type, <<>>, FALSE), P)
            BY <2>1, Zenon
        <3> QED
            BY <3>1, ComesShort, Zenon
    <2>2. CASE type # <<>>
        <3>1. /\ Gives(With(I, It(<<>>, <<>>, FALSE), P), "name", "Content-Type",
                       With(I, It(<<>>, <<>>, TRUE), P))
              /\ Gives(With(I, It(<<>>, <<>>, TRUE), P), "value", type,
                       With(I, It(type, <<>>, TRUE), P))
              /\ Gives(With(I, It(<<>>, <<>>, FALSE), P), "over", "",
                       With(I, It(<<>>, <<>>, TRUE), P))
            BY GivesType, Zenon
        <3>2. Comes(ByCall, With(I, It(<<>>, <<>>, FALSE), P), <<c3>>,
                    With(I, It(<<>>, <<>>, TRUE), P))
            BY <3>1, CallComes, Zenon
        <3>3. Comes(ByCall, With(I, It(<<>>, <<>>, TRUE), P), <<c4>>,
                    With(I, It(type, <<>>, TRUE), P))
            BY <3>1, CallComes, Zenon
        <3>4. Comes(ByCall, With(I, It(<<>>, <<>>, FALSE), P), <<c3>> \o <<c4>>,
                    With(I, It(type, <<>>, TRUE), P))
            BY <3>2, <3>3, ComesJoined, Zenon
        <3>5. ts = <<c3>> \o <<c4>>
            <4>1. <<>> \in Seq({c3, c4}) /\ c3 \in {c3, c4} /\ c4 \in {c3, c4}
                BY EmptySeq, Zenon
            <4>2. Two(c3, c4)
                BY <4>1, Chain, Zenon
            <4> QED
                BY <2>2, <4>2, Zenon DEF Two
        <3> QED
            BY <3>4, <3>5, Zenon
    <2> QED
        BY <2>1, <2>2, Zenon
<1>4. PICK z : Comes(ByCall, With(I, It(<<>>, <<>>, FALSE), P), ts, With(I, It(type, <<>>, z), P))
    BY <1>3, Zenon
<1>5. Comes(ByCall, With(I, It(type, <<>>, z), P), ds, With(I, It(type, d, z), P))
    BY DataComes, Zenon
<1>6. Comes(ByCall, With(I, It(type, d, z), P), <<c5>>, With(I, It(type, d, TRUE), P))
    <2>1. /\ Gives(With(I, It(type, d, z), P), "name", "Content-Type",
                   With(I, It(type, d, TRUE), P))
          /\ Gives(With(I, It(type, d, TRUE), P), "value", type,
                   With(I, It(type, d, TRUE), P))
          /\ Gives(With(I, It(type, d, z), P), "over", "", With(I, It(type, d, TRUE), P))
        BY GivesType, Zenon
    <2> QED
        BY <2>1, CallComes, Zenon
<1>7. <<c1, c2>> = <<c1>> \o <<c2>>
    <2>1. <<>> \in Seq({c1, c2}) /\ c1 \in {c1, c2} /\ c2 \in {c1, c2}
        BY EmptySeq, Zenon
    <2>2. Two(c1, c2)
        BY <2>1, Chain, Zenon
    <2> QED
        BY <2>2, Zenon DEF Two
<1>8. PartSent(name, file, filename, type, data) = (((<<c1>> \o <<c2>>) \o ts) \o ds) \o <<c5>>
    BY <1>7, Zenon DEF PartSent
<1> DEFINE m0 == NoneYet(I, P)
           m1 == With(I, NewFileItem, P)
           m2 == With(I, It(<<>>, <<>>, FALSE), P)
           m3 == With(I, It(type, <<>>, z), P)
           m4 == With(I, It(type, d, z), P)
           m5 == With(I, It(type, d, TRUE), P)
<1> HIDE DEF It, c1, c2, c5, ts, ds, d, m0, m1, m2, m3, m4, m5
<1>9. /\ Comes(ByCall, m0, <<c1>>, m1) /\ Comes(ByCall, m1, <<c2>>, m2)
      /\ Comes(ByCall, m2, ts, m3) /\ Comes(ByCall, m3, ds, m4)
      /\ Comes(ByCall, m4, <<c5>>, m5)
    BY <1>1, <1>2, <1>4, <1>5, <1>6, Zenon DEF m0, m1, m2, m3, m4, m5
<1>10. Comes(ByCall, m0, <<c1>> \o <<c2>>, m2)
    BY <1>9, ComesJoined, Zenon
<1>11. Comes(ByCall, m0, (<<c1>> \o <<c2>>) \o ts, m3)
    BY <1>9, <1>10, ComesJoined, Zenon
<1>12. Comes(ByCall, m0, ((<<c1>> \o <<c2>>) \o ts) \o ds, m4)
    BY <1>9, <1>11, ComesJoined, Zenon
<1>13. Comes(ByCall, m0, (((<<c1>> \o <<c2>>) \o ts) \o ds) \o <<c5>>, m5)
    BY <1>9, <1>12, ComesJoined, Zenon
<1> QED
    BY <1>8, <1>13, Zenon DEF m0, m5, It, d

\* The closing boundary: what has a name and data is a parameter.
Named(items) == [i \in DOMAIN items |-> <<items[i].name, items[i].data>>]

LEMMA GivesEnd ==
    ASSUME NEW I, NEW P
    PROVE  Gives(NoneYet(I, P), "end", "", NoneYet(I, P \o Named(I)))
<1> DEFINE m == NoneYet(I, P)
           call == Call("end", "")
           z == P \o Named(I)
<1>1. ~m.failed /\ m.items = I /\ m.params = P
    BY DEF NoneYet
<1>2. call.on = "end"
    BY DEF Call
<1> HIDE DEF call, z
<1>3. [m EXCEPT !.params = z] = NoneYet(I, z)
    BY NoneYetExcept
<1> HIDE DEF m
<1>4. Multipart(m, call) = OnMultipartBodyEnd(m)
    BY <1>1, <1>2 DEF Multipart
<1>5. OnMultipartBodyEnd(m) = [m EXCEPT !.params = m.params \o Named(m.items)]
    BY Zenon DEF OnMultipartBodyEnd, Named
<1> QED
    BY <1>1, <1>3, <1>4, <1>5, Zenon DEF Gives, m, call, z

-----------------------------------------------------------------------------
(* Parameters *)

\* A parameter as it is sent.
Param(n, v) == n \o (<<"=">> \o v)

\* It is one name with one value.
LEMMA OneParam ==
    ASSUME NEW X, NEW n \in Seq(X), Free(n, "="), NEW v \in Seq(X), Free(v, "=")
    PROVE  KeyValues(Param(n, v)) = << <<n, v>> >>
<1> DEFINE t == <<n, v>>
<1>1. Parts(Param(n, v), "=") = t
    BY PartsFew DEF Param
<1>2. Len(t) = 2 /\ t[1] = n /\ t[2] = v
    OBVIOUS
<1>3. KeyValues(Param(n, v))
        = [i \in 1..((Len(t) + 1) \div 2) |->
               <<t[2 * i - 1], IF 2 * i <= Len(t) THEN t[2 * i] ELSE <<>> >>]
    BY <1>1, Zenon DEF KeyValues
<1> HIDE DEF t
<1>4. (Len(t) + 1) \div 2 = 1
    BY <1>2
<1>5. \A i \in 1..1 : <<t[2 * i - 1], IF 2 * i <= Len(t) THEN t[2 * i] ELSE <<>> >> = <<n, v>>
    <2> TAKE i \in 1..1
    <2>1. 2 * i - 1 = 1 /\ 2 * i = 2 /\ 2 * i <= Len(t)
        BY <1>2
    <2> QED
        BY <1>2, <2>1, Zenon
<1> DEFINE e == <<n, v>>
<1>6. KeyValues(Param(n, v)) = [i \in 1..1 |-> e]
    BY <1>3, <1>4, <1>5, Zenon
<1> HIDE DEF e
<1>7. [i \in 1..1 |-> e] = <<e>>
    OBVIOUS
<1> QED
    BY <1>6, <1>7, Zenon DEF e

\* Sequences of one, flattened.
LEMMA FlattenSingles ==
    ASSUME NEW X, NEW s \in Seq(X)
    PROVE  FlattenSeq([i \in DOMAIN s |-> <<s[i]>>]) = s
<1> DEFINE ss == [i \in DOMAIN s |-> <<s[i]>>]
           F(k) == FlattenSeq(First(ss, k))
           S == {k \in Nat : F(k) = SubSeq(s, 1, k)}
<1>1. Len(s) \in Nat /\ DOMAIN s = 1..Len(s)
    OBVIOUS
<1>2. ss \in Seq(Seq(X)) /\ Len(ss) = Len(s) /\ \A i \in 1..Len(s) : ss[i] = <<s[i]>>
    <2>1. ss = [i \in 1..Len(s) |-> ss[i]] /\ \A i \in 1..Len(s) : ss[i] = <<s[i]>>
        BY <1>1
    <2>2. \A i \in 1..Len(s) : <<s[i]>> \in Seq(X)
        OBVIOUS
    <2> HIDE DEF ss
    <2>3. \A i \in 1..Len(s) : ss[i] \in Seq(X)
        BY <2>1, <2>2, Zenon
    <2>4. ss \in Seq(Seq(X))
        BY <1>1, <2>1, <2>3, FunctionType, Zenon
    <2> QED
        BY <1>1, <2>1, <2>4
<1> HIDE DEF ss
<1>3. 0 \in S
    <2>1. F(0) = <<>>
        BY <1>2, FlattenSteps, Zenon
    <2>2. SubSeq(s, 1, 0) = <<>>
        OBVIOUS
    <2> HIDE DEF F
    <2> QED
        BY <2>1, <2>2
<1>4. ASSUME NEW k \in 0..(Len(s) - 1), k \in S PROVE k + 1 \in S
    <2>1. F(k + 1) = F(k) \o ss[k + 1]
        BY <1>2, FlattenSteps, Zenon
    <2>2. k + 1 \in 1..Len(s) /\ k \in Nat /\ k + 1 \in Nat
        BY <1>1
    <2>3. F(k + 1) = SubSeq(s, 1, k) \o <<s[k + 1]>>
        BY <1>2, <1>4, <2>1, <2>2, Zenon
    <2> HIDE DEF F
    <2>4. SubSeq(s, 1, k) \o <<s[k + 1]>> = SubSeq(s, 1, k + 1)
        BY <2>2
    <2> QED
        BY <2>2, <2>3, <2>4
<1>5. Len(s) \in S
    <2> HIDE DEF S
    <2> QED
        BY <1>1, <1>3, <1>4, Induction
<1>6. F(Len(ss)) = FlattenSeq(ss)
    BY <1>2, FlattenSteps, Zenon
<1>7. SubSeq(s, 1, Len(s)) = s
    OBVIOUS
<1> HIDE DEF F
<1> QED
    BY <1>2, <1>5, <1>6, <1>7, Zenon DEF ss

\* What a query is parsed to is what it was made of.
SentParams(ps) == [i \in DOMAIN ps |-> Param(ps[i][1], ps[i][2])]

LEMMA QueryParsed ==
    ASSUME NEW X, "&" \in X, "=" \in X, NEW ps \in Seq(Seq(X) \X Seq(X)), ps # <<>>,
           \A i \in DOMAIN ps : /\ Free(ps[i][1], "&") /\ Free(ps[i][1], "=")
                                /\ Free(ps[i][2], "&") /\ Free(ps[i][2], "=")
    PROVE  ParseQueryUrl(Joined(SentParams(ps), "&")) = ps
<1> DEFINE n == Len(ps)
           ss == SentParams(ps)
<1>1. n \in Nat /\ DOMAIN ps = 1..n
    OBVIOUS
<1>2. ASSUME NEW i \in 1..n
      PROVE  /\ ps[i][1] \in Seq(X) /\ ps[i][2] \in Seq(X) /\ ps[i] = <<ps[i][1], ps[i][2]>>
             /\ Free(ps[i][1], "&") /\ Free(ps[i][1], "=")
             /\ Free(ps[i][2], "&") /\ Free(ps[i][2], "=")
    <2>1. ps[i] \in Seq(X) \X Seq(X)
        BY <1>1
    <2>2. \A p \in Seq(X) \X Seq(X) : p[1] \in Seq(X) /\ p[2] \in Seq(X) /\ p = <<p[1], p[2]>>
        OBVIOUS
    <2> QED
        BY <1>1, <2>1, <2>2, Zenon
<1>3. ss = [i \in 1..n |-> ss[i]] /\ \A i \in 1..n : ss[i] = Param(ps[i][1], ps[i][2])
    BY <1>1, Zenon DEF SentParams
<1>4. ASSUME NEW i \in 1..n PROVE ss[i] \in Seq(X) /\ Free(ss[i], "&")
    <2> DEFINE a == ps[i][1]
               b == ps[i][2]
    <2>1. a \in Seq(X) /\ b \in Seq(X) /\ Free(a, "&") /\ Free(b, "&")
        BY <1>2, Zenon
    <2> HIDE DEF a, b
    <2>2. <<"=">> \o b \in Seq(X)
        BY <2>1
    <2>3. a \o (<<"=">> \o b) \in Seq(X)
        BY <2>1, <2>2, ConcatType, Zenon
    <2>4. Free(<<"=">> \o b, "&")
        BY <2>1 DEF Free
    <2>5. Free(a \o (<<"=">> \o b), "&")
        <3> DEFINE c == <<"=">> \o b
        <3>1. c \in Seq(X) /\ Free(c, "&")
            BY <2>2, <2>4, Zenon
        <3> HIDE DEF c
        <3>2. Free(a \o c, "&")
            BY <2>1, <3>1 DEF Free
        <3> QED
            BY <3>2, Zenon DEF c
    <2> QED
        BY <1>3, <2>3, <2>5, Zenon DEF Param, a, b
<1> HIDE DEF n, ss
<1>5. ss \in Seq(Seq(X)) /\ Len(ss) = n /\ DOMAIN ss = 1..n /\ n # 0
    <2>1. \A i \in 1..n : ss[i] \in Seq(X)
        BY <1>4, Zenon
    <2>2. ss \in Seq(Seq(X))
        BY <1>1, <1>3, <2>1, FunctionType, Zenon
    <2> QED
        BY <1>1, <1>3, <2>2 DEF n
<1>6. Parts(Joined(ss, "&"), "&") = ss
    <2>1. ss # <<>>
        BY <1>5
    <2>2. \A i \in DOMAIN ss : Free(ss[i], "&")
        BY <1>4, <1>5, Zenon
    <2> QED
        BY <1>5, <2>1, <2>2, PartsMany
<1>7. ParseQueryUrl(Joined(ss, "&")) = FlattenSeq([i \in DOMAIN ss |-> KeyValues(ss[i])])
    BY <1>6, Zenon DEF ParseQueryUrl
<1>8. \A i \in 1..n : KeyValues(ss[i]) = <<ps[i]>>
    <2> TAKE i \in 1..n
    <2>1. KeyValues(Param(ps[i][1], ps[i][2])) = << <<ps[i][1], ps[i][2]>> >>
        BY <1>2, OneParam, Zenon
    <2> QED
        BY <1>2, <1>3, <2>1, Zenon
<1>9. [i \in DOMAIN ss |-> KeyValues(ss[i])] = [i \in DOMAIN ps |-> <<ps[i]>>]
    BY <1>1, <1>5, <1>8, Zenon
<1>10. FlattenSeq([i \in DOMAIN ps |-> <<ps[i]>>]) = ps
    BY FlattenSingles, Zenon
<1> QED
    BY <1>7, <1>9, <1>10, Zenon DEF ss


\* Parameters whose values are each what e makes of them: get_params gives what e makes
\* of the values.
AreMapped(ps, qs, name, e, V) ==
    /\ GetParams(ps, name) \in Seq(V)
    /\ GetParams(qs, name)
         = [k \in DOMAIN GetParams(ps, name) |-> e[GetParams(ps, name)[k]]]

LEMMA ParamsMapped ==
    ASSUME NEW N, NEW V, NEW ps \in Seq(N \X V), NEW qs, Len(qs) = Len(ps), IsSeq(qs), NEW e,
           \A i \in 1..Len(ps) : qs[i] = <<ps[i][1], e[ps[i][2]]>>,
           NEW name
    PROVE  AreMapped(ps, qs, name, e, V)
<1> DEFINE n == Len(ps)
           m(v) == [k \in DOMAIN v |-> e[v[k]]]
<1>1. n \in Nat /\ \A i \in 1..n : ps[i][1] \in N /\ ps[i][2] \in V
    <2>1. \A p \in N \X V : p[1] \in N /\ p[2] \in V
        OBVIOUS
    <2>2. n \in Nat /\ \A i \in 1..n : ps[i] \in N \X V
        OBVIOUS
    <2> QED
        BY <2>1, <2>2, Zenon
<1>2. PICK f : TurnsOn(f, ByName(name), <<>>, ps, n)
    BY <1>1, TurnsExist, Zenon
<1>3. f[0] = <<>> /\ \A i \in 1..n : f[i] = AfterParam(f[i - 1], ps[i], name)
    BY <1>2, TurnIs, Zenon DEF TurnsOn, Turns
<1> DEFINE g == [i \in 0..n |-> m(f[i])]
           S == {k \in Nat : k <= n => f[k] \in Seq(V)}
<1>4. ASSUME NEW k \in 0..(n - 1), f[k] \in Seq(V)
      PROVE  /\ f[k + 1] \in Seq(V)
             /\ m(f[k + 1]) = AfterParam(m(f[k]), qs[k + 1], name)
    <2> DEFINE v == f[k]
               x == ps[k + 1][2]
    <2>1. k + 1 \in 1..n /\ (k + 1) - 1 = k
        BY <1>1
    <2>2. f[k + 1] = IF ps[k + 1][1] = name THEN Append(v, x) ELSE v
        BY <1>3, <2>1, Zenon DEF AfterParam
    <2>3. v \in Seq(V) /\ x \in V /\ qs[k + 1] = <<ps[k + 1][1], e[x]>>
        BY <1>1, <1>4, <2>1, Zenon
    <2> HIDE DEF v, x, n
    <2>4. qs[k + 1][1] = ps[k + 1][1] /\ qs[k + 1][2] = e[x]
        BY <2>3
    <2>5. m(Append(v, x)) = Append(m(v), e[x])
        <3> DEFINE w == Append(v, x)
                   y == e[x]
                   l == Len(v)
                   Y == {e[a] : a \in V}
        <3>1. w \in Seq(V) /\ l \in Nat /\ Len(w) = l + 1 /\ w[l + 1] = x
              /\ \A i \in 1..l : w[i] = v[i] /\ v[i] \in V
            BY <2>3
        <3>2. DOMAIN w = 1..(l + 1) /\ DOMAIN v = 1..l
            BY <2>3
        <3> HIDE DEF w
        <3>3. m(v) \in Seq(Y) /\ Len(m(v)) = l /\ \A i \in 1..l : m(v)[i] = e[v[i]]
            <4> DEFINE u == m(v)
            <4>1. u = [i \in 1..l |-> u[i]] /\ \A i \in 1..l : u[i] = e[v[i]]
                BY <3>2, Zenon
            <4>2. \A i \in 1..l : u[i] \in Y
                BY <3>1, <4>1, Zenon
            <4> HIDE DEF u, l, Y
            <4>3. u \in Seq(Y)
                BY <3>1, <4>1, <4>2, FunctionType, Zenon
            <4> QED
                BY <3>1, <4>1, <4>3 DEF u
        <3>4. m(w) = [i \in 1..(l + 1) |-> e[w[i]]]
            BY <3>2, Zenon
        <3>5. y \in Y
            BY <2>3
        <3> DEFINE u == m(v)
        <3> HIDE DEF u, y, l, Y
        <3>6. Append(u, y) = [i \in 1..(l + 1) |-> IF i = l + 1 THEN y ELSE u[i]]
            BY <3>1, <3>3, <3>5 DEF u
        <3>7. \A i \in 1..(l + 1) : e[w[i]] = IF i = l + 1 THEN y ELSE u[i]
            <4> TAKE i \in 1..(l + 1)
            <4>1. CASE i = l + 1
                BY <3>1, <4>1, Zenon DEF y
            <4>2. CASE i # l + 1
                <5>1. i \in 1..l
                    BY <3>1, <4>2
                <5> QED
                    BY <3>1, <3>3, <4>2, <5>1, Zenon DEF u
            <4> QED
                BY <4>1, <4>2
        <3>8. m(w) = Append(u, y)
            BY <3>4, <3>6, <3>7, Zenon
        <3> QED
            BY <3>8, Zenon DEF w, u, y
    <2> HIDE DEF m
    <2>6. CASE ps[k + 1][1] = name
        <3>1. f[k + 1] = Append(v, x)
            BY <2>2, <2>6, Zenon
        <3>2. Append(v, x) \in Seq(V)
            BY <2>3
        <3>3. AfterParam(m(v), qs[k + 1], name) = Append(m(v), e[x])
            BY <2>4, <2>6, Zenon DEF AfterParam
        <3> QED
            BY <2>5, <3>1, <3>2, <3>3, Zenon DEF v
    <2>7. CASE ps[k + 1][1] # name
        <3>1. f[k + 1] = v
            BY <2>2, <2>7, Zenon
        <3>2. AfterParam(m(v), qs[k + 1], name) = m(v)
            BY <2>4, <2>7, Zenon DEF AfterParam
        <3> QED
            BY <2>3, <3>1, <3>2, Zenon DEF v
    <2> QED
        BY <2>6, <2>7, Zenon
<1> HIDE DEF m
<1>5. \A k \in 0..n : f[k] \in Seq(V)
    <2>1. ASSUME NEW j \in 0..n PROVE j \in S
        <3>1. 0 \in S
            <4>1. f[0] \in Seq(V)
                BY <1>3, EmptySeq, Zenon
            <4> QED
                BY <4>1
        <3>2. ASSUME NEW k \in 0..(j - 1), k \in S PROVE k + 1 \in S
            <4>1. k \in 0..(n - 1) /\ k <= n /\ k + 1 \in Nat
                BY <1>1
            <4>2. f[k] \in Seq(V)
                BY <3>2, <4>1
            <4>3. f[k + 1] \in Seq(V)
                BY <1>4, <4>1, <4>2, Zenon
            <4> QED
                BY <4>1, <4>3
        <3>3. j \in Nat
            BY <1>1
        <3> HIDE DEF S
        <3> QED
            BY <3>1, <3>2, <3>3, Induction
    <2>2. \A j \in 0..n : j <= n
        BY <1>1
    <2> QED
        BY <2>1, <2>2
<1>6. m(<<>>) = <<>>
    BY DEF m
<1>7. g[0] = <<>> /\ \A i \in 0..n : g[i] = m(f[i])
    <2>1. 0 \in 0..n
        BY <1>1
    <2> QED
        BY <1>3, <1>6, <2>1, Zenon
<1> HIDE DEF g, S
<1>8. \A k \in 0..(n - 1) : g[k + 1] = Turn(ByName(name), g[k], qs[k + 1])
    <2> TAKE k \in 0..(n - 1)
    <2>1. k \in 0..n /\ k + 1 \in 0..n
        BY <1>1
    <2>2. m(f[k + 1]) = AfterParam(m(f[k]), qs[k + 1], name)
        BY <1>4, <1>5, <2>1, Zenon
    <2> QED
        BY <1>7, <2>1, <2>2, TurnIs, Zenon
<1>9. GetParams(ps, name) = f[n]
    <2>1. Comes(ByName(name), <<>>, ps, f[n])
        <3>1. IsSeq(ps)
            BY Zenon DEF IsSeq
        <3> QED
            BY <1>2, <3>1, Zenon DEF Comes, TurnsOn
    <2> HIDE DEF n
    <2> QED
        BY <2>1, ParamsCome
<1>10. GetParams(qs, name) = g[n]
    <2>1. PICK X : qs \in Seq(X)
        BY Zenon DEF IsSeq
    <2>2. Comes(ByName(name), <<>>, qs, g[Len(qs)])
        BY <1>7, <1>8, <2>1, ComesEach, Zenon
    <2>3. Comes(ByName(name), <<>>, qs, g[n])
        BY <2>2, Zenon
    <2> HIDE DEF n
    <2> QED
        BY <2>3, ParamsCome
<1>11. n \in 0..n
    BY <1>1
<1> QED
    BY <1>5, <1>7, <1>9, <1>10, <1>11, Zenon DEF m, AreMapped


\* The first parameter of a name is the first value get_params gives.
IsFirst(ps, i, k) ==
    /\ ps[k][1] = ps[i][1]
    /\ \A j \in 1..(k - 1) : ps[j][1] # ps[i][1]
    /\ GetParam(ps, ps[i][1]) = ps[k][2]

LEMMA FirstParam ==
    ASSUME NEW N, NEW V, NEW ps \in Seq(N \X V), NEW i \in DOMAIN ps
    PROVE  \E k \in DOMAIN ps : IsFirst(ps, i, k)
<1> DEFINE n == Len(ps)
           name == ps[i][1]
           T == {j \in 1..n : ps[j][1] = name}
<1>1. n \in Nat /\ DOMAIN ps = 1..n /\ i \in 1..n
    OBVIOUS
<1>2. \A j \in 1..n : ps[j][2] \in V
    <2>1. \A p \in N \X V : p[2] \in V
        OBVIOUS
    <2>2. \A j \in 1..n : ps[j] \in N \X V
        OBVIOUS
    <2> QED
        BY <2>1, <2>2, Zenon
<1>3. PICK k \in T : \A j \in T : k <= j
    <2>1. T \subseteq Nat /\ T # {}
        <3> HIDE DEF n
        <3> QED
            BY <1>1
    <2> HIDE DEF T
    <2> QED
        BY <2>1, Least
<1>4. k \in 1..n /\ ps[k][1] = name
    BY <1>3, Zenon
<1>5. \A j \in 1..(k - 1) : j \in 1..n /\ ps[j][1] # name
    <2> TAKE j \in 1..(k - 1)
    <2> HIDE DEF n
    <2>1. j \in 1..n /\ ~(k <= j)
        BY <1>1, <1>4
    <2>2. j \notin T
        BY <1>3, <2>1, Zenon
    <2> QED
        BY <2>1, <2>2, Zenon
<1>6. PICK f : TurnsOn(f, ByName(name), <<>>, ps, n)
    BY <1>1, TurnsExist, Zenon
<1>7. f[0] = <<>> /\ \A j \in 1..n : f[j] = AfterParam(f[j - 1], ps[j], name)
    BY <1>6, TurnIs, Zenon DEF TurnsOn, Turns
<1> DEFINE before == {j \in Nat : f[j] = <<>>}
           after == {j \in Nat : f[k + j] \in Seq(V) /\ f[k + j] # <<>> /\ f[k + j][1] = ps[k][2]}
<1> HIDE DEF n, T, name
<1>8. k - 1 \in before
    <2>1. 0 \in before
        BY <1>7, Zenon
    <2>2. ASSUME NEW j \in 0..((k - 1) - 1), j \in before PROVE j + 1 \in before
        <3>1. j + 1 \in 1..(k - 1) /\ (j + 1) - 1 = j /\ j + 1 \in 1..n /\ j + 1 \in Nat
            BY <1>1, <1>4
        <3>2. f[j + 1] = f[j]
            BY <1>5, <1>7, <3>1, Zenon DEF AfterParam
        <3>3. f[j] = <<>>
            BY <2>2, Zenon
        <3>4. f[j + 1] = <<>>
            BY <3>2, <3>3, Zenon
        <3> QED
            BY <3>1, <3>4
    <2>3. k - 1 \in Nat
        BY <1>1, <1>4
    <2> HIDE DEF before
    <2> QED
        BY <2>1, <2>2, <2>3, Induction
<1>9. f[k] = <<ps[k][2]>>
    <2>1. f[k] = Append(f[k - 1], ps[k][2])
        BY <1>4, <1>7, Zenon DEF AfterParam
    <2>2. f[k - 1] = <<>>
        BY <1>8, Zenon
    <2>3. ps[k][2] \in V
        BY <1>2, <1>4, Zenon
    <2> QED
        BY <2>1, <2>2, <2>3, FewAppended, Zenon
<1>10. n - k \in after
    <2>1. 0 \in after
        <3> DEFINE x == ps[k][2]
        <3>1. x \in V /\ f[k] = <<x>>
            BY <1>2, <1>4, <1>9, Zenon
        <3> HIDE DEF x
        <3>2. <<x>> \in Seq(V) /\ <<x>> # <<>> /\ <<x>>[1] = x
            BY <3>1
        <3>3. f[k] \in Seq(V) /\ f[k] # <<>> /\ f[k][1] = x
            BY <3>1, <3>2, Zenon
        <3>4. k + 0 = k /\ 0 \in Nat
            BY <1>1, <1>4
        <3>5. f[k + 0] \in Seq(V) /\ f[k + 0] # <<>> /\ f[k + 0][1] = x
            BY <3>3, <3>4, Zenon
        <3> QED
            BY <3>4, <3>5, Zenon DEF x
    <2>2. ASSUME NEW j \in 0..((n - k) - 1), j \in after PROVE j + 1 \in after
        <3> DEFINE v == f[k + j]
                   y == ps[k + (j + 1)]
                   x == ps[k][2]
        <3>1. k + (j + 1) \in 1..n /\ (k + (j + 1)) - 1 = k + j /\ j + 1 \in Nat
            BY <1>1, <1>4
        <3>2. f[k + (j + 1)] = IF y[1] = name THEN Append(v, y[2]) ELSE v
            BY <1>7, <3>1, Zenon DEF AfterParam
        <3>3. v \in Seq(V) /\ v # <<>> /\ v[1] = x /\ y[2] \in V
            BY <1>2, <2>2, <3>1, Zenon
        <3> HIDE DEF v, y, x
        <3>4. Append(v, y[2]) \in Seq(V) /\ Append(v, y[2]) # <<>> /\ Append(v, y[2])[1] = x
            BY <3>3
        <3>5. f[k + (j + 1)] \in Seq(V) /\ f[k + (j + 1)] # <<>> /\ f[k + (j + 1)][1] = x
            BY <3>2, <3>3, <3>4, Zenon
        <3> QED
            BY <3>1, <3>5, Zenon DEF x
    <2>3. n - k \in Nat
        BY <1>1, <1>4
    <2> HIDE DEF after
    <2> QED
        BY <2>1, <2>2, <2>3, Induction
<1>11. f[n] # <<>> /\ f[n][1] = ps[k][2]
    <2>1. k + (n - k) = n
        BY <1>1, <1>4
    <2> QED
        BY <1>10, <2>1, Zenon
<1>12. GetParams(ps, name) = f[n]
    <2>1. Comes(ByName(name), <<>>, ps, f[n])
        <3>1. IsSeq(ps)
            BY Zenon DEF IsSeq
        <3> QED
            BY <1>6, <3>1, Zenon DEF Comes, TurnsOn, n
    <2> QED
        BY <2>1, ParamsCome
<1>13. GetParam(ps, name) = ps[k][2]
    BY <1>11, <1>12, Zenon DEF GetParam
<1> QED
    BY <1>1, <1>4, <1>5, <1>13, Zenon DEF name, IsFirst


-----------------------------------------------------------------------------
(* Escapes *)

\* What comes of s from i on, given what comes of the rest.
Unescaped(h, s, i) ==
    IF i > Len(s) THEN <<>>
    ELSE IF s[i] = "%" /\ i + 2 <= Len(s) /\ <<s[i + 1], s[i + 2]>> \in DOMAIN CharOf
    THEN <<CharOf[<<s[i + 1], s[i + 2]>>]>> \o h[i + 3]
    ELSE <<IF s[i] = "+" THEN " " ELSE s[i]>> \o h[i + 1]

\* It is the rest that counts.
LEMMA UnescapedRest ==
    ASSUME NEW s, Len(s) \in Nat, NEW i \in 1..(Len(s) + 3), NEW g, NEW h,
           \A j \in (i + 1)..(Len(s) + 3) : g[j] = h[j]
    PROVE  Unescaped(g, s, i) = Unescaped(h, s, i)
<1>1. CASE i > Len(s)
    BY <1>1, Zenon DEF Unescaped
<1>2. CASE ~(i > Len(s))
    <2>1. i + 1 \in (i + 1)..(Len(s) + 3) /\ i + 3 \in (i + 1)..(Len(s) + 3)
        BY <1>2
    <2>2. g[i + 1] = h[i + 1] /\ g[i + 3] = h[i + 3]
        BY <2>1, Zenon
    <2> QED
        BY <1>2, <2>2, Zenon DEF Unescaped
<1> QED
    BY <1>1, <1>2, Zenon

\* There is a function as unescape is defined by.
LEMMA UnescapeIs ==
    ASSUME NEW s, Len(s) \in Nat
    PROVE  \E h : /\ Unescape(s) = h[1]
                  /\ \A i \in 1..(Len(s) + 3) : h[i] = Unescaped(h, s, i)
<1> DEFINE m == Len(s) + 3
           R(f) == f = [i \in 1..m |-> Unescaped(f, s, i)]
           h == CHOOSE f : R(f)
           P(k) == \E g : \A i \in (m - k + 1)..m : g[i] = Unescaped(g, s, i)
           S == {k \in Nat : P(k)}
<1>1. m \in Nat /\ m >= 3
    OBVIOUS
<1>2. Unescape(s) = h[1]
    BY Zenon DEF Unescape, Unescaped
<1>3. 0 \in S
    <2>1. \A i \in (m - 0 + 1)..m : FALSE
        BY <1>1
    <2>2. P(0)
        BY <2>1, Zenon
    <2> QED
        BY <2>2
<1>4. ASSUME NEW k \in 0..(m - 1), k \in S PROVE k + 1 \in S
    <2>1. PICK g : \A i \in (m - k + 1)..m : g[i] = Unescaped(g, s, i)
        BY <1>4
    <2> DEFINE a == m - k
               e == Unescaped(g, s, a)
               f == [i \in 1..m |-> IF i = a THEN e ELSE g[i]]
    <2>2. a \in 1..m /\ m - k + 1 = a + 1 /\ m - (k + 1) + 1 = a /\ k + 1 \in Nat
        BY <1>1
    <2>3. f[a] = e /\ \A i \in (a + 1)..m : f[i] = g[i]
        <3> HIDE DEF e, m
        <3>1. \A i \in (a + 1)..m : i \in 1..m /\ i # a
            BY <1>1, <2>2
        <3> HIDE DEF a
        <3> QED
            BY <2>2, <3>1, Zenon
    <2> HIDE DEF f
    <2>4. ASSUME NEW i \in a..m PROVE f[i] = Unescaped(f, s, i)
        <3>1. i \in 1..m /\ (i = a \/ i \in (a + 1)..m) /\ \A j \in (i + 1)..m : j \in (a + 1)..m
            <4> HIDE DEF m
            <4> QED
                BY <1>1, <2>2
        <3>2. Unescaped(f, s, i) = Unescaped(g, s, i)
            <4>1. \A j \in (i + 1)..m : f[j] = g[j]
                BY <2>3, <3>1, Zenon
            <4> QED
                BY <3>1, <4>1, UnescapedRest
        <3>3. f[i] = Unescaped(g, s, i)
            BY <2>1, <2>2, <2>3, <3>1, Zenon
        <3> QED
            BY <3>2, <3>3, Zenon
    <2>5. P(k + 1)
        BY <2>2, <2>4, Zenon
    <2> QED
        BY <2>2, <2>5
<1>5. m \in S
    <2> HIDE DEF S, m
    <2> QED
        BY <1>1, <1>3, <1>4, Induction
<1>6. PICK g : \A i \in 1..m : g[i] = Unescaped(g, s, i)
    <2>1. m - m + 1 = 1
        BY <1>1
    <2>2. P(m)
        BY <1>5, Zenon
    <2> QED
        BY <2>1, <2>2, Zenon
<1> DEFINE f == [i \in 1..m |-> g[i]]
<1>7. R(f)
    <2>1. \A i \in 1..m : f[i] = g[i]
        BY Zenon
    <2> HIDE DEF f
    <2>2. ASSUME NEW i \in 1..m PROVE g[i] = Unescaped(f, s, i)
        <3>1. \A j \in (i + 1)..m : f[j] = g[j]
            <4>1. \A j \in (i + 1)..m : j \in 1..m
                BY <1>1
            <4> QED
                BY <2>1, <4>1, Zenon
        <3>2. Unescaped(f, s, i) = Unescaped(g, s, i)
            BY <3>1, UnescapedRest
        <3> QED
            BY <1>6, <3>2, Zenon
    <2> QED
        BY <2>2, Zenon DEF f
<1>8. R(h)
    BY <1>7, Zenon
<1> HIDE DEF h
<1>9. \A i \in 1..m : h[i] = Unescaped(h, s, i)
    BY <1>8, Zenon
<1> QED
    BY <1>2, <1>9, Zenon

\* How a character may be written.
Stands(piece, c) ==
    \/ piece = <<"+">> /\ c = " "
    \/ \E x \in DOMAIN CharOf : piece = <<"%">> \o x /\ c = CharOf[x]
    \/ piece = <<c>> /\ c # "+" /\ c # "%"

\* What comes of s from i on is c, and what comes of what is l characters on.
Yields(h, s, i, c, l) == Unescaped(h, s, i) = <<c>> \o h[i + l]

LEMMA UnescapedPiece ==
    ASSUME NEW s, Len(s) \in Nat, NEW i \in 1..Len(s), NEW piece, NEW c, Stands(piece, c),
           i + Len(piece) <= Len(s) + 1,
           \A j \in 1..Len(piece) : s[(i - 1) + j] = piece[j],
           NEW h
    PROVE  Len(piece) \in 1..3 /\ Yields(h, s, i, c, Len(piece))
<1>1. (i - 1) + 1 = i /\ (i - 1) + 2 = i + 1 /\ (i - 1) + 3 = i + 2
    OBVIOUS
<1>2. CASE piece = <<"+">> /\ c = " "
    <2>1. Len(piece) = 1 /\ piece[1] = "+"
        BY <1>2
    <2>2. s[i] = "+" /\ ~(i > Len(s))
        BY <1>1, <2>1
    <2>3. "+" # "%"
        OBVIOUS
    <2>4. Len(piece) \in 1..3
        BY <2>1
    <2> QED
        BY <1>2, <2>1, <2>2, <2>3, <2>4, Zenon DEF Unescaped, Yields
<1>3. CASE piece = <<c>> /\ c # "+" /\ c # "%"
    <2>1. Len(piece) = 1 /\ piece[1] = c
        BY <1>3
    <2>2. s[i] = c /\ ~(i > Len(s))
        BY <1>1, <2>1
    <2>3. Len(piece) \in 1..3
        BY <2>1
    <2> QED
        BY <1>3, <2>1, <2>2, <2>3, Zenon DEF Unescaped, Yields
<1>4. ASSUME NEW x \in DOMAIN CharOf, piece = <<"%">> \o x, c = CharOf[x]
      PROVE  /\ Len(piece) \in 1..3
             /\ Unescaped(h, s, i) = <<c>> \o h[i + Len(piece)]
    <2>1. x \in HexDigits \X HexDigits
        BY CharAssumption, Zenon
    <2>2. \A p : /\ Len(<<p>> \o x) = 3 /\ (<<p>> \o x)[1] = p
                 /\ (<<p>> \o x)[2] = x[1] /\ (<<p>> \o x)[3] = x[2] /\ x = <<x[1], x[2]>>
        <3> TAKE p
        <3>1. PICK a \in HexDigits, b \in HexDigits : x = <<a, b>>
            BY <2>1
        <3>2. /\ Len(<<p>> \o <<a, b>>) = 3 /\ (<<p>> \o <<a, b>>)[1] = p
              /\ (<<p>> \o <<a, b>>)[2] = a /\ (<<p>> \o <<a, b>>)[3] = b
              /\ <<a, b>>[1] = a /\ <<a, b>>[2] = b
            OBVIOUS
        <3> QED
            BY <3>1, <3>2, Zenon
    <2>3. Len(piece) = 3 /\ piece[1] = "%" /\ piece[2] = x[1] /\ piece[3] = x[2]
          /\ x = <<x[1], x[2]>>
        BY <1>4, <2>2, Zenon
    <2>4. s[i] = "%" /\ s[i + 1] = x[1] /\ s[i + 2] = x[2] /\ ~(i > Len(s)) /\ i + 2 <= Len(s)
        <3>1. 1 \in 1..Len(piece) /\ 2 \in 1..Len(piece) /\ 3 \in 1..Len(piece)
            BY <2>3
        <3>2. ~(i > Len(s)) /\ i + 2 <= Len(s)
            BY <2>3
        <3> QED
            BY <1>1, <2>3, <3>1, <3>2, Zenon
    <2>5. Len(piece) \in 1..3
        BY <2>3
    <2>6. <<s[i + 1], s[i + 2]>> = x
        BY <2>3, <2>4, Zenon
    <2>7. Unescaped(h, s, i) = <<CharOf[x]>> \o h[i + 3]
        BY <2>4, <2>6, Zenon DEF Unescaped
    <2> QED
        BY <1>4, <2>3, <2>5, <2>7, Zenon
<1> QED
    BY <1>2, <1>3, <1>4, Zenon DEF Stands, Yields

\* A text of which each piece stands for a character is that of these characters.
LEMMA UnescapeStands ==
    ASSUME NEW X, NEW ss \in Seq(Seq(X)), NEW V, NEW v \in Seq(V), Len(ss) = Len(v),
           \A i \in 1..Len(v) : Stands(ss[i], v[i])
    PROVE  Unescape(FlattenSeq(ss)) = v
<1> DEFINE s == FlattenSeq(ss)
           n == Len(v)
<1>1. s \in Seq(X) /\ Len(s) \in Nat /\ n \in Nat
    <2>1. s \in Seq(X)
        BY FlattenIsSeq, Zenon
    <2> HIDE DEF s
    <2> QED
        BY <2>1
<1> HIDE DEF s
<1>2. PICK h : /\ Unescape(s) = h[1]
               /\ \A i \in 1..(Len(s) + 3) : h[i] = Unescaped(h, s, i)
    BY <1>1, UnescapeIs, Zenon
<1>3. /\ \A k \in 0..n : Upto(ss, k) \in Nat
      /\ Upto(ss, 0) = 0 /\ Upto(ss, n) = Len(s)
      /\ \A k \in 1..n : Upto(ss, k) = Upto(ss, k - 1) + Len(ss[k])
      /\ \A k \in 0..n : Upto(ss, k) <= Len(s)
    <2>1. /\ \A k \in 0..Len(ss) : Upto(ss, k) \in Nat
          /\ Upto(ss, 0) = 0
          /\ \A k \in 1..Len(ss) : Upto(ss, k) = Upto(ss, k - 1) + Len(ss[k])
          /\ Upto(ss, Len(ss)) = Len(s)
        BY UptoSteps, Zenon DEF s
    <2>2. ASSUME NEW k \in 0..Len(ss) PROVE Upto(ss, k) <= Upto(ss, Len(ss))
        <3>1. Len(ss) \in k..Len(ss)
            BY <1>1
        <3> QED
            BY <3>1, UptoMonotone, Zenon
    <2> QED
        BY <2>1, <2>2, Zenon
<1> DEFINE rest(j) == SubSeq(v, j + 1, n)
           Q(j) == h[Upto(ss, j) + 1] = rest(j)
           S == {k \in Nat : Q(n - k)}
<1>4. 0 \in S
    <2>1. n - 0 = n /\ Upto(ss, n) + 1 = Len(s) + 1 /\ Len(s) + 1 \in 1..(Len(s) + 3)
          /\ Len(s) + 1 > Len(s)
        BY <1>1, <1>3
    <2>2. h[Len(s) + 1] = <<>>
        BY <1>2, <2>1, Zenon DEF Unescaped
    <2>3. rest(n) = <<>>
        BY <1>1
    <2>4. Q(n - 0)
        BY <2>1, <2>2, <2>3, Zenon
    <2> HIDE DEF Q
    <2> QED
        BY <2>4
<1>5. ASSUME NEW j \in 1..n, Q(j) PROVE Q(j - 1)
    <2> DEFINE i == Upto(ss, j - 1) + 1
               p == ss[j]
               l == Len(p)
    <2>1. j \in 0..n /\ j - 1 \in 0..n /\ j \in 1..Len(ss) /\ (j - 1) + 1 = j
        BY <1>1
    <2>2. Upto(ss, j - 1) \in Nat /\ Upto(ss, j) = Upto(ss, j - 1) + l /\ Upto(ss, j) <= Len(s)
          /\ l \in Nat
        <3>1. l \in Nat
            BY <2>1
        <3> QED
            BY <1>3, <2>1, <3>1, Zenon
    <2>3. Stands(p, v[j])
        BY Zenon
    <2>4. l # 0
        <3>1. \A y : <<y>> # <<>> /\ Len(<<y>>) = 1
            OBVIOUS
        <3>2. ASSUME NEW x \in DOMAIN CharOf PROVE Len(<<"%">> \o x) # 0
            <4>1. PICK a \in HexDigits, b \in HexDigits : x = <<a, b>>
                BY CharAssumption
            <4>2. Len(<<"%">> \o <<a, b>>) = 3
                OBVIOUS
            <4> QED
                BY <4>1, <4>2
        <3>3. 1 # 0
            OBVIOUS
        <3> QED
            BY <2>3, <3>1, <3>2, <3>3, Zenon DEF Stands
    <2>5. \A a \in 1..l : s[Upto(ss, j - 1) + a] = p[a]
        BY <2>1, PlaceHas, Zenon DEF s
    <2> HIDE DEF p, l
    <2>6. /\ i \in 1..Len(s) /\ i + l <= Len(s) + 1 /\ i \in 1..(Len(s) + 3)
          /\ i - 1 = Upto(ss, j - 1) /\ i + l = Upto(ss, j) + 1
        BY <1>1, <2>2, <2>4
    <2>7. \A a \in 1..l : s[(i - 1) + a] = p[a]
        BY <2>5, <2>6, Zenon
    <2> HIDE DEF i
    <2>8. Unescaped(h, s, i) = <<v[j]>> \o h[i + l]
        <3>1. i + Len(p) <= Len(s) + 1 /\ \A a \in 1..Len(p) : s[(i - 1) + a] = p[a]
            BY <2>6, <2>7, Zenon DEF l
        <3>2. Len(s) \in Nat /\ i \in 1..Len(s) /\ Stands(p, v[j])
            BY <1>1, <2>3, <2>6, Zenon
        <3>3. Yields(h, s, i, v[j], Len(p))
            BY <3>1, <3>2, UnescapedPiece, Zenon
        <3> QED
            BY <3>3, Zenon DEF l, Yields
    <2>9. h[i] = <<v[j]>> \o rest(j)
        BY <1>2, <1>5, <2>6, <2>8, Zenon
    <2>10. <<v[j]>> \o rest(j) = rest(j - 1)
        <3>1. rest(j) \in Seq(V) /\ Len(rest(j)) = n - j /\ \A a \in 1..(n - j) : rest(j)[a] = v[j + a]
            BY <1>1
        <3>2. /\ rest(j - 1) \in Seq(V) /\ Len(rest(j - 1)) = (n - j) + 1
              /\ \A a \in 1..((n - j) + 1) : rest(j - 1)[a] = v[(j - 1) + a]
            BY <1>1
        <3> DEFINE r == rest(j)
                   t == rest(j - 1)
                   w == <<v[j]>> \o r
        <3> HIDE DEF r, t, n
        <3>3. v[j] \in V
            BY <1>1 DEF n
        <3>4. /\ w \in Seq(V) /\ Len(w) = (n - j) + 1 /\ w[1] = v[j]
              /\ \A a \in 1..(n - j) : w[a + 1] = r[a]
            BY <1>1, <3>1, <3>3 DEF r
        <3> HIDE DEF w
        <3>5. \A a \in 1..((n - j) + 1) : w[a] = t[a]
            <4> TAKE a \in 1..((n - j) + 1)
            <4>1. CASE a = 1
                BY <1>1, <3>2, <3>4, <4>1 DEF t
            <4>2. CASE a # 1
                <5>1. a - 1 \in 1..(n - j) /\ (a - 1) + 1 = a /\ j + (a - 1) = (j - 1) + a
                    BY <1>1, <4>2
                <5> QED
                    BY <3>1, <3>2, <3>4, <5>1, Zenon DEF r, t
            <4> QED
                BY <4>1, <4>2
        <3>6. w = t
            BY <3>2, <3>4, <3>5, SameSeq, Zenon DEF t
        <3> QED
            BY <3>6, Zenon DEF w, r, t
    <2> QED
        BY <2>9, <2>10, Zenon DEF i
<1>6. ASSUME NEW k \in 0..(n - 1), k \in S PROVE k + 1 \in S
    <2>1. n - k \in 1..n /\ (n - k) - 1 = n - (k + 1) /\ k + 1 \in Nat
        BY <1>1
    <2>2. Q(n - k)
        BY <1>6, Zenon
    <2>3. Q((n - k) - 1)
        BY <1>5, <2>1, <2>2, Zenon
    <2> HIDE DEF Q
    <2> QED
        BY <2>1, <2>3
<1>7. n \in S
    <2> HIDE DEF S
    <2> QED
        BY <1>1, <1>4, <1>6, Induction
<1>8. Q(0)
    <2>1. n - n = 0
        BY <1>1
    <2>2. Q(n - n)
        BY <1>7, Zenon
    <2> QED
        BY <2>1, <2>2, Zenon
<1>9. Upto(ss, 0) + 1 = 1 /\ rest(0) = v
    BY <1>3
<1>10. Unescape(s) = v
    BY <1>2, <1>8, <1>9, Zenon
<1> QED
    BY <1>10, Zenon DEF s

=============================================================================

----------------------------- MODULE WireProofs -----------------------------
(***************************************************************************)
(* What Wire.tla writes, it reads: numbers, names and embedded messages of *)
(* any length, and fields that a reader does not know.                     *)
(*                                                                         *)
(* The loops are recursive functions.  That they are defined, and what     *)
(* they compute, is induction over a measure; it is stated about sets: a   *)
(* property is the set of the arguments that have it, a step is a function *)
(* from functions to functions.                                            *)
(***************************************************************************)
EXTENDS Wire, FiniteSetTheorems, SequenceTheorems, WellFoundedInduction, TLAPS

-----------------------------------------------------------------------------
(* Induction and recursion.                                                *)

\* A set of naturals that is not empty has a least element.
LEMMA LeastNumber ==
    ASSUME NEW T \in SUBSET Nat, T # {}
    PROVE  \E x \in T : \A y \in T : x <= y
<1> DEFINE R == OpToRel(<, Nat)
<1>1. IsWellFoundedOn(R, Nat)
  BY NatLessThanWellFounded
<1>2. \A x, y \in Nat : x < y => <<x, y>> \in R
  BY DEF OpToRel
<1> HIDE DEF R
<1>3. PICK x \in T : \A y \in T : <<y, x>> \notin R
  BY <1>1, WFMin
<1>4. ASSUME NEW y \in T PROVE x <= y
  <2>1. ~(y < x)
    BY <1>2, <1>3
  <2>2. x \in Nat /\ y \in Nat
    OBVIOUS
  <2> QED BY <2>1, <2>2
<1> QED BY <1>4

\* What holds of every argument if it holds of all smaller ones, holds of all.
LEMMA Induction ==
    ASSUME NEW S, NEW size \in [S -> Nat], NEW T,
           \A x \in S : (\A y \in S : size[y] < size[x] => y \in T) => x \in T
    PROVE  S \subseteq T
<1> SUFFICES ASSUME NEW z \in S, z \notin T PROVE FALSE
  OBVIOUS
<1> DEFINE Out == {x \in S : x \notin T}
           Sizes == {size[x] : x \in Out}
<1>1. Sizes \in SUBSET Nat /\ Sizes # {}
  OBVIOUS
<1>2. PICK n \in Sizes : \A m \in Sizes : n <= m
  <2> HIDE DEF Sizes
  <2> QED BY <1>1, LeastNumber
<1>3. PICK x \in Out : size[x] = n
  BY <1>2
<1>4. ASSUME NEW y \in S, size[y] < size[x] PROVE y \in T
  <2> SUFFICES ASSUME y \notin T PROVE FALSE
    OBVIOUS
  <2>1. size[y] \in Sizes
    OBVIOUS
  <2>2. n <= size[y]
    <3> HIDE DEF Sizes
    <3> QED BY <1>2, <2>1
  <2>3. size[y] \in Nat /\ size[x] \in Nat
    OBVIOUS
  <2> QED BY <1>3, <1>4, <2>2, <2>3
<1> QED BY <1>3, <1>4

\* A function is defined by how its value comes from its values at smaller arguments.
\* Step makes a function of a function; V has the values each argument may have.
Typed(S, V) == {f \in [S -> UNION {V[x] : x \in S}] : \A x \in S : f[x] \in V[x]}
OfSmaller(S, size, V, Step) ==
    \A f, g \in Typed(S, V), x \in S :
        (\A y \in S : size[y] < size[x] => f[y] = g[y]) => Step[f][x] = Step[g][x]

LEMMA Recursion ==
    ASSUME NEW S, NEW size \in [S -> Nat], NEW V, NEW Step,
           Step \in [Typed(S, V) -> Typed(S, V)], OfSmaller(S, size, V, Step),
           Typed(S, V) # {}
    PROVE  \E f \in Typed(S, V) : f = Step[f]
<1> DEFINE F == Typed(S, V)
           Upto(n) == {f \in F : \A x \in S : size[x] < n => f[x] = Step[f][x]}
<1>1. \A n \in Nat : Upto(n) # {}
  <2> DEFINE Good == {n \in Nat : Upto(n) # {}}
             id == [n \in Nat |-> n]
  <2>1. id \in [Nat -> Nat]
    OBVIOUS
  <2>2. ASSUME NEW n \in Nat, \A m \in Nat : id[m] < id[n] => m \in Good PROVE n \in Good
    <3>1. CASE n = 0
      <4>1. \A x \in S : ~(size[x] < 0)
        OBVIOUS
      <4> QED BY <3>1, <4>1
    <3>2. CASE n # 0
      <4>1. n - 1 \in Good
        BY <2>2, <3>2
      <4>2. PICK f \in F : \A x \in S : size[x] < n - 1 => f[x] = Step[f][x]
        BY <4>1
      <4> DEFINE g == Step[f]
      <4>3. g \in F
        OBVIOUS
      <4>4. ASSUME NEW x \in S, size[x] < n PROVE g[x] = Step[g][x]
        <5>1. ASSUME NEW y \in S, size[y] < size[x] PROVE f[y] = g[y]
          <6>1. size[y] \in Nat /\ size[x] \in Nat
            OBVIOUS
          <6>2. size[y] < n - 1
            BY <4>4, <5>1, <6>1
          <6> QED BY <4>2, <6>2
        <5> HIDE DEF g, F
        <5> QED BY <4>2, <4>3, <5>1 DEF OfSmaller, g, F
      <4> QED BY <4>3, <4>4
    <3> QED BY <3>1, <3>2
  <2>3. Nat \subseteq Good
    <3> HIDE DEF Good, id
    <3> QED BY <2>1, <2>2, Induction
  <2> QED BY <2>3
<1>2. ASSUME NEW n \in Nat, NEW f \in Upto(n), NEW m \in Nat, NEW g \in Upto(m)
      PROVE  \A x \in S : size[x] < n /\ size[x] < m => f[x] = g[x]
  <2> DEFINE Same == {x \in S : size[x] < n /\ size[x] < m => f[x] = g[x]}
  <2>1. ASSUME NEW x \in S, \A y \in S : size[y] < size[x] => y \in Same PROVE x \in Same
    <3> SUFFICES ASSUME size[x] < n, size[x] < m PROVE f[x] = g[x]
      OBVIOUS
    <3>1. ASSUME NEW y \in S, size[y] < size[x] PROVE f[y] = g[y]
      <4>1. size[y] \in Nat /\ size[x] \in Nat
        OBVIOUS
      <4>2. size[y] < n /\ size[y] < m
        BY <3>1, <4>1
      <4> QED BY <2>1, <3>1, <4>2
    <3>2. Step[f][x] = Step[g][x]
      BY <3>1 DEF OfSmaller
    <3> QED BY <3>2
  <2>2. S \subseteq Same
    <3> HIDE DEF Same, Upto
    <3> QED BY <2>1, Induction
  <2> QED BY <2>2
<1> DEFINE near(x) == CHOOSE f : f \in Upto(size[x] + 1)
           h == [x \in S |-> near(x)[x]]
<1>3. ASSUME NEW x \in S PROVE near(x) \in Upto(size[x] + 1) /\ near(x) \in F
  <2>1. size[x] + 1 \in Nat
    OBVIOUS
  <2>2. \E f : f \in Upto(size[x] + 1)
    BY <1>1, <2>1
  <2>3. near(x) \in Upto(size[x] + 1)
    <3> HIDE DEF Upto
    <3> QED BY <2>2
  <2> HIDE DEF near
  <2> QED BY <2>3
<1>4. h \in F
  <2>1. ASSUME NEW x \in S PROVE h[x] \in V[x]
    <3> HIDE DEF near
    <3> QED BY <1>3 DEF Typed
  <2> HIDE DEF near
  <2> QED BY <2>1 DEF Typed
<1>5. ASSUME NEW x \in S PROVE h[x] = Step[h][x]
  <2> DEFINE f == near(x)
  <2>1. f \in F /\ f[x] = Step[f][x]
    <3> HIDE DEF near
    <3>1. size[x] < size[x] + 1
      OBVIOUS
    <3> QED BY <1>3, <3>1
  <2>2. ASSUME NEW y \in S, size[y] < size[x] PROVE f[y] = h[y]
    <3>1. size[y] \in Nat /\ size[x] \in Nat
      OBVIOUS
    <3>2. size[y] < size[y] + 1 /\ size[y] < size[x] + 1
      BY <2>2, <3>1
    <3>3. near(x)[y] = near(y)[y]
      <4> HIDE DEF near, Upto
      <4> QED BY <1>2, <1>3, <3>1, <3>2
    <3> HIDE DEF near
    <3> QED BY <3>3
  <2>3. Step[f][x] = Step[h][x]
    <3> HIDE DEF f, h
    <3> QED BY <1>4, <2>1, <2>2 DEF OfSmaller
  <2>4. h[x] = f[x]
    OBVIOUS
  <2> HIDE DEF f, h
  <2> QED BY <2>1, <2>3, <2>4
<1>6. h = Step[h]
  <2> DEFINE U == UNION {V[x] : x \in S}
             g == Step[h]
  <2>1. h \in [S -> U]
    <3> HIDE DEF h
    <3> QED BY <1>4 DEF Typed
  <2>2. g \in [S -> U]
    <3> HIDE DEF h
    <3> QED BY <1>4 DEF Typed
  <2>3. \A x \in S : h[x] = g[x]
    BY <1>5
  <2>4. h = g
    <3> HIDE DEF h, g, U
    <3> QED BY <2>1, <2>2, <2>3
  <2> QED BY <2>4
<1> QED BY <1>4, <1>6

\* The same when all values are in one set.
Defines(S, size, T, Step) ==
    /\ size \in [S -> Nat] /\ T # {} /\ Step \in [[S -> T] -> [S -> T]]
    /\ \A f, g \in [S -> T], x \in S :
          (\A y \in S : size[y] < size[x] => f[y] = g[y]) => Step[f][x] = Step[g][x]

LEMMA RecursionInto ==
    ASSUME NEW S, NEW size, NEW T, NEW Step, Defines(S, size, T, Step)
    PROVE  \E f \in [S -> T] : f = Step[f]
<1> DEFINE V == [x \in S |-> T]
<1>1. Typed(S, V) = [S -> T]
  <2>1. \A x \in S : V[x] = T
    OBVIOUS
  <2>2. S # {} => UNION {V[x] : x \in S} = T
    <3> HIDE DEF V
    <3> QED BY <2>1
  <2> HIDE DEF V
  <2>3. CASE S # {}
    BY <2>1, <2>2, <2>3 DEF Typed
  <2>4. CASE S = {}
    BY <2>4 DEF Typed
  <2> QED BY <2>3, <2>4
<1> HIDE DEF V
<1>2. Typed(S, V) # {}
  <2>1. PICK t : t \in T
    BY DEF Defines
  <2>2. [x \in S |-> t] \in [S -> T]
    BY <2>1
  <2> QED BY <1>1, <2>2
<1>3. OfSmaller(S, size, V, Step)
  BY <1>1 DEF OfSmaller, Defines
<1>4. Step \in [Typed(S, V) -> Typed(S, V)] /\ size \in [S -> Nat]
  BY <1>1 DEF Defines
<1>5. \E f \in Typed(S, V) : f = Step[f]
  BY <1>2, <1>3, <1>4, Recursion
<1> QED BY <1>1, <1>5

\* And for the natural numbers.
LEMMA Counting ==
    ASSUME NEW T, 0 \in T, \A n \in Nat : n \in T => n + 1 \in T
    PROVE  Nat \subseteq T
<1> DEFINE id == [n \in Nat |-> n]
<1>1. id \in [Nat -> Nat]
  OBVIOUS
<1>2. ASSUME NEW n \in Nat, \A m \in Nat : id[m] < id[n] => m \in T PROVE n \in T
  <2>1. CASE n = 0
    BY <2>1
  <2>2. CASE n # 0
    <3>1. n - 1 \in Nat /\ id[n - 1] < id[n]
      BY <2>2
    <3>2. n - 1 \in T
      BY <1>2, <3>1
    <3>3. (n - 1) + 1 \in T
      BY <3>1, <3>2
    <3>4. (n - 1) + 1 = n
      OBVIOUS
    <3> QED BY <3>3, <3>4
  <2> QED BY <2>1, <2>2
<1> HIDE DEF id
<1> QED BY <1>1, <1>2, Induction

-----------------------------------------------------------------------------
(* Powers of two.                                                          *)

LEMMA Power2Unfolds ==
    Power2 = [n \in Nat |-> IF n = 0 THEN 1 ELSE 2 * Power2[n - 1]]
<1> DEFINE Body(f, n) == IF n = 0 THEN 1 ELSE 2 * f[n - 1]
           id == [n \in Nat |-> n]
           Step == [f \in [Nat -> Nat] |-> [n \in Nat |-> Body(f, n)]]
<1>1. Step \in [[Nat -> Nat] -> [Nat -> Nat]]
  <2>1. ASSUME NEW f \in [Nat -> Nat], NEW n \in Nat PROVE Body(f, n) \in Nat
    <3>1. CASE n # 0
      <4>1. n - 1 \in Nat
        BY <3>1
      <4>2. f[n - 1] \in Nat
        BY <4>1
      <4> QED BY <4>2
    <3> QED BY <3>1
  <2> HIDE DEF Body
  <2> QED BY <2>1
<1>2. ASSUME NEW f \in [Nat -> Nat], NEW g \in [Nat -> Nat], NEW n \in Nat,
             \A m \in Nat : id[m] < id[n] => f[m] = g[m]
      PROVE  Step[f][n] = Step[g][n]
  <2>1. CASE n # 0
    <3>1. n - 1 \in Nat /\ id[n - 1] < id[n]
      BY <2>1
    <3>2. f[n - 1] = g[n - 1]
      BY <1>2, <3>1
    <3> QED BY <3>2
  <2> QED BY <2>1
<1>3. \E f \in [Nat -> Nat] : f = Step[f]
  <2>1. id \in [Nat -> Nat] /\ Nat # {}
    OBVIOUS
  <2> HIDE DEF Step, id
  <2> DEFINE N == Nat
  <2>2. Defines(N, id, N, Step)
    BY <1>1, <1>2, <2>1 DEF Defines
  <2>3. \E f \in [N -> N] : f = Step[f]
    <3> HIDE DEF N
    <3> QED BY <2>2, RecursionInto
  <2> QED BY <2>3
<1>4. \E f : f = [n \in Nat |-> Body(f, n)]
  <2> HIDE DEF Body
  <2> QED BY <1>3
<1> QED BY <1>4, Zenon DEF Power2

\* What the powers are, and that they grow.
LEMMA Powers ==
    /\ Power2[0] = 1
    /\ \A n \in Nat : Power2[n] \in Nat \ {0} /\ Power2[n + 1] = 2 * Power2[n]
<1>1. ASSUME NEW n \in Nat PROVE Power2[n + 1] = 2 * Power2[n]
  <2>1. n + 1 \in Nat /\ n + 1 # 0 /\ (n + 1) - 1 = n
    OBVIOUS
  <2>2. Power2[n + 1] = IF n + 1 = 0 THEN 1 ELSE 2 * Power2[(n + 1) - 1]
    BY <2>1, Power2Unfolds, Zenon
  <2> QED BY <2>1, <2>2
<1>2. Power2[0] = 1
  BY Power2Unfolds
<1> DEFINE Good == {n \in Nat : Power2[n] \in Nat \ {0}}
<1>3. 0 \in Good /\ \A n \in Nat : n \in Good => n + 1 \in Good
  BY <1>1, <1>2
<1>4. Nat \subseteq Good
  <2> HIDE DEF Good
  <2> QED BY <1>3, Counting
<1> QED BY <1>1, <1>2, <1>4

LEMMA PowersGrow ==
    ASSUME NEW m \in Nat, NEW n \in Nat, m <= n
    PROVE  Power2[m] <= Power2[n]
<1> DEFINE Good == {k \in Nat : Power2[m] <= Power2[m + k]}
<1>1. 0 \in Good
  BY Powers
<1>2. ASSUME NEW k \in Nat, k \in Good PROVE k + 1 \in Good
  <2>1. m + k \in Nat /\ m + (k + 1) = (m + k) + 1
    OBVIOUS
  <2>2. Power2[m + (k + 1)] = 2 * Power2[m + k] /\ Power2[m + k] \in Nat /\ Power2[m] \in Nat
    BY <2>1, Powers
  <2> QED BY <1>2, <2>2
<1>3. Nat \subseteq Good
  <2> HIDE DEF Good
  <2> QED BY <1>1, <1>2, Counting
<1>4. n - m \in Good /\ m + (n - m) = n
  BY <1>3
<1> QED BY <1>4

\* Seven bits.
LEMMA SevenBits ==
    ASSUME NEW n \in Nat
    PROVE  Power2[7] = 128 /\ Power2[n + 7] = 128 * Power2[n]
<1>1. ASSUME NEW k \in Nat PROVE Power2[k + 7] = 128 * Power2[k]
  <2> DEFINE P(i) == Power2[k + i]
  <2>1. P(1) = 2 * P(0) /\ P(2) = 2 * P(1) /\ P(3) = 2 * P(2) /\ P(4) = 2 * P(3)
    <3>1. \A i \in Nat : Power2[(k + i) + 1] = 2 * Power2[k + i]
      BY Powers
    <3>2. k + 1 = (k + 0) + 1 /\ k + 2 = (k + 1) + 1 /\ k + 3 = (k + 2) + 1 /\ k + 4 = (k + 3) + 1
      OBVIOUS
    <3> QED BY <3>1, <3>2
  <2>2. P(5) = 2 * P(4) /\ P(6) = 2 * P(5) /\ P(7) = 2 * P(6)
    <3>1. \A i \in Nat : Power2[(k + i) + 1] = 2 * Power2[k + i]
      BY Powers
    <3>2. k + 5 = (k + 4) + 1 /\ k + 6 = (k + 5) + 1 /\ k + 7 = (k + 6) + 1
      OBVIOUS
    <3> QED BY <3>1, <3>2
  <2>3. P(0) \in Nat /\ P(0) = Power2[k]
    BY Powers
  <2> HIDE DEF P
  <2>4. P(7) = 128 * P(0)
    BY <2>1, <2>2, <2>3
  <2> QED BY <2>3, <2>4 DEF P
<1>2. Power2[0 + 7] = 128 * Power2[0]
  BY <1>1
<1> QED BY <1>1, <1>2, Powers

-----------------------------------------------------------------------------
(* Writing a number.                                                       *)

LEMMA Groups7Unfolds ==
    Groups7 = [x \in Nat |-> IF x < 128 THEN <<x>>
                             ELSE <<(x % 128) + 128>> \o Groups7[x \div 128]]
<1> DEFINE Body(f, x) == IF x < 128 THEN <<x>> ELSE <<(x % 128) + 128>> \o f[x \div 128]
           id == [x \in Nat |-> x]
           Step == [f \in [Nat -> Text] |-> [x \in Nat |-> Body(f, x)]]
<1>1. Step \in [[Nat -> Text] -> [Nat -> Text]]
  <2>1. ASSUME NEW f \in [Nat -> Text], NEW x \in Nat PROVE Body(f, x) \in Text
    <3>1. CASE x < 128
      <4>1. x \in Byte
        BY <3>1 DEF Byte
      <4> QED BY <3>1, <4>1 DEF Text
    <3>2. CASE ~(x < 128)
      <4>1. x \div 128 \in Nat /\ (x % 128) + 128 \in Byte
        BY DEF Byte
      <4>2. f[x \div 128] \in Text
        BY <4>1
      <4>3. <<(x % 128) + 128>> \in Seq(Byte)
        BY <4>1
      <4> QED BY <3>2, <4>2, <4>3, ConcatProperties DEF Text
    <3> QED BY <3>1, <3>2
  <2> HIDE DEF Body
  <2> QED BY <2>1
<1>2. ASSUME NEW f \in [Nat -> Text], NEW g \in [Nat -> Text], NEW x \in Nat,
             \A y \in Nat : id[y] < id[x] => f[y] = g[y]
      PROVE  Step[f][x] = Step[g][x]
  <2>1. CASE ~(x < 128)
    <3>1. x \div 128 \in Nat /\ id[x \div 128] < id[x]
      BY <2>1
    <3>2. f[x \div 128] = g[x \div 128]
      BY <1>2, <3>1
    <3> QED BY <3>2
  <2> QED BY <2>1
<1>3. \E f \in [Nat -> Text] : f = Step[f]
  <2>1. id \in [Nat -> Nat] /\ << >> \in Text
    BY DEF Text
  <2> HIDE DEF Step, id
  <2>2. Defines(Nat, id, Text, Step)
    BY <1>1, <1>2, <2>1 DEF Defines
  <2> QED BY <2>2, RecursionInto
<1>4. \E f : f = [x \in Nat |-> Body(f, x)]
  <2> HIDE DEF Body
  <2> QED BY <1>3
<1> QED BY <1>4, Zenon DEF Groups7

\* The bytes of a number: one at least, the high bit set on all but the last, and no
\* more than the number needs.
Encodes(bytes, x) ==
    /\ bytes \in Text /\ Len(bytes) >= 1
    /\ \A i \in 1..Len(bytes) : bytes[i] < 128 <=> i = Len(bytes)
    /\ x < Power2[7 * Len(bytes)]
    /\ Len(bytes) > 1 => Power2[7 * (Len(bytes) - 1)] <= x

LEMMA Groups7Encodes ==
    ASSUME NEW x \in Nat
    PROVE  Encodes(Groups7[x], x)
<1> DEFINE id == [n \in Nat |-> n]
           Good == {n \in Nat : Encodes(Groups7[n], n)}
<1>1. ASSUME NEW n \in Nat, \A m \in Nat : id[m] < id[n] => m \in Good PROVE n \in Good
  <2> DEFINE bytes == Groups7[n]
  <2>1. CASE n < 128
    <3>1. bytes = <<n>>
      BY <2>1, Groups7Unfolds
    <3>2. n \in Byte
      BY <2>1 DEF Byte
    <3>3. bytes \in Text /\ Len(bytes) = 1 /\ bytes[1] = n
      BY <3>1, <3>2 DEF Text
    <3>4. Power2[7] = 128
      BY SevenBits
    <3> HIDE DEF bytes
    <3>5. Encodes(bytes, n)
      BY <2>1, <3>3, <3>4 DEF Encodes
    <3> QED BY <3>5 DEF bytes
  <2>2. CASE ~(n < 128)
    <3> DEFINE m == n \div 128
               b == (n % 128) + 128
               high == Groups7[m]
               k == Len(high)
    <3>1. m \in Nat /\ m < n /\ b \in Byte /\ b >= 128 /\ 128 * m <= n /\ n < 128 * (m + 1) /\ m >= 1
      BY <2>2 DEF Byte
    <3>2. bytes = <<b>> \o high
      BY <2>2, Groups7Unfolds
    <3>3. Encodes(high, m)
      BY <1>1, <3>1
    <3> HIDE DEF m, b, high, bytes
    <3>4. <<b>> \in Seq(Byte) /\ high \in Seq(Byte) /\ Len(<<b>>) = 1
      BY <3>1, <3>3 DEF Encodes, Text
    <3>5. k \in Nat /\ k >= 1
      BY <3>3, <3>4 DEF Encodes
    <3>6. /\ bytes \in Text /\ Len(bytes) = Len(high) + 1
          /\ bytes[1] = b /\ \A i \in 1..Len(high) : bytes[i + 1] = high[i]
      <4>1. /\ bytes \in Seq(Byte) /\ Len(bytes) = 1 + Len(high)
            /\ \A i \in 1..1 + Len(high) : bytes[i] = IF i <= 1 THEN <<b>>[i] ELSE high[i - 1]
        BY <3>2, <3>4, ConcatProperties
      <4> QED BY <3>5, <4>1 DEF Text
    <3>7. ASSUME NEW i \in 1..Len(bytes) PROVE bytes[i] < 128 <=> i = Len(bytes)
      <4>1. CASE i = 1
        BY <3>1, <3>5, <3>6, <4>1 DEF Byte
      <4>2. CASE i # 1
        <5>1. i - 1 \in 1..Len(high) /\ bytes[i] = high[i - 1]
          BY <3>5, <3>6, <4>2
        <5> QED BY <3>3, <3>5, <3>6, <5>1 DEF Encodes
      <4> QED BY <4>1, <4>2
    <3>8. Power2[7 * (k + 1)] = 128 * Power2[7 * k] /\ Power2[7 * k] \in Nat
      <4>1. 7 * k \in Nat /\ 7 * (k + 1) = 7 * k + 7
        BY <3>5
      <4> QED BY <4>1, SevenBits, Powers, ZenonT(60)
    <3>9. m < Power2[7 * k]
      BY <3>3 DEF Encodes
    <3>10. n < Power2[7 * (k + 1)]
      BY <3>1, <3>8, <3>9
    <3>11. Power2[7 * k] <= n
      <4>1. CASE k = 1
        BY <2>2, <4>1, SevenBits
      <4>2. CASE k > 1
        <5>1. Power2[7 * (k - 1)] <= m
          BY <3>3, <4>2 DEF Encodes
        <5>2. 7 * (k - 1) \in Nat /\ 7 * k = 7 * (k - 1) + 7
          BY <3>5, <4>2
        <5>3. Power2[7 * k] = 128 * Power2[7 * (k - 1)] /\ Power2[7 * (k - 1)] \in Nat
          BY <5>2, SevenBits, Powers, ZenonT(60)
        <5> QED BY <3>1, <5>1, <5>3
      <4>3. k = 1 \/ k > 1
        <5> HIDE DEF k
        <5> QED BY <3>5
      <4> QED BY <4>1, <4>2, <4>3
    <3>12. Len(bytes) = k + 1 /\ (k + 1) - 1 = k /\ Len(bytes) >= 1
      BY <3>5, <3>6
    <3> HIDE DEF k
    <3>13. Encodes(bytes, n)
      BY <3>6, <3>7, <3>10, <3>11, <3>12 DEF Encodes
    <3> QED BY <3>13 DEF bytes
  <2> QED BY <2>1, <2>2
<1>2. Nat \subseteq Good
  <2>1. id \in [Nat -> Nat]
    OBVIOUS
  <2> HIDE DEF Good, id
  <2> QED BY <1>1, <2>1, Induction
<1> QED BY <1>2

\* As many groups as the code counts.
LEMMA SovCounts ==
    ASSUME NEW x \in Word
    PROVE  sov(x) = Len(Groups7[x]) /\ sov(x) \in 1..Groups
<1> DEFINE y == x + 1 - (x % 2)
           g == Len(Groups7[x])
           Below == {n \in 0..WordBits - 1 : Power2[n] <= y}
<1>1. x \in Nat /\ x < Power2[WordBits] /\ Power2[WordBits] \in Nat /\ WordBits \in Nat
      /\ Groups \in Nat \ {0} /\ WordBits = 7 * (Groups - 1) + 1
  <2>1. WordBits \in Nat /\ WordBits = 7 * (Groups - 1) + 1 /\ Groups \in Nat \ {0}
    BY WidthsAssumption DEF WordBits
  <2>2. Power2[WordBits] \in Nat
    BY <2>1, Powers
  <2> QED BY <2>1, <2>2 DEF Word, WordSize
<1>2. y \in Nat /\ y >= 1 /\ x <= y /\ y <= x + 1
  BY <1>1
<1>3. /\ g \in Nat /\ g >= 1 /\ x < Power2[7 * g]
      /\ g > 1 => Power2[7 * (g - 1)] <= x
  <2>1. Encodes(Groups7[x], x)
    BY <1>1, Groups7Encodes
  <2> QED BY <2>1 DEF Encodes, Text
<1> HIDE DEF g
<1>4. y < Power2[7 * g]
  <2>1. 7 * g - 1 \in Nat /\ 7 * g = (7 * g - 1) + 1
    BY <1>3
  <2>2. Power2[7 * g] = 2 * Power2[7 * g - 1] /\ Power2[7 * g - 1] \in Nat
    BY <2>1, Powers
  <2> HIDE DEF y
  <2> DEFINE p == Power2[7 * g - 1]
  <2>3. Power2[7 * g] = 2 * p /\ p \in Nat
    BY <2>2
  <2> HIDE DEF p
  <2>4. x % 2 = 1 => y = x
    BY <1>1 DEF y
  <2>5. x % 2 = 0 => y = x + 1
    BY <1>1 DEF y
  <2>6. CASE x % 2 = 1
    BY <2>4, <2>6, <1>3
  <2>7. CASE x % 2 = 0
    <3>1. x + 1 # 2 * p
      BY <1>1, <2>3, <2>7
    <3> QED BY <1>1, <1>3, <2>3, <2>5, <2>7, <3>1
  <2>8. x % 2 = 0 \/ x % 2 = 1
    BY <1>1
  <2> QED BY <2>6, <2>7, <2>8
<1>5. Power2[7 * (g - 1)] <= y
  <2>1. CASE g = 1
    <3>1. 7 * (g - 1) = 0
      BY <2>1
    <3> QED BY <1>2, <3>1, Powers
  <2>2. CASE g > 1
    <3>1. 7 * (g - 1) \in Nat
      BY <1>3
    <3>2. Power2[7 * (g - 1)] \in Nat
      BY <3>1, Powers
    <3> QED BY <1>1, <1>2, <1>3, <2>2, <3>2
  <2> QED BY <1>3, <2>1, <2>2
<1> HIDE DEF y
<1>6. g <= Groups
  <2> SUFFICES ASSUME g > Groups PROVE FALSE
    BY <1>1, <1>3
  <2>1. WordBits <= 7 * (g - 1) /\ 7 * (g - 1) \in Nat /\ g > 1
    BY <1>1, <1>3
  <2>2. Power2[WordBits] <= Power2[7 * (g - 1)] /\ Power2[7 * (g - 1)] \in Nat
    BY <1>1, <2>1, PowersGrow, Powers
  <2> QED BY <1>1, <1>3, <2>1, <2>2
<1>7. 0..7 * (g - 1) \subseteq Below
  <2> SUFFICES ASSUME NEW n \in 0..7 * (g - 1) PROVE n \in Below
    OBVIOUS
  <2>1. n \in Nat /\ 7 * (g - 1) \in Nat /\ n <= 7 * (g - 1) /\ n \in 0..WordBits - 1
    BY <1>1, <1>3, <1>6
  <2>2. Power2[n] <= Power2[7 * (g - 1)] /\ Power2[n] \in Nat /\ Power2[7 * (g - 1)] \in Nat
    BY <2>1, PowersGrow, Powers
  <2> QED BY <1>2, <1>5, <2>1, <2>2
<1>8. Below \subseteq 0..7 * g - 1
  <2> SUFFICES ASSUME NEW n \in Below, n \notin 0..7 * g - 1 PROVE FALSE
    OBVIOUS
  <2>1. n \in Nat /\ 7 * g \in Nat /\ 7 * g <= n
    BY <1>1, <1>3
  <2>2. Power2[7 * g] <= Power2[n] /\ Power2[n] \in Nat /\ Power2[7 * g] \in Nat
    BY <2>1, PowersGrow, Powers
  <2>3. Power2[n] <= y
    OBVIOUS
  <2> QED BY <1>2, <1>4, <2>2, <2>3
<1>9. Cardinality(Below) \in 7 * (g - 1) + 1..7 * g
  <2> HIDE DEF Below
  <2>1. /\ IsFiniteSet(0..7 * (g - 1)) /\ Cardinality(0..7 * (g - 1)) = 7 * (g - 1) + 1
        /\ IsFiniteSet(0..7 * g - 1) /\ Cardinality(0..7 * g - 1) = 7 * g
    <3> DEFINE a == 7 * (g - 1)
               b == 7 * g - 1
    <3>1. a \in Nat /\ b \in Nat
      BY <1>3
    <3> HIDE DEF a, b
    <3>2. /\ Cardinality(0..a) = a + 1 /\ IsFiniteSet(0..a)
          /\ Cardinality(0..b) = b + 1 /\ IsFiniteSet(0..b)
      BY <3>1, FS_Interval
    <3>3. b + 1 = 7 * g
      BY <1>3 DEF b
    <3> QED BY <3>2, <3>3 DEF a, b
  <2>2. IsFiniteSet(Below) /\ Cardinality(Below) <= Cardinality(0..7 * g - 1)
    BY <1>8, <2>1, FS_Subset
  <2>3. Cardinality(0..7 * (g - 1)) <= Cardinality(Below)
    BY <1>7, <2>2, FS_Subset
  <2>4. Cardinality(Below) \in Nat
    BY <2>2, FS_CardinalityType
  <2> QED BY <1>3, <2>1, <2>2, <2>3, <2>4
<1>10. sov(x) = (Cardinality(Below) + 6) \div 7
  BY DEF sov, Len64, y
<1> HIDE DEF Below
<1>11. sov(x) = g
  BY <1>3, <1>9, <1>10
<1> QED BY <1>1, <1>3, <1>6, <1>11 DEF g

\* The size of any number is a natural number, and that many bytes are written.
LEMMA VarintTyped ==
    ASSUME NEW x \in Nat, NEW rest \in Text
    PROVE  /\ sov(x) \in Nat
           /\ encodeVarint(x, rest) \in Text
           /\ Len(encodeVarint(x, rest)) = sov(x) + Len(rest)
<1> DEFINE Below == {n \in 0..WordBits - 1 : Power2[n] <= x + 1 - (x % 2)}
           bytes == Groups7[x]
           zeros == [i \in 1..sov(x) |-> 0]
           buffer == zeros \o rest
<1>1. sov(x) \in Nat
  <2>1. WordBits - 1 \in Int
    BY WidthsAssumption DEF WordBits
  <2>2. IsFiniteSet(0..WordBits - 1) /\ Below \subseteq 0..WordBits - 1
    BY <2>1, FS_Interval
  <2>3. Cardinality(Below) \in Nat
    <3> HIDE DEF Below
    <3> QED BY <2>2, FS_Subset, FS_CardinalityType
  <2>4. sov(x) = (Cardinality(Below) + 6) \div 7
    BY DEF sov, Len64
  <2> HIDE DEF Below
  <2> QED BY <2>3, <2>4
<1>2. zeros \in Seq(Byte) /\ Len(zeros) = sov(x)
  <2>1. 0 \in Byte
    BY DEF Byte
  <2> QED BY <1>1, <2>1
<1>3. buffer \in Seq(Byte) /\ Len(buffer) = sov(x) + Len(rest) /\ DOMAIN buffer = 1..Len(buffer)
  <2>1. rest \in Seq(Byte)
    BY DEF Text
  <2> HIDE DEF zeros
  <2>2. buffer \in Seq(Byte) /\ Len(buffer) = sov(x) + Len(rest)
    BY <1>2, <2>1, ConcatProperties
  <2> HIDE DEF buffer
  <2> QED BY <2>2
<1>4. bytes \in Seq(Byte)
  BY Groups7Encodes DEF Encodes, Text
<1>5. encodeVarint(x, rest) = [i \in DOMAIN buffer |-> IF i <= Len(bytes) THEN bytes[i] ELSE buffer[i]]
  BY DEF encodeVarint
<1> HIDE DEF buffer, bytes
<1>6. \A i \in 1..Len(buffer) : (IF i <= Len(bytes) THEN bytes[i] ELSE buffer[i]) \in Byte
  <2> SUFFICES ASSUME NEW i \in 1..Len(buffer)
               PROVE  (IF i <= Len(bytes) THEN bytes[i] ELSE buffer[i]) \in Byte
    OBVIOUS
  <2>1. CASE i <= Len(bytes)
    <3>1. i \in 1..Len(bytes)
      BY <1>4, <2>1
    <3> QED BY <1>4, <2>1, <3>1
  <2>2. CASE ~(i <= Len(bytes))
    BY <1>3, <2>2
  <2> QED BY <2>1, <2>2
<1>7. /\ encodeVarint(x, rest) \in Seq(Byte)
      /\ Len(encodeVarint(x, rest)) = Len(buffer)
  <2>1. Len(buffer) \in Nat
    BY <1>3
  <2> QED BY <1>3, <1>5, <1>6, <2>1
<1> QED BY <1>1, <1>3, <1>7 DEF Text

\* A number that fits a word is written whole.
LEMMA VarintWritten ==
    ASSUME NEW x \in Word, NEW rest \in Text
    PROVE  encodeVarint(x, rest) = Groups7[x] \o rest
<1> DEFINE bytes == Groups7[x]
           zeros == [i \in 1..sov(x) |-> 0]
           buffer == zeros \o rest
           written == encodeVarint(x, rest)
<1>1. x \in Nat
  BY WidthsAssumption DEF Word
<1>2. bytes \in Seq(Byte) /\ Len(bytes) = sov(x) /\ sov(x) \in Nat /\ rest \in Seq(Byte)
  BY <1>1, Groups7Encodes, SovCounts DEF Encodes, Text
<1>3. zeros \in Seq(Byte) /\ Len(zeros) = sov(x)
  <2>1. 0 \in Byte
    BY DEF Byte
  <2> QED BY <1>2, <2>1
<1>4. /\ buffer \in Seq(Byte) /\ Len(buffer) = sov(x) + Len(rest)
      /\ \A i \in 1..sov(x) + Len(rest) : buffer[i] = IF i <= sov(x) THEN zeros[i] ELSE rest[i - sov(x)]
  <2> HIDE DEF zeros
  <2>1. /\ buffer \in Seq(Byte) /\ Len(buffer) = Len(zeros) + Len(rest)
        /\ \A i \in 1..Len(zeros) + Len(rest) :
              buffer[i] = IF i <= Len(zeros) THEN zeros[i] ELSE rest[i - Len(zeros)]
    BY <1>2, <1>3, ConcatProperties
  <2> HIDE DEF buffer
  <2> QED BY <1>2, <1>3, <2>1
<1>5. /\ bytes \o rest \in Seq(Byte) /\ Len(bytes \o rest) = sov(x) + Len(rest)
      /\ \A i \in 1..sov(x) + Len(rest) :
            (bytes \o rest)[i] = IF i <= sov(x) THEN bytes[i] ELSE rest[i - sov(x)]
  <2> HIDE DEF bytes
  <2>1. /\ bytes \o rest \in Seq(Byte) /\ Len(bytes \o rest) = Len(bytes) + Len(rest)
        /\ \A i \in 1..Len(bytes) + Len(rest) :
              (bytes \o rest)[i] = IF i <= Len(bytes) THEN bytes[i] ELSE rest[i - Len(bytes)]
    BY <1>2, ConcatProperties
  <2> QED BY <1>2, <2>1
<1>6. written = [i \in DOMAIN buffer |-> IF i <= Len(bytes) THEN bytes[i] ELSE buffer[i]]
  BY DEF encodeVarint
<1>7. written \in Seq(Byte) /\ Len(written) = sov(x) + Len(rest)
  BY <1>1, VarintTyped DEF Text
<1> HIDE DEF written, bytes, buffer
<1>8. ASSUME NEW i \in 1..Len(written) PROVE written[i] = (bytes \o rest)[i]
  <2>1. i \in DOMAIN buffer /\ i \in 1..sov(x) + Len(rest)
    BY <1>4, <1>7
  <2>2. written[i] = IF i <= Len(bytes) THEN bytes[i] ELSE buffer[i]
    BY <1>6, <2>1
  <2> QED BY <1>2, <1>4, <1>5, <2>1, <2>2
<1>9. written = bytes \o rest
  BY <1>5, <1>7, <1>8, SeqEqual
<1> QED BY <1>9 DEF written, bytes

-----------------------------------------------------------------------------
(* Reading a number.                                                       *)

LEMMA MinIs ==
    ASSUME NEW S \in SUBSET Int, NEW m \in S, \A n \in S : m <= n
    PROVE  Min(S) = m
<1>1. \E x \in S : \A y \in S : x <= y
  OBVIOUS
<1>2. Min(S) \in S /\ \A y \in S : Min(S) <= y
  BY <1>1, Zenon DEF Min
<1>3. Min(S) <= m /\ m <= Min(S) /\ m \in Int /\ Min(S) \in Int
  BY <1>2
<1> QED BY <1>3

LEMMA Remainder ==
    ASSUME NEW n \in Nat \ {0}, NEW x \in Nat
    PROVE  /\ x % n \in 0..n - 1
           /\ x < n => x % n = x
           /\ n <= x /\ x < 2 * n => x % n = x - n
<1>1. x % n \in 0..n - 1 /\ x = n * (x \div n) + (x % n) /\ x \div n \in Int
  OBVIOUS
<1> DEFINE q == x \div n
           r == x % n
<1>2. r \in 0..n - 1 /\ x = n * q + r /\ q \in Int
  BY <1>1
<1> HIDE DEF q, r
<1>3. q <= -1 => n * q <= -n
  BY <1>2
<1>4. q >= 1 => n * q >= n
  BY <1>2
<1>5. q >= 2 => n * q >= 2 * n
  BY <1>2
<1>6. x < n => q = 0
  BY <1>2, <1>3, <1>4
<1>7. n <= x /\ x < 2 * n => q = 1
  BY <1>2, <1>3, <1>4, <1>5
<1>8. x < n => r = x
  BY <1>2, <1>6
<1>9. n <= x /\ x < 2 * n => r = x - n
  BY <1>2, <1>7
<1> QED BY <1>2, <1>8, <1>9 DEF r

LEMMA NumberToUnfolds ==
    ASSUME NEW data \in Text, NEW last \in 0..Len(data)
    PROVE  /\ NumberTo(data, last) =
                 [at \in 0..last |-> IF at = last THEN 0
                                     ELSE (data[at + 1] % 128) + 128 * NumberTo(data, last)[at + 1]]
           /\ NumberTo(data, last) \in [0..last -> Nat]
<1> DEFINE S == 0..last
           Body(f, at) == IF at = last THEN 0 ELSE (data[at + 1] % 128) + 128 * f[at + 1]
           size == [at \in S |-> last - at]
           Step == [f \in [S -> Nat] |-> [at \in S |-> Body(f, at)]]
           whole == NumberTo(data, last)
<1>0. last \in Nat /\ size \in [S -> Nat]
  OBVIOUS
<1>1. ASSUME NEW at \in S, NEW f, at # last => f[at + 1] \in Nat PROVE Body(f, at) \in Nat
  <2>1. CASE at # last
    <3>1. at + 1 \in 1..Len(data) /\ data \in Seq(Byte)
      BY <2>1 DEF Text
    <3>2. data[at + 1] \in Byte
      BY <3>1, ElementOfSeq
    <3>3. \A b \in Byte : b \in Nat
      BY DEF Byte
    <3>4. data[at + 1] \in Nat
      BY <3>2, <3>3
    <3> QED BY <1>1, <2>1, <3>4
  <2> QED BY <2>1
<1>2. Step \in [[S -> Nat] -> [S -> Nat]]
  <2>1. ASSUME NEW f \in [S -> Nat], NEW at \in S PROVE Body(f, at) \in Nat
    <3>1. at # last => f[at + 1] \in Nat
      BY <1>0
    <3> HIDE DEF Body, S
    <3> QED BY <1>1, <3>1
  <2> HIDE DEF Body, S
  <2> QED BY <2>1
<1>3. ASSUME NEW f \in [S -> Nat], NEW g \in [S -> Nat], NEW at \in S,
             \A m \in S : size[m] < size[at] => f[m] = g[m]
      PROVE  Step[f][at] = Step[g][at]
  <2>1. CASE at # last
    <3>1. at + 1 \in S /\ size[at + 1] < size[at]
      BY <1>0, <2>1
    <3>2. f[at + 1] = g[at + 1]
      BY <1>3, <3>1
    <3> QED BY <3>2
  <2> QED BY <2>1
<1>4. \E f : f = [at \in S |-> Body(f, at)]
  <2>1. \E f \in [S -> Nat] : f = Step[f]
    <3> HIDE DEF Step, size, S
    <3>1. Defines(S, size, Nat, Step)
      BY <1>0, <1>2, <1>3 DEF Defines
    <3> QED BY <3>1, RecursionInto
  <2> HIDE DEF Body, S
  <2> QED BY <2>1
<1>5. whole = [at \in S |-> Body(whole, at)]
  BY <1>4, Zenon DEF NumberTo
<1>6. whole \in [S -> Nat]
  <2> DEFINE Good == {at \in S : whole[at] \in Nat}
  <2>1. ASSUME NEW at \in S, \A m \in S : size[m] < size[at] => m \in Good PROVE at \in Good
    <3>1. ASSUME at # last PROVE whole[at + 1] \in Nat
      <4>1. at + 1 \in S /\ size[at + 1] < size[at]
        BY <1>0, <3>1
      <4> QED BY <2>1, <4>1
    <3>2. whole[at] = Body(whole, at)
      <4> HIDE DEF Body, whole, S
      <4> QED BY <1>5
    <3>3. Body(whole, at) \in Nat
      <4> HIDE DEF Body, S, whole
      <4> QED BY <1>1, <3>1
    <3> QED BY <3>2, <3>3
  <2>2. S \subseteq Good
    <3> HIDE DEF Good, size, S
    <3> QED BY <1>0, <2>1, Induction
  <2>3. whole = [at \in S |-> whole[at]]
    <3> HIDE DEF Body, whole, S
    <3> QED BY <1>5
  <2>4. \A at \in S : whole[at] \in Nat
    BY <2>2
  <2> HIDE DEF whole, S
  <2> QED BY <2>3, <2>4
<1> QED BY <1>5, <1>6

LEMMA NumberStep ==
    ASSUME NEW data \in Text, NEW last \in 0..Len(data), NEW at \in 0..last
    PROVE  /\ NumberTo(data, last)[at] \in Nat
           /\ at = last => NumberTo(data, last)[at] = 0
           /\ at # last => NumberTo(data, last)[at] =
                              (data[at + 1] % 128) + 128 * NumberTo(data, last)[at + 1]
<1> DEFINE S == 0..last
           whole == NumberTo(data, last)
           Value(n) == IF n = last THEN 0 ELSE (data[n + 1] % 128) + 128 * whole[n + 1]
<1>1. whole = [n \in S |-> Value(n)] /\ whole \in [S -> Nat]
  BY NumberToUnfolds
<1>2. whole[at] = Value(at) /\ whole[at] \in Nat
  <2> HIDE DEF whole, Value
  <2> QED BY <1>1
<1> QED BY <1>2

\* Bytes that are in the data from a position on, and bytes that the data ends in.
Holds(data, at, bytes) ==
    at + Len(bytes) <= Len(data) /\ \A i \in 1..Len(bytes) : data[at + i] = bytes[i]
EndsIn(data, at, bytes) ==
    /\ at <= Len(data) /\ Len(data) < at + Len(bytes)
    /\ \A i \in 1..Len(bytes) : at + i <= Len(data) => data[at + i] = bytes[i]

LEMMA TextTyped ==
    ASSUME NEW data \in Text
    PROVE  /\ Len(data) \in Nat
           /\ \A i \in 1..Len(data) : data[i] \in Byte /\ data[i] \in Nat
<1>1. data \in Seq(Byte)
  BY DEF Text
<1>2. \A i \in 1..Len(data) : data[i] \in Byte
  BY <1>1, ElementOfSeq
<1>3. \A b \in Byte : b \in Nat
  BY DEF Byte
<1>4. Len(data) \in Nat
  BY <1>1, LenProperties
<1> QED BY <1>2, <1>3, <1>4

LEMMA TextJoined ==
    ASSUME NEW a \in Text, NEW b \in Text
    PROVE  /\ a \o b \in Text /\ Len(a \o b) = Len(a) + Len(b)
           /\ \A i \in 1..Len(a) : (a \o b)[i] = a[i]
           /\ \A i \in 1..Len(b) : (a \o b)[Len(a) + i] = b[i]
<1>1. Len(a) \in Nat /\ Len(b) \in Nat /\ a \in Seq(Byte) /\ b \in Seq(Byte)
  BY TextTyped DEF Text
<1>2. /\ a \o b \in Seq(Byte) /\ Len(a \o b) = Len(a) + Len(b)
      /\ \A i \in 1..Len(a) + Len(b) : (a \o b)[i] = IF i <= Len(a) THEN a[i] ELSE b[i - Len(a)]
  BY <1>1, ConcatProperties
<1>3. ASSUME NEW i \in 1..Len(a) PROVE (a \o b)[i] = a[i]
  <2>1. i \in 1..Len(a) + Len(b) /\ i <= Len(a)
    BY <1>1
  <2> QED BY <1>2, <2>1
<1>4. ASSUME NEW i \in 1..Len(b) PROVE (a \o b)[Len(a) + i] = b[i]
  <2>1. Len(a) + i \in 1..Len(a) + Len(b) /\ ~(Len(a) + i <= Len(a)) /\ (Len(a) + i) - Len(a) = i
    BY <1>1
  <2> QED BY <1>2, <2>1
<1> QED BY <1>2, <1>3, <1>4 DEF Text

LEMMA HoldsBoth ==
    ASSUME NEW data \in Text, NEW at \in Nat, NEW a \in Text, NEW b \in Text
    PROVE  Holds(data, at, a \o b) => Holds(data, at, a) /\ Holds(data, at + Len(a), b)
<1> SUFFICES ASSUME Holds(data, at, a \o b)
             PROVE  Holds(data, at, a) /\ Holds(data, at + Len(a), b)
  OBVIOUS
<1> DEFINE c == a \o b
           m == Len(a)
           n == Len(b)
<1>1. m \in Nat /\ n \in Nat /\ Len(data) \in Nat
  BY TextTyped
<1>2. Len(c) = m + n /\ (\A i \in 1..m : c[i] = a[i]) /\ \A i \in 1..n : c[m + i] = b[i]
  BY TextJoined
<1>3. at + Len(c) <= Len(data) /\ \A i \in 1..Len(c) : data[at + i] = c[i]
  BY DEF Holds
<1> HIDE DEF c, m, n
<1>4. ASSUME NEW i \in 1..m PROVE data[at + i] = a[i]
  <2>1. i \in 1..Len(c)
    BY <1>1, <1>2
  <2> QED BY <1>2, <1>3, <2>1
<1>5. ASSUME NEW i \in 1..n PROVE data[at + m + i] = b[i]
  <2>1. m + i \in 1..Len(c) /\ at + (m + i) = at + m + i
    BY <1>1, <1>2
  <2> QED BY <1>2, <1>3, <2>1
<1>6. at + m <= Len(data) /\ at + m + n <= Len(data)
  BY <1>1, <1>2, <1>3
<1> QED BY <1>4, <1>5, <1>6 DEF Holds, m, n

LEMMA EndsInOne ==
    ASSUME NEW data \in Text, NEW at \in Nat, NEW a \in Text, NEW b \in Text,
           EndsIn(data, at, a \o b)
    PROVE  EndsIn(data, at, a) \/ (Holds(data, at, a) /\ EndsIn(data, at + Len(a), b))
<1> DEFINE c == a \o b
           m == Len(a)
           n == Len(b)
<1>1. m \in Nat /\ n \in Nat /\ Len(data) \in Nat
  BY TextTyped
<1>2. Len(c) = m + n /\ (\A i \in 1..m : c[i] = a[i]) /\ \A i \in 1..n : c[m + i] = b[i]
  BY TextJoined
<1>3. /\ at <= Len(data) /\ Len(data) < at + Len(c)
      /\ \A i \in 1..Len(c) : at + i <= Len(data) => data[at + i] = c[i]
  BY DEF EndsIn
<1> HIDE DEF c, m, n
<1>4. ASSUME NEW i \in 1..m, at + i <= Len(data) PROVE data[at + i] = a[i]
  <2>1. i \in 1..Len(c)
    BY <1>1, <1>2
  <2> QED BY <1>2, <1>3, <1>4, <2>1
<1>5. CASE Len(data) < at + m
  BY <1>3, <1>4, <1>5 DEF EndsIn, m
<1>6. CASE ~(Len(data) < at + m)
  <2>1. ASSUME NEW i \in 1..n, at + m + i <= Len(data) PROVE data[at + m + i] = b[i]
    <3>1. m + i \in 1..Len(c) /\ at + (m + i) = at + m + i
      BY <1>1, <1>2
    <3> QED BY <1>2, <1>3, <2>1, <3>1
  <2>2. at + m <= Len(data) /\ Len(data) < at + m + n
    BY <1>1, <1>2, <1>3, <1>6
  <2>3. \A i \in 1..m : data[at + i] = a[i]
    <3> SUFFICES ASSUME NEW i \in 1..m PROVE data[at + i] = a[i]
      OBVIOUS
    <3>1. at + i <= Len(data)
      BY <1>1, <2>2
    <3> QED BY <1>4, <3>1
  <2> QED BY <2>1, <2>2, <2>3 DEF EndsIn, Holds, m, n
<1> QED BY <1>5, <1>6

\* The same bytes are the same number wherever they stand.
LEMMA NumberElsewhere ==
    ASSUME NEW f \in Text, NEW data \in Text, NEW off \in Nat, Holds(data, off, f),
           NEW last \in 0..Len(f), NEW at \in 0..last
    PROVE  NumberTo(data, off + last)[off + at] = NumberTo(f, last)[at]
<1> DEFINE S == 0..last
           size == [n \in S |-> last - n]
           N(n) == NumberTo(data, off + last)[off + n]
           M(n) == NumberTo(f, last)[n]
           Good == {n \in S : N(n) = M(n)}
<1>1. Len(f) \in Nat /\ Len(data) \in Nat /\ last \in Nat /\ off + last \in 0..Len(data)
  BY TextTyped DEF Holds
<1>2. ASSUME NEW n \in S, \A m \in S : size[m] < size[n] => m \in Good PROVE n \in Good
  <2>1. off + n \in 0..off + last /\ n \in 0..last
    BY <1>1
  <2>2. CASE n = last
    <3>1. N(n) = 0
      BY <1>1, <2>1, <2>2, NumberStep
    <3>2. M(n) = 0
      BY <1>1, <2>1, <2>2, NumberStep
    <3> QED BY <3>1, <3>2
  <2>3. CASE n # last
    <3>1. n + 1 \in S /\ size[n + 1] < size[n] /\ n + 1 \in 1..Len(f) /\ off + (n + 1) = (off + n) + 1
          /\ off + n # off + last
      BY <1>1, <2>3
    <3>2. N(n + 1) = M(n + 1)
      BY <1>2, <3>1
    <3>3. data[(off + n) + 1] = f[n + 1]
      BY <3>1 DEF Holds
    <3>4. N(n) = (data[(off + n) + 1] % 128) + 128 * NumberTo(data, off + last)[(off + n) + 1]
      BY <1>1, <2>1, <3>1, NumberStep
    <3>5. M(n) = (f[n + 1] % 128) + 128 * M(n + 1)
      BY <1>1, <2>1, <2>3, NumberStep
    <3>6. N(n + 1) = NumberTo(data, off + last)[(off + n) + 1]
      BY <3>1
    <3> HIDE DEF N, M
    <3>7. N(n) = M(n)
      BY <3>2, <3>3, <3>4, <3>5, <3>6
    <3> QED BY <3>7
  <2> QED BY <2>2, <2>3
<1>3. size \in [S -> Nat]
  BY <1>1
<1>4. S \subseteq Good
  <2> HIDE DEF S, Good, size
  <2> QED BY <1>2, <1>3, Induction
<1> QED BY <1>4

LEMMA NumberOfGroups ==
    ASSUME NEW x \in Nat
    PROVE  NumberTo(Groups7[x], Len(Groups7[x]))[0] = x
<1> DEFINE id == [n \in Nat |-> n]
           Good == {n \in Nat : NumberTo(Groups7[n], Len(Groups7[n]))[0] = n}
<1>1. ASSUME NEW n \in Nat, \A m \in Nat : id[m] < id[n] => m \in Good PROVE n \in Good
  <2> DEFINE bytes == Groups7[n]
             k == Len(bytes)
             N(i) == NumberTo(bytes, k)[i]
  <2>1. bytes \in Text /\ k \in Nat /\ k >= 1
    BY Groups7Encodes, TextTyped DEF Encodes
  <2>2. N(0) = (bytes[1] % 128) + 128 * N(1)
    <3> HIDE DEF bytes
    <3>1. k \in 0..Len(bytes) /\ 0 \in 0..k /\ 0 # k /\ 0 + 1 = 1
      BY <2>1
    <3> QED BY <2>1, <3>1, NumberStep
  <2>3. CASE n < 128
    <3>1. bytes = <<n>>
      BY <2>3, Groups7Unfolds
    <3>2. k = 1 /\ bytes[1] = n
      BY <3>1
    <3>3. N(1) = 0
      <4> HIDE DEF bytes
      <4>1. k \in 0..Len(bytes) /\ 1 \in 0..k /\ 1 = k
        BY <2>1, <3>2
      <4> QED BY <2>1, <4>1, NumberStep
    <3> HIDE DEF N, bytes
    <3>4. N(0) = n
      BY <2>2, <2>3, <3>2, <3>3
    <3> QED BY <3>4 DEF N, bytes
  <2>4. CASE ~(n < 128)
    <3> DEFINE m == n \div 128
               b == (n % 128) + 128
               high == Groups7[m]
    <3>1. m \in Nat /\ m < n /\ b \in Byte /\ b \in Nat
          /\ n = 128 * m + (b % 128)
      BY <2>4 DEF Byte
    <3>2. bytes = <<b>> \o high
      BY <2>4, Groups7Unfolds
    <3>3. high \in Text /\ <<b>> \in Text /\ Len(<<b>>) = 1 /\ <<b>>[1] = b
      BY <3>1, Groups7Encodes DEF Encodes, Text
    <3>4. NumberTo(high, Len(high))[0] = m
      BY <1>1, <3>1
    <3> HIDE DEF m, b, high, bytes
    <3>5. Len(high) \in Nat /\ k = 1 + Len(high) /\ bytes[1] = b
          /\ \A i \in 1..Len(high) : bytes[1 + i] = high[i]
      BY <3>2, <3>3, TextJoined, TextTyped
    <3>6. Holds(bytes, 1, high)
      BY <3>5 DEF Holds
    <3>7. N(1) = m
      <4>1. Len(high) \in 0..Len(high) /\ 0 \in 0..Len(high) /\ 1 + 0 = 1 /\ 1 \in Nat
        BY <3>5
      <4>2. NumberTo(bytes, 1 + Len(high))[1 + 0] = NumberTo(high, Len(high))[0]
        BY <2>1, <3>3, <3>6, <4>1, NumberElsewhere
      <4> QED BY <3>4, <3>5, <4>1, <4>2
    <3> HIDE DEF N, k
    <3>8. N(0) = (b % 128) + 128 * m
      BY <2>2, <3>5, <3>7
    <3>9. N(0) = n
      BY <3>1, <3>8
    <3> QED BY <3>9 DEF N, k, bytes
  <2> QED BY <2>3, <2>4
<1>2. Nat \subseteq Good
  <2>1. id \in [Nat -> Nat]
    OBVIOUS
  <2> HIDE DEF Good, id
  <2> QED BY <1>1, <2>1, Induction
<1> QED BY <1>2

\* Where a number ends.
EndOf(data, at, end) ==
    /\ end \in at + 1..at + Groups /\ end <= Len(data) /\ data[end] < 128
    /\ \A i \in at + 1..end - 1 : ~(data[i] < 128)

LEMMA ReadVarintIs ==
    ASSUME NEW data \in Text, NEW at \in Nat, NEW end, EndOf(data, at, end)
    PROVE  ReadVarint(data, at) =
              {[value |-> NumberTo(data, end)[at] % WordSize, next |-> end]}
<1> DEFINE ends == {i \in at + 1..at + Groups : i <= Len(data) /\ data[i] < 128}
<1>1. Groups \in Nat /\ Len(data) \in Nat
  BY WidthsAssumption, TextTyped
<1>2. end \in ends /\ ends \in SUBSET Int /\ end \in Int
  BY <1>1 DEF EndOf
<1>3. ASSUME NEW i \in ends PROVE end <= i
  <2> SUFFICES ASSUME i < end PROVE FALSE
    BY <1>1 DEF EndOf
  <2>1. i \in at + 1..end - 1 /\ data[i] < 128
    BY <1>1 DEF EndOf
  <2> QED BY <2>1 DEF EndOf
<1>4. Min(ends) = end
  <2> HIDE DEF ends
  <2> QED BY <1>2, <1>3, MinIs
<1>5. ends # {}
  BY <1>2
<1> HIDE DEF ends
<1> QED BY <1>4, <1>5 DEF ReadVarint, ends

LEMMA ReadVarintEnds ==
    ASSUME NEW data \in Text, NEW at \in Nat, NEW v \in ReadVarint(data, at)
    PROVE  /\ v = [value |-> v.value, next |-> v.next] /\ ReadVarint(data, at) = {v}
           /\ EndOf(data, at, v.next) /\ v.value = NumberTo(data, v.next)[at] % WordSize
           /\ v.value \in Word /\ v.next \in Nat /\ at < v.next /\ v.next <= Len(data)
<1> DEFINE ends == {i \in at + 1..at + Groups : i <= Len(data) /\ data[i] < 128}
           end == Min(ends)
           one == [value |-> NumberTo(data, end)[at] % WordSize, next |-> end]
<1>1. Groups \in Nat /\ Len(data) \in Nat
  BY WidthsAssumption, TextTyped
<1>2. ReadVarint(data, at) = IF ends = {} THEN {} ELSE {one}
  BY DEF ReadVarint
<1>3. ends # {} /\ v = one
  <2> HIDE DEF ends, one
  <2> QED BY <1>2
<1>4. PICK first \in ends : \A i \in ends : first <= i
  <2>1. ends \in SUBSET Nat
    BY <1>1
  <2> HIDE DEF ends
  <2> QED BY <1>3, <2>1, LeastNumber
<1>5. end = first
  <2>1. ends \in SUBSET Int
    BY <1>1
  <2> HIDE DEF ends
  <2> QED BY <1>4, <2>1, MinIs
<1>6. EndOf(data, at, first)
  <2>1. ASSUME NEW i \in at + 1..first - 1, data[i] < 128 PROVE FALSE
    <3>1. i \in ends
      BY <1>1, <1>4, <2>1
    <3>2. first <= i
      <4> HIDE DEF ends
      <4> QED BY <1>4, <3>1
    <3>3. first \in Int
      BY <1>1, <1>4
    <3> QED BY <2>1, <3>2, <3>3
  <2> QED BY <1>4, <2>1 DEF EndOf
<1>7. v.next = first /\ v.value = NumberTo(data, first)[at] % WordSize
      /\ v = [value |-> v.value, next |-> v.next]
  <2> HIDE DEF end, ends
  <2> QED BY <1>3, <1>5
<1>8. first \in Nat /\ at < first /\ first <= Len(data)
  BY <1>1, <1>4
<1>9. v.value \in Word
  <2>1. NumberTo(data, first)[at] \in Nat
    <3>1. first \in 0..Len(data) /\ at \in 0..first
      BY <1>1, <1>8
    <3> QED BY <3>1, NumberStep
  <2>2. WordSize \in Nat \ {0}
    <3>1. WordBits \in Nat
      BY WidthsAssumption DEF WordBits
    <3> QED BY <3>1, Powers DEF WordSize
  <2> HIDE DEF ends
  <2> QED BY <1>7, <2>1, <2>2, Remainder DEF Word
<1>10. ReadVarint(data, at) = {v}
  <2> HIDE DEF ends, one
  <2> QED BY <1>2, <1>3
<1> HIDE DEF ends
<1> QED BY <1>6, <1>7, <1>8, <1>9, <1>10

LEMMA WordTyped ==
    /\ WordBits \in Nat \ {0} /\ WordSize \in Nat \ {0}
    /\ Power2[WordBits - 1] \in Nat \ {0} /\ WordSize = 2 * Power2[WordBits - 1]
    /\ \A x \in Word : x \in Nat /\ x < WordSize
<1>1. WordBits \in Nat \ {0} /\ WordBits - 1 \in Nat /\ WordBits = (WordBits - 1) + 1
  BY WidthsAssumption DEF WordBits
<1>2. Power2[WordBits] = 2 * Power2[WordBits - 1]
  BY <1>1, Powers
<1>3. Power2[WordBits] \in Nat \ {0} /\ Power2[WordBits - 1] \in Nat \ {0}
  BY <1>1, Powers
<1>4. WordSize \in Nat \ {0}
  BY <1>3 DEF WordSize
<1>5. \A x \in Word : x \in Nat /\ x < WordSize
  BY <1>4 DEF Word
<1> QED BY <1>1, <1>2, <1>3, <1>4, <1>5 DEF WordSize

\* A number is read alike wherever its bytes stand.
LEMMA ReadVarintElsewhere ==
    ASSUME NEW f \in Text, NEW data \in Text, NEW off \in Nat, Holds(data, off, f),
           NEW at \in Nat, NEW v \in ReadVarint(f, at)
    PROVE  ReadVarint(data, off + at) = {[value |-> v.value, next |-> off + v.next]}
<1> DEFINE end == v.next
<1>1. /\ EndOf(f, at, end) /\ v.value = NumberTo(f, end)[at] % WordSize
      /\ end \in Nat /\ at < end /\ end <= Len(f)
  BY ReadVarintEnds
<1>2. Groups \in Nat /\ Len(data) \in Nat /\ Len(f) \in Nat
  BY WidthsAssumption, TextTyped
<1> HIDE DEF end
<1>3. EndOf(data, off + at, off + end)
  <2>1. ASSUME NEW i \in (off + at) + 1..off + end PROVE data[i] = f[i - off]
    <3>1. i - off \in 1..Len(f) /\ off + (i - off) = i
      BY <1>1, <1>2
    <3> QED BY <3>1 DEF Holds
  <2>2. off + end \in (off + at) + 1..(off + at) + Groups /\ off + end <= Len(data)
    BY <1>1, <1>2 DEF EndOf, Holds
  <2>3. data[off + end] < 128
    <3>1. off + end \in (off + at) + 1..off + end /\ (off + end) - off = end
      BY <1>1, <2>2
    <3> QED BY <1>1, <2>1, <3>1 DEF EndOf
  <2>4. ASSUME NEW i \in (off + at) + 1..(off + end) - 1 PROVE ~(data[i] < 128)
    <3>1. i \in (off + at) + 1..off + end /\ i - off \in at + 1..end - 1
      BY <1>1, <2>2
    <3> QED BY <1>1, <2>1, <3>1 DEF EndOf
  <2> QED BY <2>2, <2>3, <2>4 DEF EndOf
<1>4. NumberTo(data, off + end)[off + at] = NumberTo(f, end)[at]
  <2>1. end \in 0..Len(f) /\ at \in 0..end
    BY <1>1, <1>2
  <2> QED BY <2>1, NumberElsewhere
<1>5. ReadVarint(data, off + at) =
         {[value |-> NumberTo(data, off + end)[off + at] % WordSize, next |-> off + end]}
  <2>1. off + at \in Nat
    OBVIOUS
  <2> QED BY <1>3, <2>1, ReadVarintIs
<1> QED BY <1>1, <1>4, <1>5 DEF end

\* What encodeVarint writes is read, and where it stops is where the number stops.
LEMMA ReadVarintReads ==
    ASSUME NEW x \in Word, NEW data \in Text, NEW at \in Nat, Holds(data, at, Groups7[x])
    PROVE  ReadVarint(data, at) = {[value |-> x, next |-> at + Len(Groups7[x])]}
<1> DEFINE g == Groups7[x]
           k == Len(g)
           v == [value |-> x, next |-> k]
<1>1. x \in Nat /\ x < WordSize /\ WordSize \in Nat \ {0}
  BY WordTyped
<1>2. Encodes(g, x)
  BY <1>1, Groups7Encodes
<1>3. g \in Text /\ k \in Nat /\ k >= 1 /\ k <= Groups /\ Groups \in Nat
  <2>1. k \in 1..Groups /\ Groups \in Nat
    BY SovCounts, WidthsAssumption
  <2> HIDE DEF k
  <2>2. g \in Text
    BY <1>2 DEF Encodes
  <2> QED BY <2>1, <2>2
<1> HIDE DEF g
<1>4. EndOf(g, 0, k)
  <2>1. k \in 0 + 1..0 + Groups /\ k <= Len(g) /\ g[k] < 128
    BY <1>2, <1>3 DEF Encodes
  <2>2. ASSUME NEW i \in 0 + 1..k - 1 PROVE ~(g[i] < 128)
    <3>1. i \in 1..Len(g) /\ i # Len(g)
      BY <1>3
    <3> QED BY <1>2, <3>1 DEF Encodes
  <2> QED BY <2>1, <2>2 DEF EndOf
<1>5. NumberTo(g, k)[0] = x
  BY <1>1, NumberOfGroups DEF g
<1>6. x % WordSize = x
  BY <1>1, Remainder
<1>7. ReadVarint(g, 0) = {v}
  <2>1. ReadVarint(g, 0) = {[value |-> NumberTo(g, k)[0] % WordSize, next |-> k]}
    <3> HIDE DEF k
    <3>1. 0 \in Nat
      OBVIOUS
    <3> QED BY <1>3, <1>4, <3>1, ReadVarintIs
  <2> QED BY <1>5, <1>6, <2>1
<1>8. ReadVarint(data, at + 0) = {[value |-> v.value, next |-> at + v.next]}
  <2>1. v \in ReadVarint(g, 0) /\ Holds(data, at, g) /\ 0 \in Nat
    BY <1>7 DEF g
  <2> HIDE DEF v
  <2> QED BY <1>3, <2>1, ReadVarintElsewhere
<1>9. at + 0 = at /\ v.value = x /\ v.next = k
  OBVIOUS
<1> HIDE DEF v
<1> QED BY <1>8, <1>9 DEF g

\* Data that ends inside a number is not read.
LEMMA ReadVarintEndsIn ==
    ASSUME NEW x \in Nat, NEW data \in Text, NEW at \in Nat, EndsIn(data, at, Groups7[x])
    PROVE  ReadVarint(data, at) = {}
<1> DEFINE g == Groups7[x]
<1>1. Encodes(g, x) /\ Len(data) \in Nat
  BY Groups7Encodes, TextTyped
<1>2. g \in Text /\ Len(g) \in Nat
  BY <1>1, TextTyped DEF Encodes
<1> SUFFICES ASSUME NEW v \in ReadVarint(data, at) PROVE FALSE
  OBVIOUS
<1>3. EndOf(data, at, v.next) /\ v.next \in Nat /\ at < v.next /\ v.next <= Len(data)
  BY ReadVarintEnds
<1> DEFINE i == v.next - at
<1>4. i \in 1..Len(g) /\ i # Len(g) /\ at + i = v.next /\ at + i <= Len(data)
  <2>1. Len(data) < at + Len(g)
    BY DEF EndsIn
  <2> HIDE DEF g
  <2> QED BY <1>1, <1>2, <1>3, <2>1
<1>5. data[at + i] = g[i]
  BY <1>4 DEF EndsIn
<1>6. ~(g[i] < 128)
  <2> HIDE DEF g, i
  <2> QED BY <1>1, <1>4 DEF Encodes
<1>7. data[v.next] < 128
  BY <1>3 DEF EndOf
<1> QED BY <1>4, <1>5, <1>6, <1>7

\* A single byte is a number.
LEMMA OneByte ==
    ASSUME NEW x \in 0..127
    PROVE  x \in Word /\ Groups7[x] = <<x>>
<1>1. Groups7[x] = <<x>>
  BY Groups7Unfolds
<1>2. 7 \in Nat /\ WordBits \in Nat /\ 7 <= WordBits
  BY WidthsAssumption DEF WordBits
<1>3. Power2[7] <= WordSize /\ Power2[7] = 128
  BY <1>2, PowersGrow, SevenBits DEF WordSize
<1>4. x \in Word
  BY <1>3, WordTyped DEF Word
<1> QED BY <1>1, <1>4

-----------------------------------------------------------------------------
(* Signed numbers and lengths.                                             *)

LEMMA SignedIs ==
    ASSUME NEW bits \in Nat \ {0}, NEW x \in Nat
    PROVE  /\ Signed(x, bits) \in -Power2[bits - 1]..Power2[bits - 1] - 1
           /\ x < Power2[bits - 1] => Signed(x, bits) = x
           /\ Power2[bits - 1] <= x /\ x < 2 * Power2[bits - 1] =>
                 Signed(x, bits) = x - 2 * Power2[bits - 1]
<1> DEFINE half == Power2[bits - 1]
<1>1. half \in Nat \ {0} /\ Power2[bits] = 2 * half
  <2>1. bits - 1 \in Nat /\ bits = (bits - 1) + 1
    OBVIOUS
  <2>2. Power2[(bits - 1) + 1] = 2 * Power2[bits - 1] /\ Power2[bits - 1] \in Nat \ {0}
    BY <2>1, Powers
  <2> QED BY <2>1, <2>2
<1>2. Signed(x, bits) = ((x + half) % (2 * half)) - half
  BY <1>1 DEF Signed
<1> HIDE DEF half
<1> DEFINE n == 2 * half
           y == x + half
<1>3. n \in Nat \ {0} /\ y \in Nat
  BY <1>1
<1>4. /\ y % n \in 0..n - 1
      /\ y < n => y % n = y
      /\ n <= y /\ y < 2 * n => y % n = y - n
  <2> HIDE DEF n, y
  <2> QED BY <1>3, Remainder
<1> DEFINE r == y % n
<1>5. Signed(x, bits) = r - half /\ r \in 0..n - 1
      /\ (y < n => r = y) /\ (n <= y /\ y < 2 * n => r = y - n)
  BY <1>2, <1>4
<1> HIDE DEF r
<1>6. Signed(x, bits) \in -half..half - 1
  BY <1>1, <1>5
<1>7. x < half => Signed(x, bits) = x
  BY <1>1, <1>5
<1>8. half <= x /\ x < 2 * half => Signed(x, bits) = x - 2 * half
  BY <1>1, <1>5
<1> QED BY <1>6, <1>7, <1>8 DEF half

\* A negative number is written as a large one and read back.
LEMMA SignedBack ==
    ASSUME NEW x \in -Power2[WordBits - 1]..Power2[WordBits - 1] - 1
    PROVE  x % WordSize \in Word /\ Signed(x % WordSize, WordBits) = x
           /\ (x % WordSize = 0 <=> x = 0)
<1> DEFINE half == Power2[WordBits - 1]
           u == x % WordSize
<1>1. half \in Nat \ {0} /\ WordSize = 2 * half /\ WordBits \in Nat \ {0} /\ WordSize \in Nat \ {0}
  BY WordTyped
<1>2. x \in Int /\ -half <= x /\ x < half
  BY <1>1
<1>3. (x >= 0 => u = x) /\ (x < 0 => u = x + WordSize)
  <2>1. CASE x >= 0
    <3>1. x \in Nat /\ x < WordSize
      BY <1>1, <1>2, <2>1
    <3>2. u = x
      BY <1>1, <3>1, Remainder
    <3> QED BY <2>1, <3>2
  <2>2. CASE x < 0
    <3> DEFINE q == x \div WordSize
    <3>1. u \in 0..WordSize - 1 /\ x = WordSize * q + u /\ q \in Int
      <4> DEFINE n == WordSize
      <4>1. n \in Nat \ {0}
        BY <1>1
      <4> HIDE DEF n
      <4>2. (x % n) \in 0..n - 1 /\ x = n * (x \div n) + (x % n) /\ (x \div n) \in Int
        BY <1>2, <4>1
      <4> QED BY <4>2 DEF n
    <3> DEFINE n == WordSize
    <3>2. n \in Nat \ {0} /\ -n <= x /\ x < 0 /\ u \in 0..n - 1 /\ x = n * q + u /\ q \in Int
      BY <1>1, <1>2, <2>2, <3>1
    <3> HIDE DEF n, q, u
    <3>3. q >= 0 => n * q >= 0
      BY <3>2
    <3>4. q <= -2 => n * q <= -(2 * n)
      BY <3>2
    <3>5. q = -1
      BY <3>2, <3>3, <3>4
    <3>6. u = x + n
      BY <3>2, <3>5
    <3> QED BY <2>2, <3>6 DEF n
  <2> QED BY <1>2, <2>1, <2>2
<1> HIDE DEF half, u
<1>4. u \in Nat /\ u < WordSize /\ (u = 0 <=> x = 0)
  BY <1>1, <1>2, <1>3
<1>5. u \in Word
  BY <1>1, <1>4 DEF Word
<1>6. (u < half => Signed(u, WordBits) = u)
      /\ (half <= u /\ u < 2 * half => Signed(u, WordBits) = u - 2 * half)
  BY <1>1, <1>4, SignedIs DEF half
<1>7. Signed(u, WordBits) = x
  BY <1>1, <1>2, <1>3, <1>6
<1> QED BY <1>4, <1>5, <1>7 DEF u

LEMMA JumpIs ==
    ASSUME NEW at \in 0..MaxInt, NEW length \in Word
    PROVE  /\ \A to \in Jump(at, length) : to = at + length /\ to \in Nat /\ to <= MaxInt
           /\ at + length <= MaxInt => Jump(at, length) = {at + length}
<1> DEFINE half == Power2[WordBits - 1]
           n == Signed(length, WordBits)
           to == Signed(at + n, WordBits)
<1>1. half \in Nat \ {0} /\ MaxInt = half - 1 /\ WordBits \in Nat \ {0} /\ WordSize = 2 * half
  BY WordTyped DEF MaxInt
<1>2. length \in Nat /\ length < 2 * half /\ at \in Nat /\ at < half
  BY <1>1, WordTyped
<1>3. (length < half => n = length) /\ (half <= length => n = length - 2 * half)
  BY <1>1, <1>2, SignedIs
<1>4. Jump(at, length) = {p \in {to} : n >= 0 /\ p >= 0}
  BY DEF Jump
<1>5. ASSUME length < half
      PROVE  /\ at + length < half => to = at + length
             /\ half <= at + length => to = at + length - 2 * half
  <2> HIDE DEF n, half
  <2>1. n = length /\ at + n \in Nat /\ at + n < 2 * half
    BY <1>1, <1>2, <1>3, <1>5
  <2>2. /\ at + n < half => to = at + n
        /\ half <= at + n => to = (at + n) - 2 * half
    BY <1>1, <2>1, SignedIs DEF half
  <2> HIDE DEF to
  <2> QED BY <1>1, <1>2, <2>1, <2>2
<1> HIDE DEF to, n, half
<1>6. ASSUME NEW p \in Jump(at, length) PROVE p = at + length /\ p \in Nat /\ p <= MaxInt
  <2>1. p = to /\ n >= 0 /\ to >= 0
    BY <1>4
  <2>2. length < half
    BY <1>1, <1>2, <1>3, <2>1
  <2>3. at + length < half
    <3> SUFFICES ASSUME half <= at + length PROVE FALSE
      BY <1>1, <1>2
    <3>1. to = at + length - 2 * half
      BY <1>5, <2>2
    <3> QED BY <1>1, <1>2, <2>1, <2>2, <3>1
  <2> QED BY <1>1, <1>2, <1>5, <2>1, <2>2, <2>3
<1>7. ASSUME at + length <= MaxInt PROVE Jump(at, length) = {at + length}
  <2>1. length < half /\ at + length < half
    BY <1>1, <1>2, <1>7
  <2>2. n >= 0 /\ to = at + length /\ to >= 0
    BY <1>2, <1>3, <1>5, <2>1
  <2> QED BY <1>4, <2>2
<1> QED BY <1>6, <1>7

LEMMA BufferTyped ==
    ASSUME NEW data \in Buffer
    PROVE  data \in Text /\ Len(data) \in Nat /\ Len(data) \in 0..MaxInt /\ MaxInt \in Nat
<1>1. MaxInt \in Nat
  BY WordTyped DEF MaxInt
<1> QED BY <1>1, TextTyped DEF Buffer

LEMMA ReadBytesTyped ==
    ASSUME NEW data \in Buffer, NEW at \in Nat, NEW b \in ReadBytes(data, at)
    PROVE  /\ b.from \in Nat /\ b.post \in Nat
           /\ at < b.from /\ b.from <= b.post /\ b.post <= Len(data)
<1>0. PICK v \in ReadVarint(data, at) :
         \E p \in Jump(v.next, v.value) : p <= Len(data) /\ b = [from |-> v.next, post |-> p]
  BY DEF ReadBytes
<1>1. PICK p \in Jump(v.next, v.value) : p <= Len(data) /\ b = [from |-> v.next, post |-> p]
  BY <1>0
<1>2. v.value \in Word /\ v.next \in Nat /\ at < v.next /\ v.next <= Len(data)
  BY BufferTyped, ReadVarintEnds
<1>3. v.next \in 0..MaxInt /\ v.value \in Nat
  BY <1>2, BufferTyped, WordTyped
<1>4. p = v.next + v.value
  BY <1>2, <1>3, JumpIs
<1>5. b.from = v.next /\ b.post = p
  BY <1>1
<1> HIDE DEF Jump
<1> QED BY <1>1, <1>2, <1>3, <1>4, <1>5

\* Bytes behind their length.
LEMMA ReadBytesReads ==
    ASSUME NEW s \in Text, NEW data \in Buffer, NEW at \in Nat,
           Holds(data, at, Groups7[Len(s)] \o s)
    PROVE  LET from == at + Len(Groups7[Len(s)])
           IN  /\ Len(s) \in Word
               /\ ReadBytes(data, at) = {[from |-> from, post |-> from + Len(s)]}
               /\ Holds(data, from, s)
<1> DEFINE k == Len(s)
           g == Groups7[k]
           from == at + Len(g)
<1>1. k \in Nat /\ g \in Text /\ data \in Text /\ Len(data) \in 0..MaxInt /\ MaxInt \in Nat
  BY TextTyped, BufferTyped, Groups7Encodes DEF Encodes
<1>2. Len(g) \in Nat
  BY <1>1, TextTyped
<1>3. Holds(data, at, g) /\ Holds(data, from, s)
  BY <1>1, HoldsBoth
<1>4. from \in Nat /\ from + k <= Len(data)
  BY <1>2, <1>3 DEF Holds
<1>5. k \in Word
  <2>1. k <= MaxInt /\ WordSize \in Nat /\ MaxInt < WordSize
    BY <1>1, <1>4, WordTyped DEF MaxInt
  <2> QED BY <1>1, <2>1 DEF Word
<1> HIDE DEF k, g
<1>6. ReadVarint(data, at) = {[value |-> k, next |-> from]}
  BY <1>1, <1>3, <1>5, ReadVarintReads DEF g
<1>7. Jump(from, k) = {from + k}
  <2>1. from \in 0..MaxInt /\ from + k <= MaxInt
    BY <1>1, <1>4
  <2> HIDE DEF from
  <2> QED BY <1>5, <2>1, JumpIs
<1> HIDE DEF from
<1>8. ReadBytes(data, at) = {[from |-> from, post |-> post] : post \in {p \in Jump(from, k) : p <= Len(data)}}
  BY <1>6 DEF ReadBytes
<1>9. ReadBytes(data, at) = {[from |-> from, post |-> from + k]}
  BY <1>4, <1>7, <1>8
<1> QED BY <1>3, <1>5, <1>9 DEF from, k, g

LEMMA ReadBytesEndsIn ==
    ASSUME NEW s \in Text, NEW data \in Buffer, NEW at \in Nat, Len(s) \in Word,
           EndsIn(data, at, Groups7[Len(s)] \o s)
    PROVE  ReadBytes(data, at) = {}
<1> DEFINE k == Len(s)
           g == Groups7[k]
           from == at + Len(g)
<1>1. k \in Nat /\ g \in Text /\ data \in Text /\ Len(data) \in 0..MaxInt /\ MaxInt \in Nat
  BY TextTyped, BufferTyped, Groups7Encodes DEF Encodes
<1>2. EndsIn(data, at, g) \/ (Holds(data, at, g) /\ EndsIn(data, from, s))
  BY <1>1, EndsInOne
<1>3. CASE EndsIn(data, at, g)
  <2>1. ReadVarint(data, at) = {}
    BY <1>1, <1>3, ReadVarintEndsIn
  <2> QED BY <2>1 DEF ReadBytes
<1>4. CASE Holds(data, at, g) /\ EndsIn(data, from, s)
  <2>1. ReadVarint(data, at) = {[value |-> k, next |-> from]}
    BY <1>1, <1>4, ReadVarintReads
  <2>2. from \in 0..MaxInt /\ Len(data) < from + k
    <3>1. Len(g) \in Nat
      BY <1>1, TextTyped
    <3> QED BY <1>1, <1>4, <3>1 DEF EndsIn
  <2> HIDE DEF from, k
  <2>3. \A p \in Jump(from, k) : p = from + k
    BY <2>2, JumpIs DEF k
  <2>4. \A p \in Jump(from, k) : ~(p <= Len(data))
    <3> SUFFICES ASSUME NEW p \in Jump(from, k) PROVE ~(p <= Len(data))
      OBVIOUS
    <3>1. p = from + k /\ from \in Nat /\ Len(data) \in Nat
      BY <1>1, <2>2, <2>3
    <3> QED BY <1>1, <2>2, <3>1
  <2>5. ReadBytes(data, at) = {[from |-> from, post |-> post] : post \in {p \in Jump(from, k) : p <= Len(data)}}
    BY <2>1 DEF ReadBytes
  <2> QED BY <2>4, <2>5
<1> QED BY <1>2, <1>3, <1>4

-----------------------------------------------------------------------------
(* Skipping a field.                                                       *)

Place == [at : Nat, depth : Nat]

LEMMA PastValueTyped ==
    ASSUME NEW data \in Buffer, NEW at \in 0..Len(data), NEW wireType,
           NEW to \in PastValue(data, at, wireType)
    PROVE  to \in Nat /\ at <= to
<1>0. at \in Nat /\ Len(data) \in 0..MaxInt /\ MaxInt \in Nat /\ data \in Text /\ at \in 0..MaxInt
  BY BufferTyped
<1>1. CASE wireType = 0
  <2>1. PICK v \in ReadVarint(data, at) : to = v.next
    BY <1>1 DEF PastValue
  <2> QED BY <1>0, <2>1, ReadVarintEnds
<1>2. CASE wireType = 2
  <2>1. PICK v \in ReadVarint(data, at) : to \in Jump(v.next, v.value)
    BY <1>2 DEF PastValue
  <2>2. v.value \in Word /\ v.next \in Nat /\ at < v.next /\ v.next <= Len(data)
    BY <1>0, ReadVarintEnds
  <2>3. v.next \in 0..MaxInt /\ v.value \in Nat
    BY <1>0, <2>2, WordTyped
  <2>4. to = v.next + v.value
    BY <2>1, <2>2, <2>3, JumpIs
  <2> QED BY <1>0, <2>2, <2>3, <2>4
<1>3. CASE wireType \notin {0, 2}
  <2>1. to \in {at, at + 4, at + 8}
    BY <1>3 DEF PastValue
  <2> QED BY <1>0, <2>1
<1> QED BY <1>1, <1>2, <1>3

LEMMA SkipOneTyped ==
    ASSUME NEW data \in Buffer, NEW c \in Place, NEW d \in SkipOne(data, c)
    PROVE  d \in Place /\ c.at < d.at /\ c.at < Len(data)
<1> DEFINE Deeper(wireType) == CASE wireType = 3 -> c.depth + 1
                                 [] wireType = 4 -> c.depth - 1
                                 [] OTHER -> c.depth
<1>0. c.at \in Nat /\ c.depth \in Nat /\ data \in Text /\ Len(data) \in Nat
  BY BufferTyped DEF Place
<1>1. PICK tag \in ReadVarint(data, c.at) :
         d \in {[at |-> next, depth |-> Deeper(tag.value % 8)]
                : next \in IF Deeper(tag.value % 8) < 0 THEN {}
                           ELSE PastValue(data, tag.next, tag.value % 8)}
  BY DEF SkipOne
<1> DEFINE w == tag.value % 8
           k == Deeper(w)
<1>2. k \in Int
  BY <1>0
<1> HIDE DEF Deeper
<1>3. PICK next \in PastValue(data, tag.next, w) : k >= 0 /\ d = [at |-> next, depth |-> k]
  <2> HIDE DEF w
  <2>1. ~(k < 0)
    BY <1>1 DEF w
  <2> QED BY <1>1, <1>2, <2>1 DEF w
<1>4. tag.next \in Nat /\ c.at < tag.next /\ tag.next <= Len(data)
  BY <1>0, ReadVarintEnds
<1> HIDE DEF w, k
<1>5. next \in Nat /\ tag.next <= next
  <2>1. tag.next \in 0..Len(data)
    BY <1>0, <1>4
  <2> QED BY <2>1, PastValueTyped
<1>6. k \in Nat /\ d.at = next /\ d.depth = k
  BY <1>2, <1>3
<1> QED BY <1>0, <1>3, <1>4, <1>5, <1>6 DEF Place

LEMMA SkipFromUnfolds ==
    ASSUME NEW data \in Buffer, NEW c \in Place
    PROVE  SkipFrom(data)[c] =
              UNION {IF d.depth = 0 THEN {d.at} ELSE SkipFrom(data)[d] : d \in SkipOne(data, c)}
<1> DEFINE Body(f, x) == UNION {IF d.depth = 0 THEN {d.at} ELSE f[d] : d \in SkipOne(data, x)}
           size == [x \in Place |-> IF x.at <= Len(data) THEN Len(data) - x.at ELSE 0]
           T == SUBSET Nat
           Step == [f \in [Place -> T] |-> [x \in Place |-> Body(f, x)]]
<1>1. size \in [Place -> Nat]
  <2>1. \A x \in Place : (IF x.at <= Len(data) THEN Len(data) - x.at ELSE 0) \in Nat
    BY BufferTyped DEF Place
  <2> QED BY <2>1
<1>2. ASSUME NEW x \in Place, NEW d \in SkipOne(data, x)
      PROVE  d \in Place /\ d.at \in Nat /\ size[d] < size[x]
  <2>1. d \in Place /\ x.at < d.at /\ x.at < Len(data)
    BY SkipOneTyped
  <2>2. d.at \in Nat /\ x.at \in Nat /\ Len(data) \in Nat
    BY <2>1, BufferTyped DEF Place
  <2> QED BY <2>1, <2>2
<1>3. Step \in [[Place -> T] -> [Place -> T]]
  <2>1. ASSUME NEW f \in [Place -> T], NEW x \in Place PROVE Body(f, x) \in T
    <3>1. \A d \in SkipOne(data, x) : (IF d.depth = 0 THEN {d.at} ELSE f[d]) \in SUBSET Nat
      <4> HIDE DEF size
      <4> QED BY <1>2
    <3> QED BY <3>1
  <2> HIDE DEF Body, T
  <2> QED BY <2>1
<1>4. ASSUME NEW f \in [Place -> T], NEW g \in [Place -> T], NEW x \in Place,
             \A y \in Place : size[y] < size[x] => f[y] = g[y]
      PROVE  Step[f][x] = Step[g][x]
  <2>1. \A d \in SkipOne(data, x) : f[d] = g[d]
    <3> HIDE DEF size, Step, Body, T
    <3> QED BY <1>2, <1>4
  <2>2. Body(f, x) = Body(g, x)
    <3> HIDE DEF size, Step, T
    <3> QED BY <2>1
  <2> HIDE DEF Body, T, size
  <2> QED BY <2>2
<1>5. \E f : f = [x \in Place |-> Body(f, x)]
  <2>1. \E f \in [Place -> T] : f = Step[f]
    <3>1. T # {}
      OBVIOUS
    <3> HIDE DEF Step, size, T
    <3>2. Defines(Place, size, T, Step)
      BY <1>1, <1>3, <1>4, <3>1 DEF Defines
    <3> QED BY <3>2, RecursionInto
  <2> HIDE DEF Body, T
  <2> QED BY <2>1
<1>6. SkipFrom(data) = [x \in Place |-> Body(SkipFrom(data), x)]
  <2>1. SkipFrom(data) = CHOOSE f : f = [x \in Place |-> Body(f, x)]
    BY DEF SkipFrom, Place
  <2> HIDE DEF Body
  <2> QED BY <1>5, <2>1, Zenon
<1> HIDE DEF Body
<1>7. SkipFrom(data)[c] = Body(SkipFrom(data), c)
  BY <1>6
<1> QED BY <1>7 DEF Body

LEMMA SkipFromTyped ==
    ASSUME NEW data \in Buffer
    PROVE  \A c \in Place : \A to \in SkipFrom(data)[c] : to \in Nat /\ c.at < to
<1> DEFINE size == [x \in Place |-> IF x.at <= Len(data) THEN Len(data) - x.at ELSE 0]
           Good == {c \in Place : \A to \in SkipFrom(data)[c] : to \in Nat /\ c.at < to}
<1>1. size \in [Place -> Nat]
  <2>1. \A x \in Place : (IF x.at <= Len(data) THEN Len(data) - x.at ELSE 0) \in Nat
    BY BufferTyped DEF Place
  <2> QED BY <2>1
<1>2. ASSUME NEW c \in Place, \A d \in Place : size[d] < size[c] => d \in Good PROVE c \in Good
  <2> SUFFICES ASSUME NEW to \in SkipFrom(data)[c] PROVE to \in Nat /\ c.at < to
    OBVIOUS
  <2>1. PICK d \in SkipOne(data, c) : to \in IF d.depth = 0 THEN {d.at} ELSE SkipFrom(data)[d]
    BY SkipFromUnfolds
  <2>2. d \in Place /\ c.at < d.at /\ c.at < Len(data)
    BY SkipOneTyped
  <2>3. d.at \in Nat /\ c.at \in Nat /\ Len(data) \in Nat
    BY <2>2, BufferTyped DEF Place
  <2>4. CASE d.depth = 0
    BY <2>1, <2>2, <2>3, <2>4
  <2>5. CASE d.depth # 0
    <3>1. size[d] < size[c]
      BY <2>2, <2>3
    <3>2. d \in Good
      BY <1>2, <2>2, <3>1
    <3>3. to \in Nat /\ d.at < to
      BY <2>1, <2>5, <3>2
    <3> QED BY <2>2, <2>3, <3>3
  <2> QED BY <2>4, <2>5
<1>3. Place \subseteq Good
  <2> HIDE DEF Good, size
  <2> QED BY <1>1, <1>2, Induction
<1> QED BY <1>3

\* A field is skipped alike wherever its bytes stand.
Moved(c, off) == [at |-> off + c.at, depth |-> c.depth]

LEMMA PastValueElsewhere ==
    ASSUME NEW f \in Buffer, NEW data \in Buffer, NEW off \in Nat, Holds(data, off, f),
           NEW at \in 0..Len(f), NEW wireType, NEW to \in PastValue(f, at, wireType), to <= Len(f)
    PROVE  PastValue(data, off + at, wireType) = {off + to}
<1>0. /\ f \in Text /\ data \in Text /\ at \in Nat /\ Len(f) \in Nat /\ Len(data) \in 0..MaxInt
      /\ MaxInt \in Nat /\ off + Len(f) <= Len(data) /\ at \in 0..MaxInt
  BY BufferTyped DEF Holds
<1>1. CASE wireType = 0
  <2>1. PICK v \in ReadVarint(f, at) : to = v.next
    BY <1>1 DEF PastValue
  <2>2. ReadVarint(data, off + at) = {[value |-> v.value, next |-> off + v.next]}
    BY <1>0, ReadVarintElsewhere
  <2> DEFINE there == [value |-> v.value, next |-> off + v.next]
  <2>3. PastValue(data, off + at, wireType) = {v2.next : v2 \in {there}}
    BY <1>1, <2>2 DEF PastValue
  <2>4. there.next = off + to
    BY <2>1
  <2>5. {v2.next : v2 \in {there}} = {there.next}
    <3> HIDE DEF there
    <3> QED OBVIOUS
  <2> HIDE DEF there
  <2> QED BY <2>3, <2>4, <2>5
<1>2. CASE wireType = 2
  <2>1. PICK v \in ReadVarint(f, at) : to \in Jump(v.next, v.value)
    BY <1>2 DEF PastValue
  <2>2. v.value \in Word /\ v.next \in Nat /\ at < v.next /\ v.next <= Len(f)
    BY <1>0, ReadVarintEnds
  <2>3. v.next \in 0..MaxInt /\ v.value \in Nat /\ off + v.next \in 0..MaxInt
    BY <1>0, <2>2, WordTyped, SMTT(60)
  <2>4. to = v.next + v.value
    BY <2>1, <2>2, <2>3, JumpIs
  <2>5. Jump(off + v.next, v.value) = {(off + v.next) + v.value}
    <3>1. (off + v.next) + v.value <= MaxInt
      BY <1>0, <2>3, <2>4
    <3> QED BY <2>2, <2>3, <3>1, JumpIs
  <2>6. ReadVarint(data, off + at) = {[value |-> v.value, next |-> off + v.next]}
    BY <1>0, ReadVarintElsewhere
  <2> DEFINE there == [value |-> v.value, next |-> off + v.next]
  <2>7. /\ PastValue(data, off + at, wireType) = UNION {Jump(v2.next, v2.value) : v2 \in {there}}
        /\ there.next = off + v.next /\ there.value = v.value
    BY <1>2, <2>6 DEF PastValue
  <2> HIDE DEF there
  <2>8. PastValue(data, off + at, wireType) = Jump(off + v.next, v.value)
    <3>1. UNION {Jump(v2.next, v2.value) : v2 \in {there}} = Jump(there.next, there.value)
      OBVIOUS
    <3> QED BY <2>7, <3>1
  <2>9. (off + v.next) + v.value = off + to
    BY <2>3, <2>4
  <2> QED BY <2>5, <2>8, <2>9
<1>3. CASE wireType = 1
  <2>1. to = at + 8 /\ PastValue(data, off + at, wireType) = {(off + at) + 8}
    BY <1>3 DEF PastValue
  <2> QED BY <1>0, <2>1
<1>4. CASE wireType = 5
  <2>1. to = at + 4 /\ PastValue(data, off + at, wireType) = {(off + at) + 4}
    BY <1>4 DEF PastValue
  <2> QED BY <1>0, <2>1
<1>5. CASE wireType \in {3, 4}
  <2>1. to = at /\ PastValue(data, off + at, wireType) = {off + at}
    BY <1>5 DEF PastValue
  <2> QED BY <1>0, <2>1
<1>6. wireType \in {0, 1, 2, 3, 4, 5}
  <2> SUFFICES ASSUME wireType \notin {0, 1, 2, 3, 4, 5} PROVE FALSE
    OBVIOUS
  <2>1. PastValue(f, at, wireType) = {}
    BY DEF PastValue
  <2> QED BY <2>1
<1> QED BY <1>1, <1>2, <1>3, <1>4, <1>5, <1>6

LEMMA SkipOneElsewhere ==
    ASSUME NEW f \in Buffer, NEW data \in Buffer, NEW off \in Nat, Holds(data, off, f),
           NEW c \in Place, NEW d \in SkipOne(f, c), d.at <= Len(f)
    PROVE  SkipOne(data, Moved(c, off)) = {Moved(d, off)}
<1> DEFINE Deeper(depth, wireType) == CASE wireType = 3 -> depth + 1
                                        [] wireType = 4 -> depth - 1
                                        [] OTHER -> depth
           Nexts(text, depth, tag) ==
              {[at |-> next, depth |-> Deeper(depth, tag.value % 8)]
               : next \in IF Deeper(depth, tag.value % 8) < 0 THEN {}
                          ELSE PastValue(text, tag.next, tag.value % 8)}
<1>0. c.at \in Nat /\ c.depth \in Nat /\ f \in Text /\ data \in Text /\ Len(f) \in Nat
  BY BufferTyped DEF Place
<1>1. SkipOne(f, c) = UNION {Nexts(f, c.depth, tag) : tag \in ReadVarint(f, c.at)}
  BY DEF SkipOne
<1>2. SkipOne(data, Moved(c, off))
         = UNION {Nexts(data, c.depth, tag) : tag \in ReadVarint(data, off + c.at)}
  <2>1. Moved(c, off).at = off + c.at /\ Moved(c, off).depth = c.depth
    BY DEF Moved
  <2> QED BY <2>1 DEF SkipOne
<1> HIDE DEF Nexts
<1>3. PICK tag \in ReadVarint(f, c.at) : d \in Nexts(f, c.depth, tag)
  BY <1>1
<1>4. tag.next \in Nat /\ c.at < tag.next /\ tag.next <= Len(f)
  BY <1>0, ReadVarintEnds
<1> DEFINE w == tag.value % 8
           k == Deeper(c.depth, w)
           there == [value |-> tag.value, next |-> off + tag.next]
<1>5. k \in Int
  BY <1>0
<1>6. PICK next \in PastValue(f, tag.next, w) : ~(k < 0) /\ d = [at |-> next, depth |-> k]
  <2> HIDE DEF Deeper
  <2>1. ~(k < 0)
    BY <1>3 DEF Nexts
  <2> QED BY <1>3, <2>1 DEF Nexts
<1>7. PastValue(data, off + tag.next, w) = {off + next}
  <2> HIDE DEF w, k
  <2>1. tag.next \in 0..Len(f) /\ next <= Len(f)
    BY <1>0, <1>4, <1>6
  <2> QED BY <2>1, PastValueElsewhere
<1>8. ReadVarint(data, off + c.at) = {there}
  BY <1>0, ReadVarintElsewhere
<1>9. SkipOne(data, Moved(c, off)) = Nexts(data, c.depth, there)
  <2> HIDE DEF there
  <2> QED BY <1>2, <1>8
<1>10. Nexts(data, c.depth, there) = {[at |-> off + next, depth |-> k]}
  <2>1. there.value % 8 = w /\ there.next = off + tag.next
    OBVIOUS
  <2>2. Nexts(data, c.depth, there)
           = {[at |-> n, depth |-> Deeper(c.depth, there.value % 8)]
              : n \in IF Deeper(c.depth, there.value % 8) < 0 THEN {}
                      ELSE PastValue(data, there.next, there.value % 8)}
    BY DEF Nexts
  <2>3. Deeper(c.depth, there.value % 8) = k
    BY <2>1
  <2> HIDE DEF w, k, there, Deeper
  <2> QED BY <1>6, <1>7, <2>1, <2>2, <2>3
<1>11. Moved(d, off) = [at |-> off + next, depth |-> k]
  <2> HIDE DEF k
  <2> QED BY <1>6 DEF Moved
<1> HIDE DEF k, there
<1> QED BY <1>9, <1>10, <1>11

LEMMA SkipFromElsewhere ==
    ASSUME NEW f \in Buffer, NEW data \in Buffer, NEW off \in Nat, Holds(data, off, f)
    PROVE  \A c \in Place : \A to \in SkipFrom(f)[c] :
              to <= Len(f) => SkipFrom(data)[Moved(c, off)] = {off + to}
<1> DEFINE size == [x \in Place |-> IF x.at <= Len(f) THEN Len(f) - x.at ELSE 0]
           Good == {c \in Place : \A to \in SkipFrom(f)[c] :
                       to <= Len(f) => SkipFrom(data)[Moved(c, off)] = {off + to}}
<1>1. size \in [Place -> Nat]
  <2>1. \A x \in Place : (IF x.at <= Len(f) THEN Len(f) - x.at ELSE 0) \in Nat
    BY BufferTyped DEF Place
  <2> QED BY <2>1
<1>2. ASSUME NEW c \in Place, \A d \in Place : size[d] < size[c] => d \in Good PROVE c \in Good
  <2> SUFFICES ASSUME NEW to \in SkipFrom(f)[c], to <= Len(f)
               PROVE  SkipFrom(data)[Moved(c, off)] = {off + to}
    OBVIOUS
  <2>1. PICK d \in SkipOne(f, c) : to \in IF d.depth = 0 THEN {d.at} ELSE SkipFrom(f)[d]
    BY SkipFromUnfolds
  <2>2. d \in Place /\ c.at < d.at /\ c.at < Len(f)
    BY SkipOneTyped
  <2>3. d.at \in Nat /\ c.at \in Nat /\ Len(f) \in Nat
    BY <2>2, BufferTyped DEF Place
  <2>4. d.at <= Len(f)
    <3>1. CASE d.depth = 0
      BY <2>1, <3>1
    <3>2. CASE d.depth # 0
      <4>1. to \in Nat /\ d.at < to
        BY <2>1, <2>2, <3>2, SkipFromTyped
      <4> QED BY <2>3, <4>1
    <3> QED BY <3>1, <3>2
  <2>5. SkipOne(data, Moved(c, off)) = {Moved(d, off)}
    <3> HIDE DEF Good, size
    <3> QED BY <2>4, SkipOneElsewhere
  <2>6. Moved(c, off) \in Place /\ Moved(d, off).at = off + d.at /\ Moved(d, off).depth = d.depth
    BY <2>2, <2>3 DEF Moved, Place
  <2>7. SkipFrom(data)[Moved(c, off)]
           = IF d.depth = 0 THEN {off + d.at} ELSE SkipFrom(data)[Moved(d, off)]
    <3>1. SkipFrom(data)[Moved(c, off)]
             = UNION {IF e.depth = 0 THEN {e.at} ELSE SkipFrom(data)[e] : e \in SkipOne(data, Moved(c, off))}
      BY <2>6, SkipFromUnfolds
    <3> HIDE DEF Good, size
    <3> QED BY <2>5, <2>6, <3>1
  <2>8. CASE d.depth = 0
    BY <2>1, <2>7, <2>8
  <2>9. CASE d.depth # 0
    <3>1. d \in Good
      <4>1. size[d] < size[c]
        BY <2>2, <2>3
      <4> QED BY <1>2, <2>2, <4>1
    <3>2. to \in SkipFrom(f)[d]
      BY <2>1, <2>9
    <3>3. SkipFrom(data)[Moved(d, off)] = {off + to}
      BY <3>1, <3>2
    <3> QED BY <2>7, <2>9, <3>3
  <2> QED BY <2>8, <2>9
<1>3. Place \subseteq Good
  <2> HIDE DEF Good, size
  <2> QED BY <1>1, <1>2, Induction
<1> QED BY <1>3

LEMMA SkipElsewhere ==
    ASSUME NEW f \in Buffer, NEW data \in Buffer, NEW off \in Nat, Holds(data, off, f),
           NEW at \in Nat, NEW to \in skip(f, at)
    PROVE  skip(data, off + at) = {off + to}
<1> DEFINE c == [at |-> at, depth |-> 0]
<1>1. c \in Place /\ Moved(c, off) = [at |-> off + at, depth |-> 0]
  BY DEF Place, Moved
<1>2. to \in SkipFrom(f)[c] /\ to <= Len(f)
  BY DEF skip
<1> HIDE DEF c
<1>3. SkipFrom(data)[Moved(c, off)] = {off + to}
  BY <1>1, <1>2, SkipFromElsewhere
<1>4. skip(data, off + at) = {n \in {off + to} : n <= Len(data)}
  BY <1>1, <1>3 DEF skip
<1>5. off + to <= Len(data)
  <2>1. Len(f) \in Nat /\ Len(data) \in Nat /\ to \in Nat
    BY <1>1, <1>2, BufferTyped, SkipFromTyped
  <2> QED BY <1>2, <2>1 DEF Holds
<1> QED BY <1>4, <1>5

\* What is skipped is there, and is at least a tag.
LEMMA SkipTyped ==
    ASSUME NEW data \in Buffer, NEW at \in Nat, NEW to \in skip(data, at)
    PROVE  to \in Nat /\ at < to /\ to <= Len(data)
<1> DEFINE c == [at |-> at, depth |-> 0]
<1>1. c \in Place /\ c.at = at
  BY DEF Place
<1>2. to \in SkipFrom(data)[c] /\ to <= Len(data)
  BY DEF skip
<1> HIDE DEF c
<1> QED BY <1>1, <1>2, SkipFromTyped
=============================================================================

--------------------------- MODULE ServiceProofs ----------------------------
(***************************************************************************)
(* What those who talk to the undo module can rely on, proved for tables,  *)
(* requests, messages and unknown fields of any kind.                      *)
(*                                                                         *)
(* The listing of a table comes first: the keys in order, and a page as a  *)
(* part of it.  The invariant then follows a message from its writer to    *)
(* its reader (CallInv) and a client from page to page (WalkInv).          *)
(***************************************************************************)
EXTENDS ServiceProperties, CodecProofs

-----------------------------------------------------------------------------
(* The order of the keys.                                                  *)

LEMMA BeforeIrreflexive ==
    ASSUME NEW a \in Text
    PROVE  ~Before(a, a)
<1> SUFFICES ASSUME Before(a, a) PROVE FALSE
  OBVIOUS
<1>1. Len(a) \in Nat /\ \A i \in 1..Len(a) : a[i] \in Int
  BY TextTyped DEF Byte
<1>2. PICK n \in 0..Len(a) : n < Len(a) /\ (n < Len(a) => a[n + 1] < a[n + 1])
  BY DEF Before
<1>3. n + 1 \in 1..Len(a)
  BY <1>1, <1>2
<1> QED BY <1>1, <1>2, <1>3

LEMMA BeforeTotal ==
    ASSUME NEW a \in Text, NEW b \in Text, a # b
    PROVE  Before(a, b) \/ Before(b, a)
<1>1. /\ Len(a) \in Nat /\ Len(b) \in Nat /\ a \in Seq(Byte) /\ b \in Seq(Byte)
      /\ \A i \in 1..Len(a) : a[i] \in Int
      /\ \A i \in 1..Len(b) : b[i] \in Int
  BY TextTyped DEF Byte, Text
<1> DEFINE Ends == {n \in Nat : n >= Len(a) \/ n >= Len(b) \/ a[n + 1] # b[n + 1]}
<1>2. PICK n \in Ends : \A k \in Ends : n <= k
  <2>1. Len(a) \in Ends
    BY <1>1
  <2> HIDE DEF Ends
  <2>2. Ends # {}
    BY <2>1
  <2>3. Ends \in SUBSET Nat
    BY DEF Ends
  <2> QED BY <2>2, <2>3, LeastNumber
<1>3. n \in Nat /\ (n >= Len(a) \/ n >= Len(b) \/ a[n + 1] # b[n + 1])
  OBVIOUS
<1>4. ASSUME NEW i \in 1..n PROVE i <= Len(a) /\ i <= Len(b) /\ a[i] = b[i]
  <2>1. i - 1 \in Nat /\ ~(n <= i - 1) /\ (i - 1) + 1 = i
    BY <1>3
  <2>2. i - 1 \notin Ends
    BY <1>2, <2>1
  <2>3. ~(i - 1 >= Len(a)) /\ ~(i - 1 >= Len(b)) /\ a[(i - 1) + 1] = b[(i - 1) + 1]
    BY <2>1, <2>2
  <2> QED BY <1>1, <2>1, <2>3
<1>5. n <= Len(a) /\ n <= Len(b)
  <2>1. CASE n = 0
    BY <1>1, <2>1
  <2>2. CASE n # 0
    <3>1. n \in 1..n
      BY <1>3, <2>2
    <3> QED BY <1>4, <3>1
  <2> QED BY <2>1, <2>2
<1>6. n \in 0..Len(a) /\ n \in 0..Len(b)
  BY <1>1, <1>3, <1>5
<1>7. (\A i \in 1..n : a[i] = b[i]) /\ (\A i \in 1..n : b[i] = a[i])
  BY <1>4
<1> HIDE DEF Ends
<1>8. CASE n = Len(a)
  <2>1. Len(b) # n
    <3> SUFFICES ASSUME Len(b) = n PROVE FALSE
      OBVIOUS
    <3>1. Len(a) = Len(b) /\ \A i \in 1..Len(a) : a[i] = b[i]
      BY <1>7, <1>8
    <3>2. a = b
      BY <1>1, <3>1, SeqEqual
    <3> QED BY <3>2
  <2>2. n < Len(b)
    BY <1>1, <1>3, <1>5, <2>1
  <2>3. ~(n < Len(a))
    BY <1>1, <1>8
  <2> QED BY <1>6, <1>7, <2>2, <2>3 DEF Before
<1>9. CASE n # Len(a) /\ n = Len(b)
  <2>1. n < Len(a) /\ ~(n < Len(b))
    BY <1>1, <1>5, <1>9
  <2> QED BY <1>6, <1>7, <2>1 DEF Before
<1>10. CASE n # Len(a) /\ n # Len(b)
  <2>1. n < Len(a) /\ n < Len(b) /\ n + 1 \in 1..Len(a) /\ n + 1 \in 1..Len(b)
    BY <1>1, <1>3, <1>5, <1>10
  <2>2. a[n + 1] # b[n + 1]
    BY <1>1, <1>3, <2>1
  <2>3. a[n + 1] < b[n + 1] \/ b[n + 1] < a[n + 1]
    BY <1>1, <2>1, <2>2
  <2> QED BY <1>6, <1>7, <2>1, <2>3 DEF Before
<1> QED BY <1>8, <1>9, <1>10

LEMMA BeforeTransitive ==
    ASSUME NEW a \in Text, NEW b \in Text, NEW c \in Text, Before(a, b), Before(b, c)
    PROVE  Before(a, c)
<1>1. /\ Len(a) \in Nat /\ Len(b) \in Nat /\ Len(c) \in Nat
      /\ \A i \in 1..Len(a) : a[i] \in Int
      /\ \A i \in 1..Len(b) : b[i] \in Int
      /\ \A i \in 1..Len(c) : c[i] \in Int
  BY TextTyped DEF Byte
<1>2. PICK n \in 0..Len(a) :
         n < Len(b) /\ (\A i \in 1..n : a[i] = b[i]) /\ (n < Len(a) => a[n + 1] < b[n + 1])
  BY DEF Before
<1>3. PICK k \in 0..Len(b) :
         k < Len(c) /\ (\A i \in 1..k : b[i] = c[i]) /\ (k < Len(b) => b[k + 1] < c[k + 1])
  BY DEF Before
<1>4. CASE n < k
  <2>1. n < Len(c) /\ n + 1 \in 1..k
    BY <1>1, <1>2, <1>3, <1>4
  <2>2. \A i \in 1..n : a[i] = c[i]
    <3>1. \A i \in 1..n : i \in 1..k
      BY <1>4
    <3> QED BY <1>2, <1>3, <3>1
  <2>3. n < Len(a) => a[n + 1] < c[n + 1]
    BY <1>2, <1>3, <2>1
  <2> QED BY <2>1, <2>2, <2>3 DEF Before
<1>5. CASE n = k
  <2>1. n < Len(c)
    BY <1>3, <1>5
  <2>2. \A i \in 1..n : a[i] = c[i]
    BY <1>2, <1>3, <1>5
  <2>3. ASSUME n < Len(a) PROVE a[n + 1] < c[n + 1]
    <3>1. n + 1 \in 1..Len(a) /\ n + 1 \in 1..Len(b) /\ n + 1 \in 1..Len(c)
      BY <1>1, <1>2, <2>1, <2>3
    <3>2. a[n + 1] < b[n + 1] /\ b[n + 1] < c[n + 1]
      BY <1>2, <1>3, <1>5, <2>3
    <3> QED BY <1>1, <3>1, <3>2
  <2> QED BY <2>1, <2>2, <2>3 DEF Before
<1>6. CASE k < n
  <2>1. k < Len(c) /\ k + 1 \in 1..n /\ k < Len(b) /\ k \in 0..Len(a)
    BY <1>1, <1>2, <1>3, <1>6
  <2>2. \A i \in 1..k : a[i] = c[i]
    <3>1. \A i \in 1..k : i \in 1..n
      BY <1>6
    <3> QED BY <1>2, <1>3, <3>1
  <2>3. a[k + 1] = b[k + 1] /\ b[k + 1] < c[k + 1]
    BY <1>2, <1>3, <2>1
  <2> QED BY <2>1, <2>2, <2>3 DEF Before
<1>7. n \in Int /\ k \in Int
  OBVIOUS
<1> QED BY <1>4, <1>5, <1>6, <1>7

\* Forwards or backwards, the keys have a total order.
LEMMA AheadOrders ==
    ASSUME NEW reverse \in BOOLEAN
    PROVE  /\ \A a \in Text : ~Ahead(reverse, a, a)
           /\ \A a, b \in Text : a # b => Ahead(reverse, a, b) \/ Ahead(reverse, b, a)
           /\ \A a, b, c \in Text : Ahead(reverse, a, b) /\ Ahead(reverse, b, c) => Ahead(reverse, a, c)
<1>1. \A a \in Text : ~Ahead(reverse, a, a)
  BY BeforeIrreflexive DEF Ahead
<1>2. ASSUME NEW a \in Text, NEW b \in Text, a # b
      PROVE  Ahead(reverse, a, b) \/ Ahead(reverse, b, a)
  BY <1>2, BeforeTotal DEF Ahead
<1>3. ASSUME NEW a \in Text, NEW b \in Text, NEW c \in Text, Ahead(reverse, a, b), Ahead(reverse, b, c)
      PROVE  Ahead(reverse, a, c)
  BY <1>3, BeforeTransitive DEF Ahead
<1> QED BY <1>1, <1>2, <1>3

-----------------------------------------------------------------------------
(* A finite set of keys in that order.                                     *)

\* Keys that are in order: strictly, one after the other.
Increasing(reverse, list, n) ==
    \A i, j \in 1..n : i < j => Ahead(reverse, list[i], list[j])

\* The listing of the keys: each has its place, and they stand in order.
IsListing(reverse, keys, list, n) ==
    /\ list \in [1..n -> keys]
    /\ \A x \in keys : \E i \in 1..n : list[i] = x
    /\ Increasing(reverse, list, n)

LEMMA SmallerSet ==
    ASSUME NEW S, IsFiniteSet(S), NEW T, T \subseteq S, T # S
    PROVE  Cardinality(T) < Cardinality(S)
<1>1. Cardinality(T) <= Cardinality(S) /\ Cardinality(T) # Cardinality(S) /\ IsFiniteSet(T)
  BY FS_Subset
<1>2. Cardinality(T) \in Int /\ Cardinality(S) \in Int
  BY <1>1, FS_CardinalityType
<1> QED BY <1>1, <1>2

LEMMA OrderLists ==
    ASSUME NEW reverse \in BOOLEAN, NEW keys, keys \subseteq Text, IsFiniteSet(keys)
    PROVE  Cardinality(keys) \in Nat /\ IsListing(reverse, keys, InOrder(reverse, keys), Cardinality(keys))
<1> DEFINE N == Cardinality(keys)
           Pred(x) == {k \in keys : Ahead(reverse, k, x)}
           rank == [x \in keys |-> Cardinality(Pred(x))]
<1>1. N \in Nat
  BY FS_CardinalityType
<1>0. /\ \A a \in keys : ~Ahead(reverse, a, a)
      /\ \A a, b \in keys : a # b => Ahead(reverse, a, b) \/ Ahead(reverse, b, a)
      /\ \A a, b, c \in keys : Ahead(reverse, a, b) /\ Ahead(reverse, b, c) => Ahead(reverse, a, c)
  BY AheadOrders
<1>2. ASSUME NEW x \in keys PROVE IsFiniteSet(Pred(x)) /\ rank[x] \in 0..N - 1
  <2>1. Pred(x) \subseteq keys /\ x \notin Pred(x)
    BY <1>0
  <2>2. Pred(x) \subseteq keys \ {x}
    BY <2>1
  <2>3. IsFiniteSet(keys \ {x}) /\ Cardinality(keys \ {x}) = N - 1
    BY FS_RemoveElement
  <2>4. IsFiniteSet(Pred(x)) /\ Cardinality(Pred(x)) <= N - 1
    <3> HIDE DEF Pred, N
    <3> QED BY <2>2, <2>3, FS_Subset
  <2>5. Cardinality(Pred(x)) \in Nat
    BY <2>4, FS_CardinalityType
  <2> HIDE DEF Pred, N
  <2> QED BY <1>1, <2>4, <2>5
<1>3. ASSUME NEW x \in keys, NEW y \in keys, Ahead(reverse, x, y) PROVE rank[x] < rank[y]
  <2> DEFINE P == Pred(x)
             Q == Pred(y)
  <2>1. P \subseteq Q /\ P # Q
    <3>1. x \in Q /\ x \notin P
      BY <1>0, <1>3
    <3> QED BY <1>0, <1>3, <3>1
  <2>2. IsFiniteSet(Q)
    BY <1>2
  <2>3. rank[x] = Cardinality(P) /\ rank[y] = Cardinality(Q)
    OBVIOUS
  <2> HIDE DEF P, Q, rank
  <2> QED BY <2>1, <2>2, <2>3, SmallerSet
<1>4. ASSUME NEW x \in keys, NEW y \in keys, rank[x] = rank[y] PROVE x = y
  <2>1. rank[x] \in Int
    <3>1. rank[x] \in 0..N - 1
      BY <1>2
    <3> HIDE DEF rank, N
    <3> QED BY <3>1
  <2>2. ~Ahead(reverse, x, y) /\ ~Ahead(reverse, y, x)
    <3> HIDE DEF rank
    <3> QED BY <1>3, <1>4, <2>1
  <2> QED BY <1>0, <2>2
<1>5. ASSUME NEW n \in 1..N PROVE \E x \in keys : rank[x] = n - 1
  <2> SUFFICES ASSUME \A x \in keys : rank[x] # n - 1 PROVE FALSE
    OBVIOUS
  <2> DEFINE T == 0..N - 1 \ {n - 1}
  <2>1. rank \in [keys -> T]
    <3>1. \A x \in keys : rank[x] \in T
      BY <1>2
    <3>2. rank = [x \in keys |-> rank[x]]
      BY Zenon
    <3> HIDE DEF rank, T
    <3> QED BY <3>1, <3>2
  <2>2. IsFiniteSet(0..N - 1) /\ Cardinality(0..N - 1) = N
    <3> HIDE DEF N
    <3>1. 0 \in Int /\ N - 1 \in Int
      BY <1>1
    <3> QED BY <1>1, <3>1, FS_Interval
  <2>3. n - 1 \in 0..N - 1
    BY <1>1
  <2>4. IsFiniteSet(T) /\ Cardinality(T) = N - 1
    <3> HIDE DEF N
    <3> QED BY <2>2, <2>3, FS_RemoveElement, ZenonT(60)
  <2>5. Cardinality(T) < Cardinality(keys)
    BY <1>1, <2>4
  <2>6. \E x, y \in keys : x # y /\ rank[x] = rank[y]
    <3> HIDE DEF rank, T
    <3> QED BY <2>1, <2>4, <2>5, FS_PigeonHole
  <2> QED BY <1>4, <2>6
<1> DEFINE order == InOrder(reverse, keys)
           nth(n) == CHOOSE x \in keys : Cardinality(Pred(x)) = n - 1
<1>6. order = [n \in 1..N |-> nth(n)]
  BY DEF InOrder
<1>7. ASSUME NEW n \in 1..N PROVE nth(n) \in keys /\ rank[nth(n)] = n - 1
  <2>1. \E x \in keys : Cardinality(Pred(x)) = n - 1
    BY <1>5
  <2>2. nth(n) \in keys /\ Cardinality(Pred(nth(n))) = n - 1
    <3> HIDE DEF order, Pred, N, rank
    <3> QED BY <2>1, Zenon
  <2> HIDE DEF nth
  <2> QED BY <2>2
<1>8. order \in [1..N -> keys] /\ \A n \in 1..N : order[n] = nth(n)
  <2> HIDE DEF rank, order, N, nth
  <2> QED BY <1>6, <1>7
<1>9. \A n \in 1..N : order[n] \in keys /\ rank[order[n]] = n - 1
  <2> HIDE DEF rank, order, N, nth
  <2> QED BY <1>7, <1>8
<1>10. ASSUME NEW x \in keys PROVE \E n \in 1..N : order[n] = x
  <2>1. rank[x] \in 0..N - 1
    BY <1>2
  <2> DEFINE n == rank[x] + 1
  <2>2. n \in 1..N /\ n - 1 = rank[x]
    <3> HIDE DEF rank, N
    <3> QED BY <1>1, <2>1
  <2>3. order[n] \in keys /\ rank[order[n]] = rank[x]
    <3> HIDE DEF rank, N, order, n
    <3> QED BY <1>9, <2>2
  <2>4. order[n] = x
    <3> HIDE DEF rank, N, order, n
    <3> QED BY <1>4, <2>3
  <2> HIDE DEF n, order, N
  <2> QED BY <2>2, <2>4
<1>11. ASSUME NEW i \in 1..N, NEW j \in 1..N, i < j PROVE Ahead(reverse, order[i], order[j])
  <2>1. /\ order[i] \in keys /\ rank[order[i]] = i - 1
        /\ order[j] \in keys /\ rank[order[j]] = j - 1
    BY <1>9
  <2> HIDE DEF rank, order
  <2>2. order[i] # order[j]
    <3>1. i - 1 # j - 1
      BY <1>1, <1>11
    <3> QED BY <2>1, <3>1
  <2>3. ~Ahead(reverse, order[j], order[i])
    <3> SUFFICES ASSUME Ahead(reverse, order[j], order[i]) PROVE FALSE
      OBVIOUS
    <3>1. j - 1 < i - 1
      BY <1>3, <2>1
    <3> QED BY <1>1, <1>11, <3>1
  <2> QED BY <1>0, <2>1, <2>2, <2>3
<1> HIDE DEF rank, order, N, nth
<1> QED BY <1>1, <1>8, <1>10, <1>11 DEF IsListing, Increasing, N, order

LEMMA ListingPlaces ==
    ASSUME NEW reverse \in BOOLEAN, NEW keys, keys \subseteq Text, NEW n \in Nat, NEW list,
           IsListing(reverse, keys, list, n)
    PROVE  \A i, j \in 1..n : list[i] = list[j] => i = j
<1> SUFFICES ASSUME NEW i \in 1..n, NEW j \in 1..n, list[i] = list[j], i # j PROVE FALSE
  OBVIOUS
<1>1. list[i] \in Text /\ list[j] \in Text /\ ~Ahead(reverse, list[i], list[i])
  BY AheadOrders DEF IsListing
<1>2. i < j \/ j < i
  OBVIOUS
<1>3. Ahead(reverse, list[i], list[j]) \/ Ahead(reverse, list[j], list[i])
  BY <1>2 DEF IsListing, Increasing
<1> QED BY <1>1, <1>3

LEMMA ListingCounts ==
    ASSUME NEW reverse \in BOOLEAN, NEW keys, keys \subseteq Text, NEW n \in Nat, NEW list,
           IsListing(reverse, keys, list, n)
    PROVE  IsFiniteSet(keys) /\ Cardinality(keys) = n
<1>1. list \in Bijection(1..n, keys)
  <2>1. list \in [1..n -> keys] /\ \A x \in keys : \E i \in 1..n : list[i] = x
    BY DEF IsListing
  <2>2. \A i, j \in 1..n : list[i] = list[j] => i = j
    BY ListingPlaces
  <2> QED BY <2>1, <2>2 DEF Bijection, Injection, Surjection, IsInjective
<1>2. IsFiniteSet(1..n) /\ Cardinality(1..n) = n
  <2>1. 1 \in Int /\ n \in Int
    OBVIOUS
  <2>2. IsFiniteSet(1..n) /\ Cardinality(1..n) = IF 1 > n THEN 0 ELSE n - 1 + 1
    BY <2>1, FS_Interval
  <2> QED BY <2>2
<1>3. ExistsBijection(1..n, keys)
  BY <1>1 DEF ExistsBijection
<1> QED BY <1>2, <1>3, FS_Bijection

\* The keys can be listed in one way only.
LEMMA ListingUnique ==
    ASSUME NEW reverse \in BOOLEAN, NEW keys, keys \subseteq Text, NEW n \in Nat, NEW list, NEW other,
           IsListing(reverse, keys, list, n), IsListing(reverse, keys, other, n)
    PROVE  list = other
<1> DEFINE Differ == {i \in Nat : i \in 1..n /\ list[i] # other[i]}
<1>0. /\ list \in [1..n -> keys] /\ other \in [1..n -> keys]
      /\ \A x \in keys : \E i \in 1..n : list[i] = x
      /\ \A x \in keys : \E i \in 1..n : other[i] = x
      /\ \A i, j \in 1..n : i < j => Ahead(reverse, list[i], list[j])
      /\ \A i, j \in 1..n : i < j => Ahead(reverse, other[i], other[j])
  BY DEF IsListing, Increasing
<1>1. CASE Differ = {}
  <2>1. \A i \in 1..n : list[i] = other[i]
    BY <1>1
  <2> QED BY <1>0, <2>1
<1>2. CASE Differ # {}
  <2>1. PICK p \in Differ : \A k \in Differ : p <= k
    <3>1. Differ \in SUBSET Nat
      OBVIOUS
    <3> HIDE DEF Differ
    <3> QED BY <1>2, <3>1, LeastNumber
  <2>2. p \in 1..n /\ list[p] # other[p] /\ list[p] \in keys /\ other[p] \in keys
    BY <1>0
  <2>3. ASSUME NEW i \in 1..n, i < p PROVE list[i] = other[i]
    BY <2>1, <2>2, <2>3
  <2>4. PICK q \in 1..n : other[q] = list[p]
    BY <1>0, <2>2
  <2>5. PICK r \in 1..n : list[r] = other[p]
    BY <1>0, <2>2
  <2> HIDE DEF Differ
  <2>6. p < q
    <3>1. q # p
      BY <2>2, <2>4
    <3>2. ~(q < p)
      <4> SUFFICES ASSUME q < p PROVE FALSE
        OBVIOUS
      <4>1. list[q] = list[p]
        BY <2>3, <2>4
      <4>2. q = p
        BY <2>2, <4>1, ListingPlaces
      <4> QED BY <3>1, <4>2
    <3> QED BY <2>2, <3>1, <3>2
  <2>7. p < r
    <3>1. r # p
      BY <2>2, <2>5
    <3>2. ~(r < p)
      <4> SUFFICES ASSUME r < p PROVE FALSE
        OBVIOUS
      <4>1. other[r] = other[p]
        BY <2>3, <2>5
      <4>2. r = p
        BY <2>2, <4>1, ListingPlaces
      <4> QED BY <3>1, <4>2
    <3> QED BY <2>2, <3>1, <3>2
  <2>8. Ahead(reverse, other[p], list[p]) /\ Ahead(reverse, list[p], other[p])
    BY <1>0, <2>2, <2>4, <2>5, <2>6, <2>7
  <2>9. list[p] \in Text /\ other[p] \in Text
    BY <2>2
  <2> QED BY <2>8, <2>9, AheadOrders
<1> QED BY <1>1, <1>2

LEMMA ListingIs ==
    ASSUME NEW reverse \in BOOLEAN, NEW keys, keys \subseteq Text, NEW n \in Nat, NEW list,
           IsListing(reverse, keys, list, n)
    PROVE  InOrder(reverse, keys) = list
<1>1. IsFiniteSet(keys) /\ Cardinality(keys) = n
  BY ListingCounts
<1>2. IsListing(reverse, keys, InOrder(reverse, keys), n)
  BY <1>1, OrderLists
<1> QED BY <1>2, ListingUnique

\* A stretch of the listing lists the keys in it.
IsStretched(n, a, b) == a \in 1..n + 1 /\ b \in 0..n
KeysIn(list, a, b) == {list[i] : i \in a..b}
IsInOrder(reverse, list, a, b) == InOrder(reverse, KeysIn(list, a, b)) = SubSeq(list, a, b)
LEMMA PartListed ==
    ASSUME NEW reverse \in BOOLEAN, NEW keys, keys \subseteq Text, NEW n \in Nat, NEW list,
           IsListing(reverse, keys, list, n), NEW a \in 1..n + 1, NEW b \in 0..n
    PROVE  IsInOrder(reverse, list, a, b)
<1> DEFINE part == {list[i] : i \in a..b}
           sub == SubSeq(list, a, b)
           len == IF a > b THEN 0 ELSE b - a + 1
<1>0. /\ list \in [1..n -> keys]
      /\ \A i, j \in 1..n : i < j => Ahead(reverse, list[i], list[j])
  BY DEF IsListing, Increasing
<1>1. len \in Nat /\ 1..len = 1..1 + b - a
  OBVIOUS
<1>2. sub = [i \in 1..len |-> list[i + a - 1]]
  BY <1>1
<1>3. \A i \in 1..len : i + a - 1 \in a..b /\ i + a - 1 \in 1..n
  OBVIOUS
<1>4. \A j \in a..b : j - a + 1 \in 1..len /\ (j - a + 1) + a - 1 = j
  OBVIOUS
<1> HIDE DEF len, sub
<1>5. sub \in [1..len -> part]
  BY <1>2, <1>3
<1>6. ASSUME NEW x \in part PROVE \E i \in 1..len : sub[i] = x
  <2>1. PICK j \in a..b : x = list[j]
    OBVIOUS
  <2>2. sub[j - a + 1] = list[(j - a + 1) + a - 1] /\ j - a + 1 \in 1..len
    BY <1>2, <1>4
  <2>3. sub[j - a + 1] = x
    BY <1>4, <2>1, <2>2
  <2> QED BY <2>2, <2>3
<1>7. ASSUME NEW i \in 1..len, NEW j \in 1..len, i < j PROVE Ahead(reverse, sub[i], sub[j])
  <2>1. i + a - 1 \in 1..n /\ j + a - 1 \in 1..n /\ i + a - 1 < j + a - 1
    BY <1>1, <1>3, <1>7
  <2>2. sub[i] = list[i + a - 1] /\ sub[j] = list[j + a - 1]
    BY <1>2
  <2> QED BY <1>0, <2>1, <2>2
<1>8. part \subseteq Text
  <2>1. \A i \in a..b : i \in 1..n
    OBVIOUS
  <2> QED BY <1>0, <2>1
<1>9. IsListing(reverse, part, sub, len)
  <2> HIDE DEF part
  <2> QED BY <1>5, <1>6, <1>7 DEF IsListing, Increasing
<1> HIDE DEF part
<1>10. InOrder(reverse, part) = sub
  BY <1>1, <1>8, <1>9, ListingIs
<1> QED BY <1>10 DEF part, sub, KeysIn, IsInOrder

\* The places ahead of something are the first ones.
LEMMA FirstPlaces ==
    ASSUME NEW n \in Nat, NEW D, D \subseteq 1..n, \A i \in D, j \in 1..n : j < i => j \in D
    PROVE  Cardinality(D) \in 0..n /\ D = 1..Cardinality(D)
<1> DEFINE Ends == {m \in Nat : m + 1 \notin D}
<1>1. PICK m \in Ends : \A k \in Ends : m <= k
  <2>1. n \in Ends
    OBVIOUS
  <2>2. Ends \in SUBSET Nat /\ Ends # {}
    BY <2>1
  <2> HIDE DEF Ends
  <2> QED BY <2>2, LeastNumber
<1>2. m \in Nat /\ m + 1 \notin D /\ m <= n
  <2>1. n \in Ends
    OBVIOUS
  <2> QED BY <1>1, <2>1
<1>3. ASSUME NEW i \in 1..m PROVE i \in D
  <2>1. i - 1 \in Nat /\ ~(m <= i - 1) /\ (i - 1) + 1 = i
    BY <1>2
  <2>2. i - 1 \notin Ends
    BY <1>1, <2>1
  <2> QED BY <2>1, <2>2
<1> HIDE DEF Ends
<1>4. ASSUME NEW i \in D PROVE i \in 1..m
  <2>1. i \in 1..n
    OBVIOUS
  <2>2. ~(m + 1 <= i)
    <3> SUFFICES ASSUME m + 1 <= i PROVE FALSE
      OBVIOUS
    <3>1. i # m + 1
      BY <1>2
    <3>2. m + 1 < i /\ m + 1 \in 1..n
      BY <1>2, <2>1, <3>1
    <3> QED BY <1>2, <3>2
  <2> QED BY <1>2, <2>1, <2>2
<1>5. D = 1..m
  BY <1>3, <1>4
<1>6. Cardinality(1..m) = m
  <2>1. 1 \in Int /\ m \in Int
    BY <1>2
  <2>2. Cardinality(1..m) = IF 1 > m THEN 0 ELSE m - 1 + 1
    BY <2>1, FS_Interval
  <2> QED BY <1>2, <2>2
<1> QED BY <1>2, <1>5, <1>6

-----------------------------------------------------------------------------
(* Pages.                                                                  *)

\* The keys of a table, and their listing.
IsKeys(keys) == keys \subseteq Text \ {<< >>} /\ IsFiniteSet(keys) /\ Cardinality(keys) \in Word
IsListed(reverse, keys, list, n) ==
    /\ reverse \in BOOLEAN /\ keys \subseteq Text \ {<< >>} /\ n \in Nat
    /\ list = InOrder(reverse, keys) /\ IsListing(reverse, keys, list, n)
    /\ list \in Seq(keys) /\ Len(list) = n

LEMMA KeysListed ==
    ASSUME NEW reverse \in BOOLEAN, NEW keys, IsKeys(keys), NEW list, list = InOrder(reverse, keys)
    PROVE  IsListed(reverse, keys, list, Cardinality(keys))
<1> DEFINE n == Cardinality(keys)
<1>1. keys \subseteq Text /\ IsFiniteSet(keys) /\ keys \subseteq Text \ {<< >>}
  BY DEF IsKeys
<1>2. n \in Nat /\ IsListing(reverse, keys, list, n)
  BY <1>1, OrderLists
<1> HIDE DEF n
<1>3. list \in [1..n -> keys]
  BY <1>2 DEF IsListing
<1>4. list \in Seq(keys) /\ Len(list) = n
  BY <1>2, <1>3
<1> QED BY <1>1, <1>2, <1>4 DEF IsListed, n

LEMMA PartInOrder ==
    ASSUME NEW reverse, NEW keys, NEW list, NEW n, IsListed(reverse, keys, list, n),
           NEW a, NEW b, IsStretched(n, a, b)
    PROVE  IsInOrder(reverse, list, a, b)
<1>1. /\ keys \subseteq Text /\ reverse \in BOOLEAN /\ n \in Nat /\ IsListing(reverse, keys, list, n)
      /\ a \in 1..n + 1 /\ b \in 0..n
  BY DEF IsListed, IsStretched
<1> QED BY <1>1, PartListed

Earlier(reverse, list, key) == {i \in DOMAIN list : Ahead(reverse, list[i], key)}
KeysFrom(reverse, keys, key) == {k \in keys : ~Ahead(reverse, k, key)}

\* The keys from a place on are the last ones of the listing.
LEMMA LastPlaces ==
    ASSUME NEW reverse, NEW keys, NEW list, NEW n, IsListed(reverse, keys, list, n), NEW key \in Text
    PROVE  /\ Cardinality(Earlier(reverse, list, key)) \in 0..n
           /\ KeysFrom(reverse, keys, key)
                = KeysIn(list, Cardinality(Earlier(reverse, list, key)) + 1, n)
           /\ \A j \in 1..n : key = list[j] => Cardinality(Earlier(reverse, list, key)) = j - 1
<1> DEFINE D == Earlier(reverse, list, key)
           e == Cardinality(D)
<1>1. /\ reverse \in BOOLEAN /\ n \in Nat /\ keys \subseteq Text /\ DOMAIN list = 1..n
      /\ \A i \in 1..n : list[i] \in keys /\ list[i] \in Text
      /\ \A x \in keys : \E i \in 1..n : list[i] = x
      /\ \A i, j \in 1..n : i < j => Ahead(reverse, list[i], list[j])
  BY DEF IsListed, IsListing, Increasing
<1>2. D \subseteq 1..n
  BY <1>1 DEF Earlier
<1>3. ASSUME NEW i \in D, NEW j \in 1..n, j < i PROVE j \in D
  <2>1. i \in 1..n /\ Ahead(reverse, list[i], key)
    BY <1>1 DEF Earlier
  <2>2. Ahead(reverse, list[j], list[i])
    BY <1>1, <1>3, <2>1
  <2>3. Ahead(reverse, list[j], key)
    BY <1>1, <2>1, <2>2, AheadOrders
  <2> QED BY <1>1, <2>3 DEF Earlier
<1>4. e \in 0..n /\ D = 1..e
  <2> HIDE DEF D
  <2> QED BY <1>1, <1>2, <1>3, FirstPlaces
<1>5. \A i \in 1..n : Ahead(reverse, list[i], key) <=> i <= e
  <2>1. \A i \in 1..n : i \in D <=> Ahead(reverse, list[i], key)
    BY <1>1 DEF Earlier
  <2> HIDE DEF D, e
  <2>2. \A i \in 1..n : i \in 1..e <=> i <= e
    BY <1>4
  <2> QED BY <1>4, <2>1, <2>2
<1> HIDE DEF e, D
<1>6. KeysFrom(reverse, keys, key) = KeysIn(list, e + 1, n)
  <2>1. ASSUME NEW k \in KeysFrom(reverse, keys, key) PROVE k \in {list[i] : i \in e + 1..n}
    <3>1. k \in keys /\ ~Ahead(reverse, k, key)
      BY DEF KeysFrom
    <3>2. PICK i \in 1..n : list[i] = k
      BY <1>1, <3>1
    <3>3. ~(i <= e)
      BY <1>5, <3>1, <3>2
    <3>4. i \in e + 1..n
      BY <1>4, <3>3
    <3> QED BY <3>2, <3>4
  <2>2. ASSUME NEW i \in e + 1..n PROVE list[i] \in KeysFrom(reverse, keys, key)
    <3>1. i \in 1..n /\ ~(i <= e)
      BY <1>4
    <3>2. ~Ahead(reverse, list[i], key)
      BY <1>5, <3>1
    <3> QED BY <1>1, <3>1, <3>2 DEF KeysFrom
  <2> QED BY <2>1, <2>2 DEF KeysIn
<1>7. ASSUME NEW j \in 1..n, key = list[j] PROVE e = j - 1
  <2>1. ~(j <= e)
    <3>1. ~Ahead(reverse, list[j], list[j])
      BY <1>1, AheadOrders
    <3> QED BY <1>5, <1>7, <3>1
  <2>2. ~(e < j - 1)
    <3> SUFFICES ASSUME e < j - 1 PROVE FALSE
      OBVIOUS
    <3>1. j - 1 \in 1..n /\ j - 1 < j /\ ~(j - 1 <= e)
      <4>1. e \in Nat /\ n \in Nat /\ j \in Nat /\ j <= n
        BY <1>1, <1>4
      <4> QED BY <4>1
    <3>2. Ahead(reverse, list[j - 1], list[j])
      BY <1>1, <3>1
    <3> QED BY <1>5, <1>7, <3>1, <3>2
  <2> QED BY <1>4, <2>1, <2>2
<1> QED BY <1>4, <1>6, <1>7 DEF e, D

\* What one page holds: the rows from behind the skipped ones to the last one, and
\* the key of the row behind that.
Limit(asked) == IF asked.limit = 0 THEN DefaultLimit ELSE asked.limit
IsPage(list, n, asked, page, s, last) ==
    /\ s \in Nat /\ last \in 0..n /\ Limit(asked) \in Nat \ {0}
    /\ s = IF asked.key # << >> THEN Cardinality(Earlier(asked.reverse, list, asked.key)) ELSE asked.offset
    /\ last <= s + Limit(asked) /\ (s <= n => s <= last)
    /\ last < n => last = s + Limit(asked)
    /\ page.rows = SubSeq(list, s + 1, last)
    /\ \E answer : /\ page.pagination = {answer}
                   /\ answer \in PageResponseType
                   /\ answer.nextKey = IF last < n THEN list[last + 1] ELSE << >>
                   /\ asked.countTotal /\ asked.key = << >> => answer.total = n

LEMMA LesserOf ==
    ASSUME NEW a \in Nat, NEW b \in Nat
    PROVE  Min({a, b}) = IF a <= b THEN a ELSE b
<1> DEFINE m == IF a <= b THEN a ELSE b
<1>1. {a, b} \in SUBSET Int /\ m \in {a, b} /\ \A y \in {a, b} : m <= y
  OBVIOUS
<1> HIDE DEF m
<1>3. Min({a, b}) = m
  BY <1>1, MinIs
<1> QED BY <1>3 DEF m

LEMMA PaginatedIs ==
    ASSUME NEW asked \in PageRequestType, NEW keys, NEW list, NEW n \in Word,
           IsListed(asked.reverse, keys, list, n), asked.key = << >> \/ asked.offset = 0
    PROVE  \E page, s, last : Paginated(list, asked) = {page} /\ IsPage(list, n, asked, page, s, last)
<1> DEFINE limit == Limit(asked)
           counts == asked.key = << >> /\ (asked.countTotal \/ asked.limit = 0)
           s == IF asked.key # << >> THEN Cardinality(Earlier(asked.reverse, list, asked.key))
                ELSE asked.offset
           rough == Page(list, 1 + s, limit)
           answer == [nextKey |-> rough.next, total |-> IF counts THEN Len(list) ELSE 0]
           page == [rows |-> rough.rows, pagination |-> {answer}]
           last == IF s + limit <= n THEN s + limit ELSE n
<1>1. /\ asked.key \in Text /\ asked.offset \in Word /\ asked.limit \in Word /\ asked.reverse \in BOOLEAN
      /\ Word \subseteq Nat
  BY WordTyped DEF PageRequestType, Word
<1>2. n \in Nat /\ Len(list) = n /\ list \in Seq(keys) /\ keys \subseteq Text
  BY DEF IsListed
<1>3. limit \in Nat \ {0}
  BY <1>1, LimitAssumption DEF Limit
<1>4. s \in Nat
  <2>1. CASE asked.key # << >>
    <3>1. Cardinality(Earlier(asked.reverse, list, asked.key)) \in 0..n
      BY <1>1, LastPlaces
    <3> QED BY <1>2, <2>1, <3>1
  <2>2. CASE asked.key = << >>
    BY <1>1, <2>2
  <2> QED BY <2>1, <2>2
<1>5. Paginated(list, asked) = {page}
  BY DEF Paginated, Limit, Earlier
<1> HIDE DEF s, limit
<1>6. rough.rows = SubSeq(list, s + 1, last)
  <2>1. Min({1 + s + limit - 1, Len(list)}) = last
    <3>1. 1 + s + limit - 1 = s + limit /\ s + limit \in Nat
      BY <1>3, <1>4
    <3> QED BY <1>2, <3>1, LesserOf
  <2>2. 1 + s = s + 1
    BY <1>4
  <2> HIDE DEF last
  <2> QED BY <2>1, <2>2 DEF Page
<1>7. rough.next = IF last < n THEN list[last + 1] ELSE << >>
  <2>1. rough.next = IF 1 + s + limit <= Len(list) THEN list[1 + s + limit] ELSE << >>
    BY DEF Page
  <2>2. CASE s + limit < n
    <3>1. 1 + s + limit <= n /\ last = s + limit /\ last < n /\ 1 + s + limit = last + 1
      BY <1>2, <1>3, <1>4, <2>2
    <3> QED BY <1>2, <2>1, <3>1
  <2>3. CASE ~(s + limit < n)
    <3>1. ~(1 + s + limit <= n) /\ ~(last < n)
      BY <1>2, <1>3, <1>4, <2>3
    <3> QED BY <1>2, <2>1, <3>1
  <2> QED BY <2>2, <2>3
<1>8. last \in 0..n /\ last <= s + limit /\ (s <= n => s <= last) /\ (last < n => last = s + limit)
  BY <1>2, <1>3, <1>4
<1> HIDE DEF rough, last
<1>9. answer.nextKey \in Text /\ answer.total \in Word
  <2>1. << >> \in Text /\ 0 \in Word
    BY Zeros
  <2>2. ASSUME last < n PROVE list[last + 1] \in Text
    <3>1. last + 1 \in 1..Len(list)
      BY <1>2, <1>8, <2>2
    <3> QED BY <1>2, <3>1
  <2> QED BY <1>2, <1>7, <2>1, <2>2
<1>10. answer \in PageResponseType
  BY <1>9 DEF PageResponseType
<1>11. asked.countTotal /\ asked.key = << >> => answer.total = n
  BY <1>2
<1>12. answer.nextKey = IF last < n THEN list[last + 1] ELSE << >>
  BY <1>7
<1>13. page.rows = SubSeq(list, s + 1, last) /\ page.pagination = {answer}
  BY <1>6
<1>14. s = IF asked.key # << >> THEN Cardinality(Earlier(asked.reverse, list, asked.key)) ELSE asked.offset
  BY DEF s
<1> HIDE DEF answer, page
<1>15. IsPage(list, n, asked, page, s, last)
  BY <1>3, <1>4, <1>8, <1>10, <1>11, <1>12, <1>13, <1>14 DEF IsPage, limit
<1> QED BY <1>5, <1>15

IsStretch(S, list, s, last, part) ==
    /\ part \in Seq(S)
    /\ Len(part) = (IF s < last THEN last - s ELSE 0)
    /\ \A i \in 1..Len(part) : part[i] = list[s + i]
LEMMA StretchIs ==
    ASSUME NEW S, NEW list \in Seq(S), NEW s \in Nat, NEW last \in 0..Len(list)
    PROVE  IsStretch(S, list, s, last, SubSeq(list, s + 1, last))
<1> DEFINE part == SubSeq(list, s + 1, last)
<1>1. /\ part \in Seq(S)
      /\ Len(part) = (IF s < last THEN last - s ELSE 0)
      /\ \A i \in 1..Len(part) : part[i] = list[s + i]
  OBVIOUS
<1> HIDE DEF part
<1>2. IsStretch(S, list, s, last, part)
  BY <1>1 DEF IsStretch
<1> QED BY <1>2 DEF part

LEMMA PageTyped ==
    ASSUME NEW list, NEW keys, NEW n, NEW asked, NEW page, NEW s, NEW last,
           IsListed(asked.reverse, keys, list, n), IsPage(list, n, asked, page, s, last)
    PROVE  IsStretch(keys, list, s, last, page.rows)
<1>1. /\ s \in Nat /\ last \in 0..n /\ n \in Nat /\ list \in Seq(keys) /\ Len(list) = n
      /\ page.rows = SubSeq(list, s + 1, last)
  BY DEF IsListed, IsPage
<1>2. last \in 0..Len(list)
  BY <1>1
<1>3. IsStretch(keys, list, s, last, SubSeq(list, s + 1, last))
  BY <1>1, <1>2, StretchIs
<1> QED BY <1>1, <1>3

\* What a true page is, with names for its parts.
Start(table, asked) ==
    IF asked.key = << >> THEN DOMAIN table ELSE KeysFrom(asked.reverse, DOMAIN table, asked.key)
Rest(table, asked, next) ==
    InOrder(asked.reverse, IF next = << >> THEN Start(table, asked)
                           ELSE Start(table, asked) \ KeysFrom(asked.reverse, DOMAIN table, next))
PageHas(table, asked, rows, next, total, rest, skipped) ==
    /\ rows = RowsOf(table, SubSeq(rest, 1 + skipped, Len(rest)))
    /\ Len(rows) <= IF asked.limit = 0 THEN DefaultLimit ELSE asked.limit
    /\ next # << >> => next \in DOMAIN table /\ rows # << >>
    /\ asked.countTotal /\ asked.key = << >> => total = Cardinality(DOMAIN table)
LEMMA PageParts ==
    ASSUME NEW table, NEW request, NEW rows, NEW page, NEW asked, NEW next, NEW total,
           asked = IF request.pagination = {} THEN NoPage ELSE The(request.pagination),
           next = The(page).nextKey, total = The(page).total,
           PageHas(table, asked, rows, next, total, Rest(table, asked, next),
                   IF asked.key = << >> THEN asked.offset ELSE 0)
    PROVE  PageIsTrue(table, request, rows, page)
<1> DEFINE a == IF request.pagination = {} THEN NoPage ELSE The(request.pagination)
           n == The(page).nextKey
<1>1. PageHas(table, a, rows, n, The(page).total, Rest(table, a, n), IF a.key = << >> THEN a.offset ELSE 0)
  <2> HIDE DEF a, n
  <2> QED BY DEF a, n
<1> QED BY <1>1 DEF PageIsTrue, PageHas, Rest, Start, KeysFrom

\* A page is the answer to what was asked.
LEMMA PageTrue ==
    ASSUME NEW asked \in PageRequestType, NEW table, NEW list, NEW n, NEW page, NEW s, NEW last,
           IsListed(asked.reverse, DOMAIN table, list, n), n = Cardinality(DOMAIN table),
           IsPage(list, n, asked, page, s, last), NEW request,
           asked = IF request.pagination = {} THEN NoPage ELSE The(request.pagination)
    PROVE  PageIsTrue(table, request, RowsOf(table, page.rows), page.pagination)
<1> DEFINE keys == DOMAIN table
           reverse == asked.reverse
           b == IF asked.key = << >> THEN 0 ELSE s
           next == IF last < n THEN list[last + 1] ELSE << >>
           start == IF asked.key = << >> THEN keys ELSE KeysFrom(reverse, keys, asked.key)
           listed == IF next = << >> THEN start ELSE start \ KeysFrom(reverse, keys, next)
           sorted == InOrder(reverse, listed)
           skipped == IF asked.key = << >> THEN asked.offset ELSE 0
<1>1. /\ s \in Nat /\ last \in 0..n /\ Limit(asked) \in Nat \ {0}
      /\ s = IF asked.key # << >> THEN Cardinality(Earlier(reverse, list, asked.key)) ELSE asked.offset
      /\ last <= s + Limit(asked) /\ (s <= n => s <= last)
      /\ last < n => last = s + Limit(asked)
      /\ page.rows = SubSeq(list, s + 1, last)
  BY DEF IsPage
<1>2. PICK answer : /\ page.pagination = {answer} /\ answer.nextKey = next
                    /\ asked.countTotal /\ asked.key = << >> => answer.total = n
  BY DEF IsPage
<1>3. The(page.pagination) = answer
  BY <1>2 DEF The
<1>4. /\ reverse \in BOOLEAN /\ keys \subseteq Text \ {<< >>} /\ n \in Nat
      /\ IsListing(reverse, keys, list, n) /\ list \in Seq(keys) /\ Len(list) = n
      /\ \A i \in 1..n : list[i] \in keys
      /\ \A x \in keys : \E i \in 1..n : list[i] = x
  BY DEF IsListed, IsListing
<1>20. last \in Nat /\ n \in Nat /\ last <= n
  BY <1>1, <1>4
<1>5. asked.key \in Text
  BY DEF PageRequestType
<1>6. b \in 0..n /\ start = KeysIn(list, b + 1, n)
  <2>1. CASE asked.key = << >>
    <3>1. b = 0 /\ start = keys
      BY <2>1
    <3> HIDE DEF keys, b, start
    <3>2. keys = KeysIn(list, 0 + 1, n)
      <4>1. keys = {list[i] : i \in 1..n}
        BY <1>4
      <4>2. 0 + 1 = 1
        OBVIOUS
      <4> QED BY <4>1, <4>2 DEF KeysIn
    <3> QED BY <1>4, <3>1, <3>2
  <2>2. CASE asked.key # << >>
    <3>1. b = s /\ start = KeysFrom(reverse, keys, asked.key)
      BY <2>2
    <3>2. /\ Cardinality(Earlier(reverse, list, asked.key)) \in 0..n
          /\ KeysFrom(reverse, keys, asked.key)
                = KeysIn(list, Cardinality(Earlier(reverse, list, asked.key)) + 1, n)
      BY <1>5, LastPlaces
    <3>3. s = Cardinality(Earlier(reverse, list, asked.key))
      BY <1>1, <2>2
    <3> HIDE DEF keys, b, start, reverse
    <3> QED BY <3>1, <3>2, <3>3
  <2> QED BY <2>1, <2>2
<1> HIDE DEF b, start
<1>7. listed = KeysIn(list, b + 1, last)
  <2>1. CASE last < n
    <3>1. last + 1 \in 1..n /\ next = list[last + 1]
      BY <1>20, <2>1
    <3>2. next \in keys /\ next # << >> /\ next \in Text
      BY <1>4, <3>1
    <3>3. KeysFrom(reverse, keys, next) = KeysIn(list, last + 1, n)
      <4> DEFINE e == Cardinality(Earlier(reverse, list, next))
      <4>1. e = (last + 1) - 1 /\ KeysFrom(reverse, keys, next) = KeysIn(list, e + 1, n)
        <5> HIDE DEF next, keys
        <5> QED BY <3>1, <3>2, LastPlaces DEF keys
      <4>2. e = last
        BY <1>1, <1>4, <4>1, SMTT(60)
      <4> HIDE DEF e, keys, next
      <4> QED BY <4>1, <4>2
    <3>4. listed = start \ KeysFrom(reverse, keys, next)
      BY <3>2
    <3> HIDE DEF listed, next, keys, reverse
    <3>5. \A i, j \in 1..n : list[i] = list[j] => i = j
      <4>1. keys \subseteq Text
        BY <1>4
      <4> QED BY <1>4, <4>1, ListingPlaces
    <3>6. \A i \in b + 1..n : i \in 1..n /\ (i \in b + 1..last \/ i \in last + 1..n)
      BY <1>1, <1>4, <1>6
    <3>7. \A i \in b + 1..last : i \in b + 1..n /\ i \in 1..n /\ ~(i \in last + 1..n)
      BY <1>1, <1>4, <1>6
    <3>8. \A i \in last + 1..n : i \in 1..n
      BY <1>1, <1>4
    <3>9. ASSUME NEW x \in listed PROVE x \in KeysIn(list, b + 1, last)
      BY <1>6, <3>3, <3>4, <3>6 DEF KeysIn
    <3>10. ASSUME NEW i \in b + 1..last PROVE list[i] \in listed
      <4>1. list[i] \in start /\ i \in 1..n
        BY <1>6, <3>7 DEF KeysIn
      <4>2. ~(list[i] \in KeysFrom(reverse, keys, next))
        BY <3>3, <3>5, <3>7, <3>8 DEF KeysIn
      <4> QED BY <3>4, <4>1, <4>2
    <3> QED BY <3>9, <3>10 DEF KeysIn
  <2>2. CASE ~(last < n)
    <3>1. last = n /\ next = << >>
      BY <1>1, <1>4, <2>2
    <3>2. listed = start
      BY <3>1
    <3> HIDE DEF listed
    <3> QED BY <1>6, <3>1, <3>2
  <2> QED BY <2>1, <2>2
<1> HIDE DEF listed
<1>8. sorted = SubSeq(list, b + 1, last)
  <2>1. b + 1 \in 1..n + 1 /\ keys \subseteq Text
    BY <1>4, <1>6
  <2>2. InOrder(reverse, KeysIn(list, b + 1, last)) = SubSeq(list, b + 1, last)
    <3> DEFINE a == b + 1
    <3>1. IsStretched(n, a, last)
      BY <1>1, <1>4, <2>1 DEF IsStretched
    <3>2. IsListed(reverse, keys, list, n)
      OBVIOUS
    <3> HIDE DEF keys, reverse, sorted, next, skipped, a
    <3>3. IsInOrder(reverse, list, a, last)
      BY <3>1, <3>2, PartInOrder
    <3> QED BY <3>3 DEF a, IsInOrder
  <2> QED BY <1>7, <2>2
<1> HIDE DEF sorted
<1>9. page.rows = SubSeq(sorted, 1 + skipped, Len(sorted))
  <2>1. CASE asked.key = << >>
    <3>1. b = 0 /\ skipped = s
      BY <1>1, <2>1 DEF b
    <3> HIDE DEF skipped
    <3>2. sorted = SubSeq(list, 1, last)
      BY <1>8, <3>1
    <3>3. sorted \in Seq(keys) /\ Len(sorted) = last /\ \A i \in 1..last : sorted[i] = list[i]
      <4>1. 0 \in Nat /\ last \in 0..Len(list) /\ sorted = SubSeq(list, 0 + 1, last) /\ last \in Nat
        BY <1>1, <1>4, <3>2
      <4>2. IsStretch(keys, list, 0, last, sorted)
        BY <1>4, <4>1, StretchIs
      <4>3. Len(sorted) = last
        BY <4>1, <4>2 DEF IsStretch
      <4> QED BY <4>2, <4>3 DEF IsStretch
    <3>4. SubSeq(sorted, 1 + s, last) = SubSeq(list, s + 1, last)
      <4> DEFINE here == SubSeq(sorted, s + 1, last)
                 there == SubSeq(list, s + 1, last)
      <4>1. last \in 0..Len(sorted) /\ last \in 0..Len(list)
        BY <1>1, <1>4, <3>3
      <4>2. IsStretch(keys, sorted, s, last, here)
        BY <1>1, <3>3, <4>1, StretchIs
      <4>3. IsStretch(keys, list, s, last, there)
        BY <1>1, <1>4, <4>1, StretchIs
      <4> HIDE DEF here, there
      <4>4. \A i \in 1..Len(here) : s + i \in 1..last
        <5>1. s \in Nat /\ last \in Nat
          BY <1>1, <1>4
        <5> QED BY <4>2, <5>1 DEF IsStretch
      <4>7. Len(here) = Len(there) /\ \A i \in 1..Len(here) : here[i] = there[i]
        BY <3>3, <4>2, <4>3, <4>4 DEF IsStretch
      <4>8. here \in Seq(keys) /\ there \in Seq(keys)
        BY <4>2, <4>3 DEF IsStretch
      <4>5. here = there
        BY <4>7, <4>8, SeqEqual
      <4>6. 1 + s = s + 1
        BY <1>1, SMTT(60)
      <4> QED BY <4>5, <4>6 DEF here, there
    <3> QED BY <1>1, <3>1, <3>3, <3>4
  <2>2. CASE asked.key # << >>
    <3>1. b = s /\ 1 + skipped = 1
      BY <1>1, <2>2 DEF b
    <3> HIDE DEF skipped
    <3>2. sorted = SubSeq(list, s + 1, last)
      BY <1>8, <3>1
    <3>3. sorted \in Seq(keys)
      <4>1. last \in 0..Len(list)
        BY <1>1, <1>4
      <4>2. IsStretch(keys, list, s, last, sorted)
        BY <1>1, <1>4, <3>2, <4>1, StretchIs
      <4> QED BY <4>2 DEF IsStretch
    <3>4. SubSeq(sorted, 1, Len(sorted)) = sorted
      BY <3>3
    <3> QED BY <1>1, <3>1, <3>2, <3>4
  <2> QED BY <2>1, <2>2
<1> DEFINE rows == RowsOf(table, page.rows)
<1>10. /\ rows = RowsOf(table, SubSeq(sorted, 1 + skipped, Len(sorted)))
       /\ Len(rows) = (IF s < last THEN last - s ELSE 0)
  <2>1. page.rows \in Seq(keys) /\ Len(page.rows) = (IF s < last THEN last - s ELSE 0)
    <3>1. IsStretch(DOMAIN table, list, s, last, page.rows)
      BY PageTyped
    <3> QED BY <3>1 DEF IsStretch
  <2>2. rows = [i \in 1..Len(page.rows) |-> table[page.rows[i]]] /\ Len(page.rows) \in Nat
    BY <2>1 DEF RowsOf
  <2>3. Len(rows) = Len(page.rows)
    <3> HIDE DEF rows
    <3> QED BY <2>2
  <2> HIDE DEF sorted, skipped, rows
  <2>4. rows = RowsOf(table, SubSeq(sorted, 1 + skipped, Len(sorted)))
    BY <1>9 DEF rows
  <2> QED BY <2>1, <2>3, <2>4
<1> HIDE DEF rows
<1> DEFINE lim == Limit(asked)
<1>19. /\ s \in Nat /\ last \in Nat /\ n \in Nat /\ lim \in Nat \ {0}
       /\ last <= s + lim /\ (last < n => last = s + lim)
  <2>1. /\ s \in Nat /\ last \in 0..n /\ lim \in Nat \ {0}
        /\ last <= s + lim /\ (last < n => last = s + lim)
    BY <1>1, Zenon
  <2>2. n \in Nat
    BY <1>4
  <2> HIDE DEF lim
  <2> QED BY <2>1, <2>2
<1> HIDE DEF lim
<1>11. Len(rows) <= Limit(asked)
  <2>1. (IF s < last THEN last - s ELSE 0) <= lim
    BY <1>19
  <2> QED BY <1>10, <2>1 DEF lim
<1>12. ASSUME next # << >> PROVE next \in keys /\ rows # << >>
  <2>1. last < n /\ last + 1 \in 1..n /\ next = list[last + 1]
    BY <1>1, <1>4, <1>12
  <2>3. Len(rows) # 0
    <3>1. (IF s < last THEN last - s ELSE 0) # 0
      BY <1>19, <2>1
    <3> QED BY <1>10, <3>1
  <2>4. rows # << >>
    BY <2>3
  <2> QED BY <1>4, <2>1, <2>4
<1>13. asked.countTotal /\ asked.key = << >> => answer.total = Cardinality(keys)
  BY <1>2
<1> HIDE DEF next, skipped
<1>14. Len(rows) <= IF asked.limit = 0 THEN DefaultLimit ELSE asked.limit
  BY <1>11 DEF Limit
<1>15. /\ The(page.pagination).nextKey = next
       /\ The(page.pagination).total = answer.total
  BY <1>2, <1>3
<1>16. sorted = Rest(table, asked, next)
  BY DEF sorted, listed, start, keys, Rest, Start
<1>17. skipped = IF asked.key = << >> THEN asked.offset ELSE 0
  BY DEF skipped
<1> HIDE DEF sorted, start
<1>18. PageHas(table, asked, rows, next, answer.total, sorted, skipped)
  BY <1>10, <1>12, <1>13, <1>14 DEF PageHas, keys
<1>21. PageHas(table, asked, rows, next, answer.total, Rest(table, asked, next),
               IF asked.key = << >> THEN asked.offset ELSE 0)
  BY <1>16, <1>17, <1>18
<1>22. PageIsTrue(table, request, rows, page.pagination)
  BY <1>15, <1>21, PageParts
<1> QED BY <1>22 DEF rows

-----------------------------------------------------------------------------
(* Bytes that travel.                                                      *)

\* What has become of bytes on their way.
Carried(fate, w, bytes) ==
    \/ fate = "whole" /\ bytes = {w}
    \/ /\ fate = "newer"
       /\ \E f, longer : Longer(f, w, longer) /\ bytes = {longer}
    \/ fate = "cut" /\ \E n \in 0..Len(w) - 1 : bytes = {SubSeq(w, 1, n)}
\* What a reader can make of them.
Understood(fate, t, m, got) ==
    IF fate = "cut" THEN \A r \in got : r \in TypeOf[t] /\ CutOf(t, m, r) ELSE got = {m}

LEMMA LoadedOne ==
    ASSUME NEW t, NEW w
    PROVE  Loaded(t, {w}) = Unmarshal(t, w)
<1> DEFINE read == {Unmarshal(t, bytes) : bytes \in {w}}
<1>1. read = {Unmarshal(t, w)}
  OBVIOUS
<1>2. UNION read = Unmarshal(t, w)
  <2> HIDE DEF read
  <2> QED BY <1>1
<1> QED BY <1>2 DEF Loaded

LEMMA CarriedIsRead ==
    ASSUME NEW t \in Type, NEW m \in TypeOf[t], NEW w, Written(t, m, w), Len(w) <= MaxInt,
           NEW fate, NEW bytes, Carried(fate, w, bytes)
    PROVE  Understood(fate, t, m, Loaded(t, bytes)) /\ (\E b \in Text : bytes = {b})
<1>1. CASE fate = "whole" /\ bytes = {w}
  <2>1. w \in Text /\ Unmarshal(t, w) = {m}
    BY WrittenReads, BufferTyped
  <2>2. Loaded(t, bytes) = {m}
    BY <1>1, <2>1, LoadedOne
  <2> QED BY <1>1, <2>1, <2>2 DEF Understood
<1>2. CASE fate = "newer" /\ \E f, longer : Longer(f, w, longer) /\ bytes = {longer}
  <2>2. PICK f, longer : Longer(f, w, longer) /\ bytes = {longer}
    BY <1>2
  <2>3. longer \in Buffer /\ Unmarshal(t, longer) = {m}
    BY <2>2, NewerReads
  <2>4. Loaded(t, bytes) = {m} /\ longer \in Text
    BY <2>2, <2>3, LoadedOne, BufferTyped
  <2> QED BY <1>2, <2>2, <2>4 DEF Understood
<1>3. CASE fate = "cut" /\ \E n \in 0..Len(w) - 1 : bytes = {SubSeq(w, 1, n)}
  <2>1. PICK n \in 0..Len(w) - 1 : bytes = {SubSeq(w, 1, n)}
    BY <1>3
  <2> DEFINE cut == SubSeq(w, 1, n)
  <2>2. bytes = {cut}
    BY <2>1
  <2>3. /\ cut \in Buffer
        /\ \A r \in Unmarshal(t, cut) : r \in TypeOf[t] /\ CutOf(t, m, r)
    <3>1. cut = SubSeq(w, 1, n)
      OBVIOUS
    <3> HIDE DEF cut
    <3> QED BY <3>1, CutReads
  <2> HIDE DEF cut
  <2>4. Loaded(t, bytes) = Unmarshal(t, cut) /\ cut \in Text
    BY <2>2, <2>3, LoadedOne, BufferTyped
  <2> QED BY <1>3, <2>2, <2>3, <2>4 DEF Understood
<1> QED BY <1>1, <1>2, <1>3 DEF Carried

\* What has room is marshalled into one string of bytes.
LEMMA RoomWrites ==
    ASSUME NEW t \in Marshalled, NEW m \in TypeOf[t], HasRoom(t, m)
    PROVE  \E w : Marshal(t, m) = {w} /\ Written(t, m, w) /\ Len(w) <= MaxInt /\ t \in Type
<1>1. PICK w : Marshal(t, m) = {w} /\ Written(t, m, w)
  BY MarshalWrites DEF Writing
<1>2. w \in Buffer
  BY <1>1 DEF HasRoom
<1> QED BY <1>1, <1>2 DEF Buffer, Marshalled

\* And is what was stored when it is loaded.
LEMMA StoredIsLoaded ==
    ASSUME NEW t \in Marshalled, NEW m \in TypeOf[t], HasRoom(t, m)
    PROVE  Loaded(t, Marshal(t, m)) = {m}
<1>1. PICK w : Marshal(t, m) = {w} /\ Written(t, m, w) /\ Len(w) <= MaxInt /\ t \in Type
  BY RoomWrites
<1>2. Unmarshal(t, w) = {m}
  BY <1>1, WrittenReads
<1> QED BY <1>1, <1>2, LoadedOne

-----------------------------------------------------------------------------
(* The tables.                                                             *)

\* A table of sends or records, and the bytes it is stored as.
IsTable(type, table, stored) ==
    /\ type \in {"Pending", "Record"}
    /\ table \in [DOMAIN table -> TypeOf[type]]
    /\ \A key \in DOMAIN table : HasRoom(type, table[key])
    /\ IsKeys(DOMAIN table)
    /\ stored = StoredAs(type, table)

LoadsAs(type, row, bytes) == Loaded(type, bytes) = {row}
LEMMA RowIsLoaded ==
    ASSUME NEW type, NEW table, NEW stored, IsTable(type, table, stored)
    PROVE  /\ DOMAIN stored = DOMAIN table
           /\ \A key \in DOMAIN table : table[key] \in TypeOf[type]
           /\ \A key \in DOMAIN table : LoadsAs(type, table[key], stored[key])
<1>1. type \in Marshalled
  BY Zenon DEF IsTable, Marshalled, Type, CasesOf
<1>2. DOMAIN stored = DOMAIN table
  BY DEF IsTable, StoredAs
<1>3. ASSUME NEW key \in DOMAIN table
      PROVE  table[key] \in TypeOf[type] /\ LoadsAs(type, table[key], stored[key])
  <2>1. table[key] \in TypeOf[type] /\ HasRoom(type, table[key])
    BY DEF IsTable
  <2>2. stored[key] = Marshal(type, table[key])
    BY DEF IsTable, StoredAs
  <2> QED BY <1>1, <2>1, <2>2, StoredIsLoaded DEF LoadsAs
<1> QED BY <1>2, <1>3

\* The page that a request asks for.
AskedOf(pagination) == IF pagination = {} THEN NoPage ELSE The(pagination)

LEMMA AskedTyped ==
    ASSUME NEW pagination \in Pointer(PageRequestType)
    PROVE  /\ AskedOf(pagination) \in PageRequestType
           /\ (IF pagination = {} THEN {NoPage} ELSE pagination) = {AskedOf(pagination)}
<1>1. NoPage \in PageRequestType
  BY Zeros DEF NoPage, PageRequestType
<1>2. CASE pagination = {}
  BY <1>1, <1>2 DEF AskedOf
<1>3. CASE pagination # {}
  <2>1. PICK v \in pagination : TRUE
    BY <1>3
  <2>2. v \in PageRequestType /\ pagination = {v} /\ The(pagination) = v
    BY PointerTyped
  <2> QED BY <1>3, <2>2 DEF AskedOf
<1> QED BY <1>2, <1>3

\* A key and an offset exclude each other.
Unanswerable(asked) == asked.key # << >> /\ asked.offset > 0
\* What the store's pagination makes of a request: a page of the listing.
PageOf(table, asked, page, n, list, s, last) ==
    /\ n = Cardinality(DOMAIN table) /\ n \in Word
    /\ list = InOrder(asked.reverse, DOMAIN table)
    /\ IsListed(asked.reverse, DOMAIN table, list, n)
    /\ IsPage(list, n, asked, page, s, last)

LEMMA CollectionPaginateIs ==
    ASSUME NEW type, NEW table, NEW stored, IsTable(type, table, stored),
           NEW pagination \in Pointer(PageRequestType), NEW asked, asked = AskedOf(pagination)
    PROVE  /\ Unanswerable(asked) => CollectionPaginate(stored, pagination) = {}
           /\ ~Unanswerable(asked) =>
                 \E page, n, list, s, last :
                    /\ CollectionPaginate(stored, pagination) = {page}
                    /\ PageOf(table, asked, page, n, list, s, last)
<1> DEFINE keys == DOMAIN table
           list == InOrder(asked.reverse, keys)
           n == Cardinality(keys)
           one == IF Unanswerable(asked) THEN {} ELSE Paginated(list, asked)
<1>1. asked \in PageRequestType
      /\ (IF pagination = {} THEN {NoPage} ELSE pagination) = {asked}
  BY AskedTyped
<1>2. DOMAIN stored = keys /\ IsKeys(keys)
  BY RowIsLoaded DEF IsTable
<1>3. CollectionPaginate(stored, pagination) = one
  <2>1. CollectionPaginate(stored, pagination)
          = UNION {IF a.key # << >> /\ a.offset > 0 THEN {}
                   ELSE Paginated(InOrder(a.reverse, keys), a) : a \in {asked}}
    BY <1>1, <1>2 DEF CollectionPaginate
  <2> HIDE DEF keys
  <2>2. one = IF asked.key # << >> /\ asked.offset > 0 THEN {}
              ELSE Paginated(InOrder(asked.reverse, keys), asked)
    BY DEF Unanswerable
  <2> HIDE DEF one
  <2> QED BY <2>1, <2>2
<1>4. CASE Unanswerable(asked)
  BY <1>3, <1>4
<1>5. CASE ~Unanswerable(asked)
  <2>1. asked.reverse \in BOOLEAN /\ asked.offset \in Nat
    BY <1>1, WordTyped DEF PageRequestType, Word
  <2>2. asked.key = << >> \/ asked.offset = 0
    BY <1>5, <2>1 DEF Unanswerable
  <2>3. n \in Word
    BY <1>2 DEF IsKeys
  <2> HIDE DEF keys, list, n
  <2>4. IsListed(asked.reverse, keys, list, n)
    BY <1>2, <2>1, KeysListed DEF list, n
  <2>5. PICK page, s, last : Paginated(list, asked) = {page} /\ IsPage(list, n, asked, page, s, last)
    BY <1>1, <2>2, <2>3, <2>4, PaginatedIs
  <2>6. PageOf(table, asked, page, n, list, s, last)
    BY <2>3, <2>4, <2>5 DEF PageOf, n, list, keys
  <2>7. CollectionPaginate(stored, pagination) = {page}
    BY <1>3, <1>5, <2>5
  <2> QED BY <1>5, <2>6, <2>7
<1> QED BY <1>4, <1>5

\* What a page shows of a table.
ShownOn(table, page) ==
    [rows |-> RowsOf(table, page.rows), pagination |-> page.pagination]

LEMMA PageKeys ==
    ASSUME NEW table, NEW asked, NEW page, NEW n, NEW list, NEW s, NEW last,
           PageOf(table, asked, page, n, list, s, last)
    PROVE  page.rows \in Seq(DOMAIN table) /\ page.pagination \in Pointer(PageResponseType)
<1>1. IsStretch(DOMAIN table, list, s, last, page.rows)
  BY PageTyped DEF PageOf
<1>2. PICK answer : page.pagination = {answer} /\ answer \in PageResponseType
  BY DEF PageOf, IsPage
<1>3. {answer} \in Pointer(PageResponseType)
  BY <1>2 DEF Pointer
<1> QED BY <1>1, <1>2, <1>3 DEF IsStretch

LEMMA RowsTyped ==
    ASSUME NEW S, NEW table, table \in [DOMAIN table -> S], NEW keys \in Seq(DOMAIN table)
    PROVE  /\ RowsOf(table, keys) \in Seq(S)
           /\ DOMAIN RowsOf(table, keys) = DOMAIN keys
           /\ \A i \in DOMAIN keys : RowsOf(table, keys)[i] = table[keys[i]]
<1>1. DOMAIN keys = 1..Len(keys) /\ Len(keys) \in Nat /\ \A i \in 1..Len(keys) : keys[i] \in DOMAIN table
  OBVIOUS
<1>2. RowsOf(table, keys) = [i \in 1..Len(keys) |-> table[keys[i]]]
  BY <1>1 DEF RowsOf
<1>3. RowsOf(table, keys) \in [1..Len(keys) -> S]
  BY <1>1, <1>2
<1> QED BY <1>1, <1>2, <1>3

LEMMA ListedIs ==
    ASSUME NEW type, NEW table, NEW stored, IsTable(type, table, stored), NEW pagination, NEW page,
           CollectionPaginate(stored, pagination) = {page}, page.rows \in Seq(DOMAIN table)
    PROVE  Listed(type, stored, pagination) = {ShownOn(table, page)}
<1>0. \A key \in DOMAIN table : LoadsAs(type, table[key], stored[key])
  BY RowIsLoaded
<1> DEFINE loaded == [i \in DOMAIN page.rows |-> Loaded(type, stored[page.rows[i]])]
           Shown(rows) == [rows |-> [i \in DOMAIN rows |-> The(rows[i])], pagination |-> page.pagination]
<1>1. \A i \in DOMAIN page.rows : page.rows[i] \in DOMAIN table
  OBVIOUS
<1>2. ASSUME NEW i \in DOMAIN page.rows
      PROVE  Loaded(type, stored[page.rows[i]]) = {table[page.rows[i]]}
  <2>1. LoadsAs(type, table[page.rows[i]], stored[page.rows[i]])
    BY <1>0, <1>1
  <2> QED BY <2>1 DEF LoadsAs
<1>3. DOMAIN loaded = DOMAIN page.rows /\ \A i \in DOMAIN loaded : loaded[i] = {table[page.rows[i]]}
  BY <1>2
<1>4. Listed(type, stored, pagination) = {Shown(rows) : rows \in {r \in {loaded} : \A i \in DOMAIN r : r[i] # {}}}
  <2> DEFINE On(p) == {[rows |-> [i \in DOMAIN rows |-> The(rows[i])], pagination |-> p.pagination]
                       : rows \in {r \in {[i \in DOMAIN p.rows |-> Loaded(type, stored[p.rows[i]])]} :
                                     \A i \in DOMAIN r : r[i] # {}}}
  <2>1. Listed(type, stored, pagination) = UNION {On(p) : p \in CollectionPaginate(stored, pagination)}
    BY Zenon DEF Listed
  <2>2. {Shown(rows) : rows \in {r \in {loaded} : \A i \in DOMAIN r : r[i] # {}}} = On(page)
    OBVIOUS
  <2> HIDE DEF On, Shown, loaded
  <2>3. UNION {On(p) : p \in {page}} = On(page)
    OBVIOUS
  <2> QED BY <2>1, <2>2, <2>3
<1>5. Shown(loaded) = ShownOn(table, page)
  <2>1. \A x : The({x}) = x
    BY DEF The
  <2>2. [i \in DOMAIN loaded |-> The(loaded[i])] = [i \in DOMAIN page.rows |-> table[page.rows[i]]]
    <3> HIDE DEF loaded
    <3> QED BY <1>3, <2>1
  <2> HIDE DEF loaded
  <2> QED BY <2>2 DEF ShownOn, RowsOf
<1> HIDE DEF loaded, Shown
<1>6. {r \in {loaded} : \A i \in DOMAIN r : r[i] # {}} = {loaded}
  BY <1>3
<1>7. {Shown(rows) : rows \in {loaded}} = {Shown(loaded)}
  OBVIOUS
<1> QED BY <1>4, <1>5, <1>6, <1>7

\* What a listing shows when it can be given.
Answers(table, request, rows, pagination) ==
    \E page, n, list, s, last :
       /\ PageOf(table, AskedOf(request.pagination), page, n, list, s, last)
       /\ rows = RowsOf(table, page.rows) /\ pagination = page.pagination

LEMMA AnswersTyped ==
    ASSUME NEW type, NEW table, NEW stored, IsTable(type, table, stored),
           NEW request, request.pagination \in Pointer(PageRequestType), NEW rows, NEW pagination,
           Answers(table, request, rows, pagination)
    PROVE  /\ rows \in Seq(TypeOf[type]) /\ pagination \in Pointer(PageResponseType)
           /\ PageIsTrue(table, request, rows, pagination)
<1> DEFINE asked == AskedOf(request.pagination)
<1>1. asked \in PageRequestType
  BY AskedTyped
<1>2. asked = IF request.pagination = {} THEN NoPage ELSE The(request.pagination)
  BY DEF AskedOf
<1> HIDE DEF asked
<1>3. PICK page, n, list, s, last : /\ PageOf(table, asked, page, n, list, s, last)
                                    /\ rows = RowsOf(table, page.rows) /\ pagination = page.pagination
  BY DEF Answers, asked
<1>4. page.rows \in Seq(DOMAIN table) /\ page.pagination \in Pointer(PageResponseType)
  BY <1>3, PageKeys
<1>5. table \in [DOMAIN table -> TypeOf[type]]
  BY DEF IsTable
<1>6. RowsOf(table, page.rows) \in Seq(TypeOf[type])
  BY <1>4, <1>5, RowsTyped
<1>7. /\ n = Cardinality(DOMAIN table) /\ IsListed(asked.reverse, DOMAIN table, list, n)
      /\ IsPage(list, n, asked, page, s, last)
  BY <1>3 DEF PageOf
<1>8. PageIsTrue(table, request, RowsOf(table, page.rows), page.pagination)
  BY <1>1, <1>2, <1>7, PageTrue
<1> QED BY <1>3, <1>4, <1>6, <1>8

LEMMA ListingIsGiven ==
    ASSUME NEW type, NEW table, NEW stored, IsTable(type, table, stored),
           NEW request, request.pagination \in Pointer(PageRequestType)
    PROVE  /\ Unanswerable(AskedOf(request.pagination)) => Listed(type, stored, request.pagination) = {}
           /\ ~Unanswerable(AskedOf(request.pagination)) =>
                 \E rows, pagination :
                    /\ Answers(table, request, rows, pagination)
                    /\ Listed(type, stored, request.pagination) = {[rows |-> rows, pagination |-> pagination]}
<1> DEFINE asked == AskedOf(request.pagination)
           pages == CollectionPaginate(stored, request.pagination)
<1>1. /\ Unanswerable(asked) => pages = {}
      /\ ~Unanswerable(asked) =>
            \E page, n, list, s, last : pages = {page} /\ PageOf(table, asked, page, n, list, s, last)
  BY CollectionPaginateIs
<1>2. CASE Unanswerable(asked)
  <2>1. pages = {}
    BY <1>1, <1>2
  <2>2. Listed(type, stored, request.pagination) = {}
    BY <2>1 DEF Listed
  <2> QED BY <1>2, <2>2
<1>3. CASE ~Unanswerable(asked)
  <2>1. PICK page, n, list, s, last : pages = {page} /\ PageOf(table, asked, page, n, list, s, last)
    BY <1>1, <1>3
  <2>2. page.rows \in Seq(DOMAIN table)
    BY <2>1, PageKeys
  <2>3. Listed(type, stored, request.pagination) = {ShownOn(table, page)}
    BY <2>1, <2>2, ListedIs
  <2>4. Answers(table, request, RowsOf(table, page.rows), page.pagination)
    BY <2>1 DEF Answers
  <2> QED BY <1>3, <2>3, <2>4 DEF ShownOn
<1> QED BY <1>2, <1>3

-----------------------------------------------------------------------------
(* The handlers.                                                           *)

\* The tables hold what has been stored.
Kept(b, stores) ==
    /\ b.params \in Pointer(ParamsType)
    /\ \A params \in b.params : HasRoom("Params", params)
    /\ stores.params = Option("Params", b.params)
    /\ IsTable("Pending", b.pending, stores.pending)
    /\ IsTable("Record", b.record, stores.record)
    /\ \A key \in DOMAIN b.pending : key = <<b.pending[key].id>>

\* What a handler may reply, and when it may have no reply.
Replied(b, type, m, reply) ==
    \/ /\ reply.code = "OK" /\ ResponseTo[type] \in Marshalled
       /\ reply.answer \in TypeOf[ResponseTo[type]]
       /\ AnswerIsTrue(b, ResponseTo[type], m, reply.answer)
       /\ type = "QueryAllPendingRequest" =>
             Answers(b.pending, m, reply.answer.pending, reply.answer.pagination)
    \/ reply.code \in {"NotFound", "Unknown"} /\ RefusalIsTrue(b, reply.code, m)
Serves(b, type, m, replies) ==
    /\ \A reply \in replies : Replied(b, type, m, reply)
    /\ replies = {} => RefusalIsTrue(b, "Internal", m)

LEMMA Responses ==
    /\ ResponseTo["QueryParamsRequest"] = "QueryParamsResponse"
    /\ ResponseTo["QueryGetPendingRequest"] = "QueryGetPendingResponse"
    /\ ResponseTo["QueryAllPendingRequest"] = "QueryAllPendingResponse"
    /\ ResponseTo["QueryGetRecordRequest"] = "QueryGetRecordResponse"
    /\ ResponseTo["QueryAllRecordRequest"] = "QueryAllRecordResponse"
    /\ \A type \in RequestTypes : ResponseTo[type] \in Marshalled /\ type \in Marshalled
    /\ \A type \in RequestTypes : ResponseTo[type] \notin RequestTypes
<1>1. /\ "QueryParamsResponse" \in Marshalled /\ "QueryGetPendingResponse" \in Marshalled
      /\ "QueryAllPendingResponse" \in Marshalled /\ "QueryGetRecordResponse" \in Marshalled
      /\ "QueryAllRecordResponse" \in Marshalled
      /\ "QueryParamsRequest" \in Marshalled /\ "QueryGetPendingRequest" \in Marshalled
      /\ "QueryAllPendingRequest" \in Marshalled /\ "QueryGetRecordRequest" \in Marshalled
      /\ "QueryAllRecordRequest" \in Marshalled
  BY DEF Marshalled, Type, CasesOf
<1> QED BY <1>1 DEF ResponseTo, RequestTypes

LEMMA queryParamsServes ==
    ASSUME Kept(books, tables), NEW m
    PROVE  Serves(books, "QueryParamsRequest", m, queryParams(m))
<1>1. PICK params \in ParamsType :
         /\ queryParams(m) = {Reply([params |-> params])}
         /\ {params} = IF books.params = {} THEN {ParamsZero} ELSE books.params
  <2>1. CASE books.params = {}
    <3>1. tables.params = {}
      BY <2>1 DEF Kept, Option
    <3>2. ParamsZero \in ParamsType
      BY Zeros DEF ParamsZero, ParamsType
    <3>3. queryParams(m) = {Reply([params |-> ParamsZero])}
      BY <3>1 DEF queryParams
    <3> QED BY <2>1, <3>2, <3>3
  <2>2. CASE books.params # {}
    <3>1. PICK params \in books.params : TRUE
      BY <2>2
    <3>2. params \in ParamsType /\ books.params = {params} /\ HasRoom("Params", params)
      BY PointerTyped DEF Kept
    <3>3. tables.params = Marshal("Params", params)
      <4>1. UNION {Marshal("Params", value) : value \in {params}} = Marshal("Params", params)
        OBVIOUS
      <4> QED BY <3>2, <4>1 DEF Kept, Option
    <3>4. "Params" \in Marshalled /\ TypeOf["Params"] = ParamsType
      BY ParamsRows DEF Marshalled, Type, CasesOf
    <3>5. PICK w : Marshal("Params", params) = {w}
      BY <3>2, <3>4, RoomWrites
    <3>6. Loaded("Params", tables.params) = {params}
      BY <3>2, <3>3, <3>4, StoredIsLoaded
    <3>7. queryParams(m) = {Reply([params |-> params])}
      <4>1. tables.params # {}
        BY <3>3, <3>5
      <4> QED BY <3>6, <4>1 DEF queryParams
    <3> QED BY <2>2, <3>2, <3>7
  <2> QED BY <2>1, <2>2
<1> DEFINE reply == Reply([params |-> params])
<1>2. reply.code = "OK" /\ reply.answer.params = params
  BY DEF Reply
<1>3. reply.answer \in QueryParamsResponseType
  BY DEF Reply, QueryParamsResponseType
<1> HIDE DEF reply
<1>4. AnswerIsTrue(books, "QueryParamsResponse", m, reply.answer)
  BY <1>1, <1>2 DEF AnswerIsTrue
<1>5. Replied(books, "QueryParamsRequest", m, reply)
  BY <1>2, <1>3, <1>4, Responses, QueryParamsResponseRows DEF Replied, RequestTypes
<1>6. queryParams(m) = {reply}
  BY <1>1 DEF reply
<1> QED BY <1>5, <1>6 DEF Serves

LEMMA GetPendingServes ==
    ASSUME Kept(books, tables), NEW m \in QueryGetPendingRequestType
    PROVE  Serves(books, "QueryGetPendingRequest", m, GetPending(m))
<1> DEFINE key == <<m.id>>
<1>1. IsTable("Pending", books.pending, tables.pending)
  BY DEF Kept
<1>2. DOMAIN tables.pending = DOMAIN books.pending
  BY <1>1, RowIsLoaded
<1>3. "id" \in DOMAIN m /\ "index" \notin DOMAIN m
  BY DEF QueryGetPendingRequestType
<1>4. CASE key \notin DOMAIN books.pending
  <2>1. GetPending(m) = {Fails("Unknown")}
    BY <1>2, <1>4 DEF GetPending
  <2>2. RefusalIsTrue(books, "Unknown", m)
    BY <1>3, <1>4 DEF RefusalIsTrue
  <2>3. Replied(books, "QueryGetPendingRequest", m, Fails("Unknown"))
    BY <2>2 DEF Replied, Fails
  <2> QED BY <2>1, <2>3 DEF Serves
<1>5. CASE key \in DOMAIN books.pending
  <2> DEFINE send == books.pending[key]
             reply == Reply([pending |-> send])
  <2>1. send \in TypeOf["Pending"] /\ LoadsAs("Pending", send, tables.pending[key])
    BY <1>1, <1>5, RowIsLoaded
  <2>2. GetPending(m) = {Reply([pending |-> s]) : s \in Loaded("Pending", tables.pending[key])}
    BY <1>2, <1>5 DEF GetPending
  <2> HIDE DEF send, key
  <2>3. GetPending(m) = {reply}
    BY <2>1, <2>2 DEF LoadsAs
  <2>4. reply.code = "OK" /\ reply.answer.pending = send
    BY DEF Reply
  <2>5. reply.answer \in QueryGetPendingResponseType
    BY <2>1, PendingRows DEF Reply, QueryGetPendingResponseType
  <2> HIDE DEF reply
  <2>6. AnswerIsTrue(books, "QueryGetPendingResponse", m, reply.answer)
    BY <1>5, <2>4 DEF AnswerIsTrue, send, key
  <2>7. Replied(books, "QueryGetPendingRequest", m, reply)
    BY <2>4, <2>5, <2>6, Responses, QueryGetPendingResponseRows DEF Replied, RequestTypes
  <2> QED BY <2>3, <2>7 DEF Serves
<1> QED BY <1>4, <1>5

LEMMA GetRecordServes ==
    ASSUME Kept(books, tables), NEW m \in QueryGetRecordRequestType
    PROVE  Serves(books, "QueryGetRecordRequest", m, GetRecord(m))
<1> DEFINE key == m.index
<1>1. IsTable("Record", books.record, tables.record)
  BY DEF Kept
<1>2. DOMAIN tables.record = DOMAIN books.record
  BY <1>1, RowIsLoaded
<1>3. "index" \in DOMAIN m
  BY DEF QueryGetRecordRequestType
<1>4. CASE key \notin DOMAIN books.record
  <2>1. GetRecord(m) = {Fails("NotFound")}
    BY <1>2, <1>4 DEF GetRecord
  <2>2. RefusalIsTrue(books, "NotFound", m)
    BY <1>3, <1>4 DEF RefusalIsTrue
  <2>3. Replied(books, "QueryGetRecordRequest", m, Fails("NotFound"))
    BY <2>2 DEF Replied, Fails
  <2> QED BY <2>1, <2>3 DEF Serves
<1>5. CASE key \in DOMAIN books.record
  <2> DEFINE row == books.record[key]
             reply == Reply([record |-> row])
  <2>1. row \in TypeOf["Record"] /\ LoadsAs("Record", row, tables.record[key])
    BY <1>1, <1>5, RowIsLoaded
  <2>2. GetRecord(m) = {Reply([record |-> s]) : s \in Loaded("Record", tables.record[key])}
    BY <1>2, <1>5 DEF GetRecord
  <2> HIDE DEF row, key
  <2>3. GetRecord(m) = {reply}
    BY <2>1, <2>2 DEF LoadsAs
  <2>4. reply.code = "OK" /\ reply.answer.record = row
    BY DEF Reply
  <2>5. reply.answer \in QueryGetRecordResponseType
    BY <2>1, RecordRows DEF Reply, QueryGetRecordResponseType
  <2> HIDE DEF reply
  <2>6. AnswerIsTrue(books, "QueryGetRecordResponse", m, reply.answer)
    BY <1>5, <2>4 DEF AnswerIsTrue, row, key
  <2>7. Replied(books, "QueryGetRecordRequest", m, reply)
    BY <2>4, <2>5, <2>6, Responses, QueryGetRecordResponseRows DEF Replied, RequestTypes
  <2> QED BY <2>3, <2>7 DEF Serves
<1> QED BY <1>4, <1>5

\* Nobody but a client that asks for a place in two ways gets no page.
LEMMA UnanswerableRefusal ==
    ASSUME NEW m, NEW b, NEW code, m.pagination \in Pointer(PageRequestType),
           "index" \notin DOMAIN m, "id" \notin DOMAIN m, Unanswerable(AskedOf(m.pagination))
    PROVE  RefusalIsTrue(b, code, m)
<1>1. ASSUME NEW page \in m.pagination PROVE page.key # << >> /\ page.offset > 0
  <2>1. The(m.pagination) = page /\ m.pagination # {}
    BY PointerTyped
  <2> QED BY <2>1 DEF Unanswerable, AskedOf
<1> QED BY <1>1 DEF RefusalIsTrue

LEMMA ListPendingServes ==
    ASSUME Kept(books, tables), NEW m \in QueryAllPendingRequestType
    PROVE  Serves(books, "QueryAllPendingRequest", m, ListPending(m))
<1>1. IsTable("Pending", books.pending, tables.pending)
  BY DEF Kept
<1>2. "index" \notin DOMAIN m /\ "id" \notin DOMAIN m /\ m.pagination \in Pointer(PageRequestType)
  BY DEF QueryAllPendingRequestType
<1>3. CASE Unanswerable(AskedOf(m.pagination))
  <2>1. ListPending(m) = {}
    BY <1>1, <1>2, <1>3, ListingIsGiven DEF ListPending
  <2>2. RefusalIsTrue(books, "Internal", m)
    BY <1>2, <1>3, UnanswerableRefusal
  <2> QED BY <2>1, <2>2 DEF Serves
<1>4. CASE ~Unanswerable(AskedOf(m.pagination))
  <2>1. PICK rows, pagination :
           /\ Answers(books.pending, m, rows, pagination)
           /\ Listed("Pending", tables.pending, m.pagination) = {[rows |-> rows, pagination |-> pagination]}
    BY <1>1, <1>2, <1>4, ListingIsGiven
  <2> DEFINE reply == Reply([pending |-> rows, pagination |-> pagination])
  <2>2. ListPending(m) = {reply}
    <3> DEFINE shown == [rows |-> rows, pagination |-> pagination]
               Of(listed) == Reply([pending |-> listed.rows, pagination |-> listed.pagination])
    <3>1. Of(shown) = reply
      OBVIOUS
    <3>2. ListPending(m) = {Of(listed) : listed \in {shown}}
      BY <2>1 DEF ListPending
    <3> HIDE DEF shown, Of, reply
    <3> QED BY <3>1, <3>2
  <2>3. /\ rows \in Seq(TypeOf["Pending"]) /\ pagination \in Pointer(PageResponseType)
        /\ PageIsTrue(books.pending, m, rows, pagination)
    BY <1>1, <1>2, <2>1, AnswersTyped
  <2>4. reply.code = "OK" /\ reply.answer.pending = rows /\ reply.answer.pagination = pagination
    BY DEF Reply
  <2>5. reply.answer \in QueryAllPendingResponseType
    BY <2>3, PendingRows DEF Reply, QueryAllPendingResponseType
  <2> HIDE DEF reply
  <2>6. AnswerIsTrue(books, "QueryAllPendingResponse", m, reply.answer)
    BY <2>3, <2>4 DEF AnswerIsTrue
  <2>7. Replied(books, "QueryAllPendingRequest", m, reply)
    BY <2>1, <2>4, <2>5, <2>6, Responses, QueryAllPendingResponseRows DEF Replied, RequestTypes
  <2> QED BY <2>2, <2>7 DEF Serves
<1> QED BY <1>3, <1>4

LEMMA ListRecordServes ==
    ASSUME Kept(books, tables), NEW m \in QueryAllRecordRequestType
    PROVE  Serves(books, "QueryAllRecordRequest", m, ListRecord(m))
<1>1. IsTable("Record", books.record, tables.record)
  BY DEF Kept
<1>2. "index" \notin DOMAIN m /\ "id" \notin DOMAIN m /\ m.pagination \in Pointer(PageRequestType)
  BY DEF QueryAllRecordRequestType
<1>3. CASE Unanswerable(AskedOf(m.pagination))
  <2>1. ListRecord(m) = {}
    BY <1>1, <1>2, <1>3, ListingIsGiven DEF ListRecord
  <2>2. RefusalIsTrue(books, "Internal", m)
    BY <1>2, <1>3, UnanswerableRefusal
  <2> QED BY <2>1, <2>2 DEF Serves
<1>4. CASE ~Unanswerable(AskedOf(m.pagination))
  <2>1. PICK rows, pagination :
           /\ Answers(books.record, m, rows, pagination)
           /\ Listed("Record", tables.record, m.pagination) = {[rows |-> rows, pagination |-> pagination]}
    BY <1>1, <1>2, <1>4, ListingIsGiven
  <2> DEFINE reply == Reply([record |-> rows, pagination |-> pagination])
  <2>2. ListRecord(m) = {reply}
    <3> DEFINE shown == [rows |-> rows, pagination |-> pagination]
               Of(listed) == Reply([record |-> listed.rows, pagination |-> listed.pagination])
    <3>1. Of(shown) = reply
      OBVIOUS
    <3>2. ListRecord(m) = {Of(listed) : listed \in {shown}}
      BY <2>1 DEF ListRecord
    <3> HIDE DEF shown, Of, reply
    <3> QED BY <3>1, <3>2
  <2>3. /\ rows \in Seq(TypeOf["Record"]) /\ pagination \in Pointer(PageResponseType)
        /\ PageIsTrue(books.record, m, rows, pagination)
    BY <1>1, <1>2, <2>1, AnswersTyped
  <2>4. reply.code = "OK" /\ reply.answer.record = rows /\ reply.answer.pagination = pagination
    BY DEF Reply
  <2>5. reply.answer \in QueryAllRecordResponseType
    BY <2>3, RecordRows DEF Reply, QueryAllRecordResponseType
  <2> HIDE DEF reply
  <2>6. AnswerIsTrue(books, "QueryAllRecordResponse", m, reply.answer)
    BY <2>3, <2>4 DEF AnswerIsTrue
  <2>7. Replied(books, "QueryAllRecordRequest", m, reply)
    BY <2>4, <2>5, <2>6, Responses, QueryAllRecordResponseRows DEF Replied, RequestTypes
  <2> QED BY <2>2, <2>7 DEF Serves
<1> QED BY <1>3, <1>4

\* Whatever is asked of the query server.
LEMMA DispatchServes ==
    ASSUME Kept(books, tables), NEW type \in RequestTypes, NEW m \in TypeOf[type]
    PROVE  Serves(books, type, m, Dispatch(type, m))
<1>1. CASE type = "QueryParamsRequest"
  BY <1>1, queryParamsServes DEF Dispatch
<1>2. CASE type = "QueryGetPendingRequest"
  BY <1>2, GetPendingServes, QueryGetPendingRequestRows DEF Dispatch
<1>3. CASE type = "QueryAllPendingRequest"
  BY <1>3, ListPendingServes, QueryAllPendingRequestRows DEF Dispatch
<1>4. CASE type = "QueryGetRecordRequest"
  BY <1>4, GetRecordServes, QueryGetRecordRequestRows DEF Dispatch
<1>5. CASE type = "QueryAllRecordRequest"
  BY <1>5, ListRecordServes, QueryAllRecordRequestRows DEF Dispatch
<1> QED BY <1>1, <1>2, <1>3, <1>4, <1>5 DEF RequestTypes

-----------------------------------------------------------------------------
(* A client's walk through the pages.                                      *)

Ids(b) == InOrder(FALSE, DOMAIN b.pending)
Sends(b) == Cardinality(DOMAIN b.pending)
\* So far the walk has seen the first j sends, and its key is that of the next.
WalkAt(b, w, j) ==
    /\ j \in 0..Sends(b) /\ w.rows = [i \in 1..j |-> Ids(b)[i][1]]
    /\ w.done => j = Sends(b) /\ w.key = << >>
    /\ ~w.done => IF w.key = << >> THEN j = 0 ELSE j < Sends(b) /\ w.key = Ids(b)[j + 1]
WalkInv(b, w) == \E j : WalkAt(b, w, j)
WalkRequest(w) ==
    [pagination |-> IF w.key = << >> THEN {} ELSE {[NoPage EXCEPT !.key = w.key]}]
\* The page that the walk waits for.
IsNext(b, m, j, last) ==
    /\ last \in j..Sends(b)
    /\ m.pending = RowsOf(b.pending, SubSeq(Ids(b), j + 1, last))
    /\ \E answer : /\ m.pagination = {answer}
                   /\ answer.nextKey = IF last < Sends(b) THEN Ids(b)[last + 1] ELSE << >>
PageFor(b, w, m) == \E j, last : WalkAt(b, w, j) /\ IsNext(b, m, j, last)
\* What the client makes of it.
Turned(w, page) ==
    LET next == The(page.pagination).nextKey
    IN  [rows |-> w.rows \o [i \in DOMAIN page.pending |-> page.pending[i].id],
         key |-> next, done |-> next = << >>]

LEMMA IdsListed ==
    ASSUME NEW b, NEW stored, IsTable("Pending", b.pending, stored)
    PROVE  /\ IsListed(FALSE, DOMAIN b.pending, Ids(b), Sends(b))
           /\ Sends(b) \in Nat /\ Len(Ids(b)) = Sends(b) /\ Ids(b) \in Seq(DOMAIN b.pending)
           /\ \A i \in 1..Sends(b) : Ids(b)[i] \in DOMAIN b.pending /\ Ids(b)[i] \in Text /\ Ids(b)[i] # << >>
<1>1. IsKeys(DOMAIN b.pending) /\ FALSE \in BOOLEAN
  BY DEF IsTable
<1>2. IsListed(FALSE, DOMAIN b.pending, Ids(b), Sends(b))
  BY <1>1, KeysListed DEF Ids, Sends
<1>3. /\ Sends(b) \in Nat /\ Len(Ids(b)) = Sends(b) /\ Ids(b) \in Seq(DOMAIN b.pending)
      /\ DOMAIN b.pending \subseteq Text \ {<< >>}
  BY <1>2 DEF IsListed
<1>4. \A i \in 1..Sends(b) : Ids(b)[i] \in DOMAIN b.pending
  BY <1>3
<1> QED BY <1>2, <1>3, <1>4

LEMMA WalkAsks ==
    ASSUME NEW b, NEW stored, IsTable("Pending", b.pending, stored), NEW w, WalkInv(b, w), ~w.done
    PROVE  /\ WalkRequest(w) \in QueryAllPendingRequestType
           /\ AskedOf(WalkRequest(w).pagination) = [NoPage EXCEPT !.key = w.key]
<1>1. PICK j : WalkAt(b, w, j)
  BY DEF WalkInv
<1>2. w.key \in Text
  <2>1. CASE w.key = << >>
    BY <2>1, Zeros
  <2>2. CASE w.key # << >>
    <3>1. j \in 0..Sends(b) /\ j < Sends(b) /\ w.key = Ids(b)[j + 1] /\ Sends(b) \in Nat
      BY <1>1, <2>2, IdsListed DEF WalkAt
    <3>2. j + 1 \in 1..Sends(b)
      BY <3>1
    <3> QED BY <3>1, <3>2, IdsListed
  <2> QED BY <2>1, <2>2
<1>3. NoPage \in PageRequestType /\ [NoPage EXCEPT !.key = w.key] \in PageRequestType
  BY <1>2, Zeros DEF NoPage, PageRequestType
<1>4. CASE w.key = << >>
  <2>1. WalkRequest(w) = [pagination |-> {}]
    BY <1>4 DEF WalkRequest
  <2>2. [NoPage EXCEPT !.key = w.key] = NoPage
    BY <1>4 DEF NoPage
  <2> QED BY <2>1, <2>2, Zeros DEF AskedOf, QueryAllPendingRequestType
<1>5. CASE w.key # << >>
  <2> DEFINE asked == [NoPage EXCEPT !.key = w.key]
  <2>1. WalkRequest(w) = [pagination |-> {asked}]
    BY <1>5 DEF WalkRequest
  <2>2. asked \in PageRequestType
    BY <1>3
  <2> HIDE DEF asked
  <2>3. {asked} \in Pointer(PageRequestType)
    BY <2>2 DEF Pointer
  <2>4. AskedOf({asked}) = asked
    BY DEF AskedOf, The
  <2>5. WalkRequest(w) \in QueryAllPendingRequestType /\ AskedOf(WalkRequest(w).pagination) = asked
    BY <2>1, <2>3, <2>4 DEF QueryAllPendingRequestType
  <2> QED BY <2>5 DEF asked
<1> QED BY <1>4, <1>5

LEMMA WalkIsAnswered ==
    ASSUME NEW b, NEW stored, IsTable("Pending", b.pending, stored), NEW w, WalkInv(b, w), ~w.done,
           NEW m, Answers(b.pending, WalkRequest(w), m.pending, m.pagination)
    PROVE  PageFor(b, w, m)
<1> DEFINE asked == [NoPage EXCEPT !.key = w.key]
<1>1. PICK j : WalkAt(b, w, j)
  BY DEF WalkInv
<1>2. AskedOf(WalkRequest(w).pagination) = asked
  BY WalkAsks
<1>3. asked.key = w.key /\ asked.reverse = FALSE /\ asked.offset = 0
  BY DEF NoPage
<1> HIDE DEF asked
<1>4. PICK page, n, list, s, last :
         /\ PageOf(b.pending, asked, page, n, list, s, last)
         /\ m.pending = RowsOf(b.pending, page.rows) /\ m.pagination = page.pagination
  BY <1>2 DEF Answers
<1>5. list = Ids(b) /\ n = Sends(b) /\ IsPage(list, n, asked, page, s, last)
  BY <1>3, <1>4 DEF PageOf, Ids, Sends
<1>6. /\ last \in 0..n /\ (s <= n => s <= last) /\ s \in Nat
      /\ s = IF w.key # << >> THEN Cardinality(Earlier(asked.reverse, list, w.key)) ELSE 0
      /\ page.rows = SubSeq(list, s + 1, last)
  BY <1>3, <1>5 DEF IsPage
<1>7. s = j /\ j \in Nat /\ j <= n /\ n \in Nat
  <2>1. j \in 0..n /\ n \in Nat
    BY <1>1, <1>5, IdsListed DEF WalkAt
  <2>2. CASE w.key = << >>
    BY <1>1, <1>6, <2>1, <2>2 DEF WalkAt
  <2>3. CASE w.key # << >>
    <3>1. j < n /\ w.key = list[j + 1]
      BY <1>1, <1>5, <2>3 DEF WalkAt
    <3> DEFINE k == j + 1
               e == Cardinality(Earlier(asked.reverse, list, w.key))
    <3>2. k \in 1..n /\ k - 1 = j
      BY <2>1, <3>1
    <3>3. IsListed(asked.reverse, DOMAIN b.pending, list, n) /\ w.key \in Text
      BY <1>4, <1>5, <3>1, <3>2, IdsListed DEF PageOf
    <3>4. w.key = list[k]
      BY <3>1
    <3>5. s = e
      BY <1>6, <2>3
    <3> HIDE DEF k
    <3>6. e = k - 1
      BY <3>2, <3>3, <3>4, LastPlaces
    <3> HIDE DEF e
    <3> QED BY <2>1, <3>2, <3>5, <3>6
  <2> QED BY <2>1, <2>2, <2>3
<1>8. last \in j..n
  <2>1. last \in 0..n /\ (j <= n => j <= last)
    BY <1>6, <1>7
  <2> QED BY <1>7, <2>1
<1>9. \E answer : /\ page.pagination = {answer}
                  /\ answer.nextKey = IF last < n THEN list[last + 1] ELSE << >>
  BY <1>5 DEF IsPage
<1>10. IsNext(b, m, j, last)
  BY <1>4, <1>5, <1>6, <1>7, <1>8, <1>9 DEF IsNext
<1> QED BY <1>1, <1>10 DEF PageFor

LEMMA WalkTurns ==
    ASSUME NEW b, NEW stored, IsTable("Pending", b.pending, stored),
           \A key \in DOMAIN b.pending : key = <<b.pending[key].id>>,
           NEW w, NEW m, PageFor(b, w, m)
    PROVE  WalkInv(b, Turned(w, m))
<1> DEFINE L == Ids(b)
           N == Sends(b)
<1>1. PICK j, last : WalkAt(b, w, j) /\ IsNext(b, m, j, last)
  BY DEF PageFor
<1>2. /\ N \in Nat /\ Len(L) = N /\ L \in Seq(DOMAIN b.pending)
      /\ \A i \in 1..N : L[i] \in DOMAIN b.pending /\ L[i] # << >>
  BY IdsListed
<1>3. j \in 0..N /\ w.rows = [i \in 1..j |-> L[i][1]]
  BY <1>1 DEF WalkAt
<1>4. PICK answer : /\ m.pagination = {answer}
                    /\ answer.nextKey = IF last < N THEN L[last + 1] ELSE << >>
  BY <1>1 DEF IsNext
<1>5. /\ last \in j..N /\ m.pending = RowsOf(b.pending, SubSeq(L, j + 1, last))
      /\ j \in Nat /\ last \in Nat /\ last <= N /\ j <= last
  BY <1>1, <1>2, <1>3 DEF IsNext
<1> DEFINE part == SubSeq(L, j + 1, last)
           next == answer.nextKey
           new == [i \in DOMAIN m.pending |-> m.pending[i].id]
<1>6. Turned(w, m) = [rows |-> w.rows \o new, key |-> next, done |-> next = << >>]
  <2>1. The(m.pagination) = answer
    BY <1>4 DEF The
  <2> QED BY <2>1 DEF Turned
<1> HIDE DEF L, N
<1>7. IsStretch(DOMAIN b.pending, L, j, last, part)
  <2>1. last \in 0..Len(L)
    BY <1>2, <1>5
  <2> QED BY <1>2, <1>5, <2>1, StretchIs
<1> HIDE DEF part
<1>8. /\ part \in Seq(DOMAIN b.pending) /\ Len(part) = last - j
      /\ \A i \in 1..last - j : part[i] = L[j + i]
  BY <1>5, <1>7 DEF IsStretch
<1>9. new = [i \in 1..last - j |-> L[j + i][1]]
  <2>1. m.pending = [i \in 1..last - j |-> b.pending[part[i]]]
    <3>1. DOMAIN part = 1..last - j
      BY <1>5, <1>8
    <3>2. m.pending = RowsOf(b.pending, part)
      BY <1>5 DEF part
    <3> QED BY <3>1, <3>2 DEF RowsOf
  <2>2. \A i \in 1..last - j : b.pending[part[i]].id = L[j + i][1]
    <3> SUFFICES ASSUME NEW i \in 1..last - j PROVE b.pending[part[i]].id = L[j + i][1]
      OBVIOUS
    <3>1. part[i] = L[j + i] /\ j + i \in 1..N
      BY <1>2, <1>5, <1>8
    <3>2. L[j + i] \in DOMAIN b.pending
      BY <1>2, <3>1
    <3> DEFINE id == b.pending[L[j + i]].id
    <3>3. L[j + i] = <<id>>
      BY <3>2
    <3>4. <<id>>[1] = id
      OBVIOUS
    <3> HIDE DEF id
    <3>5. L[j + i][1] = id
      BY <3>3, <3>4
    <3> QED BY <3>1, <3>5 DEF id
  <2> QED BY <2>1, <2>2
<1> HIDE DEF new
<1>10. w.rows \o new = [i \in 1..last |-> L[i][1]]
  <2> DEFINE first == [i \in 1..j |-> L[i][1]]
             rest == [i \in 1..last - j |-> L[j + i][1]]
  <2>1. first \in Seq({x[1] : x \in DOMAIN b.pending}) /\ Len(first) = j
    <3>1. \A i \in 1..j : L[i] \in DOMAIN b.pending
      BY <1>2, <1>5
    <3> QED BY <1>5, <3>1
  <2>2. rest \in Seq({x[1] : x \in DOMAIN b.pending}) /\ Len(rest) = last - j
    <3>1. \A i \in 1..last - j : L[j + i] \in DOMAIN b.pending
      <4>1. \A i \in 1..last - j : j + i \in 1..N
        BY <1>2, <1>5
      <4> QED BY <1>2, <4>1
    <3>2. last - j \in Nat
      BY <1>5
    <3> QED BY <3>1, <3>2
  <2>3. \A i \in 1..last : IF i <= j THEN first[i] = L[i][1] ELSE rest[i - j] = L[i][1]
    <3> SUFFICES ASSUME NEW i \in 1..last PROVE IF i <= j THEN first[i] = L[i][1] ELSE rest[i - j] = L[i][1]
      OBVIOUS
    <3>1. CASE i <= j
      <4>1. i \in 1..j
        BY <1>5, <3>1
      <4> QED BY <3>1, <4>1
    <3>2. CASE ~(i <= j)
      <4>1. i - j \in 1..last - j /\ j + (i - j) = i
        BY <1>5, <3>2
      <4> QED BY <3>2, <4>1
    <3> QED BY <3>1, <3>2
  <2> HIDE DEF first, rest
  <2>4. /\ DOMAIN (first \o rest) = 1..last
        /\ \A i \in 1..last : (first \o rest)[i] = IF i <= j THEN first[i] ELSE rest[i - j]
    BY <1>5, <2>1, <2>2
  <2>5. first \o rest = [i \in 1..last |-> (first \o rest)[i]]
    <3> DEFINE both == first \o rest
               S == {x[1] : x \in DOMAIN b.pending}
    <3>1. both \in Seq(S) /\ Len(both) = last
      <4> HIDE DEF S
      <4> QED BY <1>5, <2>1, <2>2 DEF S
    <3> HIDE DEF both, S
    <3>2. both \in [1..last -> S]
      BY <3>1
    <3>3. both = [i \in 1..last |-> both[i]]
      BY <3>2
    <3> QED BY <3>3 DEF both
  <2>6. first \o rest = [i \in 1..last |-> L[i][1]]
    BY <2>3, <2>4, <2>5
  <2> QED BY <1>3, <1>9, <2>6 DEF first, rest
<1>11. WalkAt(b, Turned(w, m), last)
  <2> DEFINE turned == Turned(w, m)
  <2>1. last \in 0..N
    BY <1>5
  <2>4. /\ turned.rows = [i \in 1..last |-> L[i][1]] /\ turned.key = next
        /\ turned.done = (next = << >>)
    BY <1>6, <1>10
  <2> HIDE DEF turned
  <2>2. CASE last < N
    <3>1. last + 1 \in 1..N
      BY <1>2, <1>5, <2>2
    <3>2. next = L[last + 1] /\ next # << >>
      BY <1>2, <1>4, <2>2, <3>1
    <3> HIDE DEF next
    <3>3. ~turned.done /\ turned.key # << >> /\ turned.key = L[last + 1]
      BY <2>4, <3>2
    <3> QED BY <2>1, <2>2, <2>4, <3>3, Zenon DEF WalkAt, L, N, turned
  <2>3. CASE ~(last < N)
    <3>1. last = N /\ next = << >>
      BY <1>2, <1>4, <1>5, <2>3
    <3> HIDE DEF next
    <3>2. turned.done /\ turned.key = << >>
      BY <2>4, <3>1
    <3> QED BY <2>1, <2>4, <3>1, <3>2, Zenon DEF WalkAt, L, N, turned
  <2> QED BY <2>2, <2>3
<1> QED BY <1>11 DEF WalkInv

-----------------------------------------------------------------------------
(* The invariant of a call.                                                *)

\* What is known of a message that is under way.
Means(b, w, type, by, asked, meant) ==
    /\ type \in Type /\ meant \in TypeOf[type]
    /\ \A request \in asked : AnswerIsTrue(b, type, request, meant)
    /\ by = "walk" /\ type \in RequestTypes =>
          type = "QueryAllPendingRequest" /\ ~w.done /\ meant = WalkRequest(w)
    /\ by = "walk" /\ type \notin RequestTypes =>
          type = "QueryAllPendingResponse" /\ PageFor(b, w, meant)
\* What it was before it went on its way.
Sent(type, meant, bytes) ==
    Written(type, meant, bytes) /\ Len(bytes) <= MaxInt
Travels(type, meant, fate, bytes) ==
    \E original : Sent(type, meant, original) /\ Carried(fate, original, bytes)
Going(type, by, asked, meant, bytes, fate) ==
    [stage |-> "wire", type |-> type, by |-> by, asked |-> asked, meant |-> meant,
     bytes |-> bytes, fate |-> fate]
OnWireInv(b, w, c) ==
    \E type, by, asked, meant, bytes, fate :
       /\ c = Going(type, by, asked, meant, bytes, fate)
       /\ Means(b, w, type, by, asked, meant) /\ Travels(type, meant, fate, bytes)
ReadInv(b, w, c) ==
    /\ Means(b, w, c.type, c.by, c.asked, c.meant)
    /\ Understood(c.fate, c.type, c.meant, c.got)
RefusedInv(b, c) ==
    /\ c.code \in {"InvalidArgument", "NotFound", "Unknown", "Internal"}
    /\ \A request \in c.asked : RefusalIsTrue(b, c.code, request)
CallInv(b, w, c) ==
    \/ c.stage = "idle"
    \/ c.stage = "wire" /\ OnWireInv(b, w, c)
    \/ c.stage = "read" /\ ReadInv(b, w, c)
    \/ c.stage = "refused" /\ RefusedInv(b, c)

ServiceInv == Kept(books, tables) /\ CallInv(books, walk, call) /\ WalkInv(books, walk)

LEMMA StagesDiffer ==
    /\ "idle" # "wire" /\ "idle" # "read" /\ "idle" # "refused" /\ "wire" # "read"
    /\ "wire" # "refused" /\ "read" # "refused"
  OBVIOUS

\* A message that has room goes on its way.
LEMMA Departs ==
    ASSUME NEW b, NEW w, NEW type \in Marshalled, NEW by, NEW asked, NEW meant,
           Means(b, w, type, by, asked, meant), HasRoom(type, meant),
           NEW bytes, bytes = Marshal(type, meant)
    PROVE  CallInv(b, w, OnWire(type, by, asked, meant, bytes))
<1> DEFINE c == OnWire(type, by, asked, meant, bytes)
<1>1. meant \in TypeOf[type]
  BY DEF Means
<1>2. PICK original : Marshal(type, meant) = {original} /\ Sent(type, meant, original)
  BY <1>1, RoomWrites DEF Sent
<1>3. Carried("whole", original, bytes)
  BY <1>2 DEF Carried
<1>4. Travels(type, meant, "whole", bytes)
  BY <1>2, <1>3 DEF Travels
<1>5. c = Going(type, by, asked, meant, bytes, "whole") /\ c.stage = "wire"
  BY DEF OnWire, Going
<1> HIDE DEF c
<1>6. OnWireInv(b, w, c)
  BY <1>4, <1>5 DEF OnWireInv
<1>7. CallInv(b, w, c)
  BY <1>5, <1>6 DEF CallInv
<1> QED BY <1>7 DEF c

\* What has been read.
LEMMA Arrives ==
    ASSUME NEW type, NEW meant, type \in Type, meant \in TypeOf[type],
           NEW fate, NEW bytes, Travels(type, meant, fate, bytes)
    PROVE  Understood(fate, type, meant, Loaded(type, bytes)) /\ \E one \in Text : bytes = {one}
<1>1. PICK original : Sent(type, meant, original) /\ Carried(fate, original, bytes)
  BY DEF Travels
<1> QED BY <1>1, CarriedIsRead DEF Sent

\* A message that nobody has asked for and that is not part of the walk.
LEMMA Unasked ==
    ASSUME NEW b, NEW w, NEW type \in Type, NEW by, by # "walk", NEW meant \in TypeOf[type]
    PROVE  Means(b, w, type, by, {}, meant)
  BY DEF Means

LEMMA InitServiceInv == ServiceInit => ServiceInv
<1> SUFFICES ASSUME ServiceInit PROVE ServiceInv
  OBVIOUS
<1>1. /\ books.params \in Pointer(ParamsType)
      /\ \A params \in books.params : HasRoom("Params", params)
      /\ books.pending \in [DOMAIN books.pending -> PendingType]
      /\ DOMAIN books.pending \subseteq {<<id>> : id \in Byte}
      /\ \A key \in DOMAIN books.pending : books.pending[key].id = key[1] /\ HasRoom("Pending", books.pending[key])
      /\ books.record \in [DOMAIN books.record -> RecordType]
      /\ DOMAIN books.record \subseteq Text \ {<< >>}
      /\ \A key \in DOMAIN books.record : HasRoom("Record", books.record[key])
      /\ IsFiniteSet(DOMAIN books.pending) /\ Cardinality(DOMAIN books.pending) \in Word
      /\ IsFiniteSet(DOMAIN books.record) /\ Cardinality(DOMAIN books.record) \in Word
  BY BooksAssumption DEF ServiceInit
<1>2. /\ tables.params = Option("Params", books.params)
      /\ tables.pending = StoredAs("Pending", books.pending)
      /\ tables.record = StoredAs("Record", books.record)
  BY DEF ServiceInit
<1>3. DOMAIN books.pending \subseteq Text \ {<< >>}
  <2> SUFFICES ASSUME NEW key \in DOMAIN books.pending PROVE key \in Text /\ key # << >>
    OBVIOUS
  <2>1. PICK id \in Byte : key = <<id>>
    BY <1>1
  <2>2. <<id>> \in Seq(Byte) /\ <<id>> # << >>
    OBVIOUS
  <2> QED BY <2>1, <2>2 DEF Text
<1>4. ASSUME NEW key \in DOMAIN books.pending PROVE key = <<books.pending[key].id>>
  <2>1. PICK id \in Byte : key = <<id>>
    BY <1>1
  <2>2. key[1] = id
    BY <2>1
  <2> QED BY <1>1, <2>1, <2>2
<1>5. TypeOf["Pending"] = PendingType /\ TypeOf["Record"] = RecordType
  BY PendingRows, RecordRows
<1>6. IsTable("Pending", books.pending, tables.pending)
  BY <1>1, <1>2, <1>3, <1>5 DEF IsTable, IsKeys
<1>7. IsTable("Record", books.record, tables.record)
  BY <1>1, <1>2, <1>5 DEF IsTable, IsKeys
<1>8. Kept(books, tables)
  BY <1>1, <1>2, <1>4, <1>6, <1>7 DEF Kept
<1>9. CallInv(books, walk, call)
  BY DEF ServiceInit, Idle, CallInv
<1>10. WalkInv(books, walk)
  <2>1. walk.rows = << >> /\ walk.key = << >> /\ walk.done = FALSE
    BY DEF ServiceInit
  <2>2. Sends(books) \in Nat
    BY <1>6, IdsListed
  <2>3. 0 \in 0..Sends(books) /\ walk.rows = [i \in 1..0 |-> Ids(books)[i][1]]
    BY <2>1, <2>2
  <2>4. WalkAt(books, walk, 0)
    BY <2>1, <2>3 DEF WalkAt
  <2> QED BY <2>4 DEF WalkInv
<1> QED BY <1>8, <1>9, <1>10 DEF ServiceInv

-----------------------------------------------------------------------------
(* The steps.                                                              *)

\* While the tables and the walk stand still, only the call matters.
LEMMA CallOnly ==
    ASSUME ServiceInv, UNCHANGED <<books, tables, walk>>, CallInv(books, walk, call')
    PROVE  ServiceInv'
<1>1. books' = books /\ tables' = tables /\ walk' = walk
  OBVIOUS
<1> QED BY <1>1 DEF ServiceInv

LEMMA PostInv == ServiceInv /\ (\E p \in Posts : Post(p)) => ServiceInv'
<1> SUFFICES ASSUME ServiceInv, NEW p \in Posts, Post(p) PROVE ServiceInv'
  OBVIOUS
<1>1. /\ HasRoom(p.type, p.m) /\ UNCHANGED <<books, tables, walk>>
      /\ call' = OnWire(p.type, "go", {}, p.m, Marshal(p.type, p.m))
  BY DEF Post
<1>2. p.type \in Marshalled /\ p.m \in TypeOf[p.type] /\ p.type \in Type
  BY PostsAssumption DEF Marshalled
<1>3. Means(books, walk, p.type, "go", {}, p.m)
  BY <1>2, Unasked
<1>4. CallInv(books, walk, call')
  BY <1>1, <1>2, <1>3, Departs
<1> QED BY <1>1, <1>4, CallOnly

LEMMA WalletPostsInv == ServiceInv /\ (\E p \in Posts : WalletPosts(p)) => ServiceInv'
<1> SUFFICES ASSUME ServiceInv, NEW p \in Posts, WalletPosts(p) PROVE ServiceInv'
  OBVIOUS
<1>1. /\ HasRoom(p.type, p.m) /\ UNCHANGED <<books, tables, walk>>
      /\ p.type \in {"MsgDelayedSend", "MsgCancelSend", "MsgSetFinalOnly"}
      /\ call' = OnWire(p.type, "wallet", {}, p.m, {WalletEncodes(p.type, p.m)})
  BY DEF WalletPosts
<1>2. p.type \in Marshalled /\ p.m \in TypeOf[p.type] /\ p.type \in Type
  BY PostsAssumption DEF Marshalled
<1>3. \A bytes \in Marshal(p.type, p.m) : Len(bytes) <= MaxInt
  BY <1>1 DEF HasRoom, Buffer
<1>4. {WalletEncodes(p.type, p.m)} = Marshal(p.type, p.m)
  BY <1>1, <1>2, <1>3, WalletMarshals
<1>5. Means(books, walk, p.type, "wallet", {}, p.m)
  BY <1>2, Unasked
<1>6. CallInv(books, walk, call')
  BY <1>1, <1>2, <1>4, <1>5, Departs
<1> QED BY <1>1, <1>6, CallOnly

LEMMA AskInv == ServiceInv /\ (\E p \in Requests : Ask(p)) => ServiceInv'
<1> SUFFICES ASSUME ServiceInv, NEW p \in Requests, Ask(p) PROVE ServiceInv'
  OBVIOUS
<1>1. /\ HasRoom(p.type, p.m) /\ UNCHANGED <<books, tables, walk>>
      /\ call' = OnWire(p.type, "go", {}, p.m, Marshal(p.type, p.m))
  BY DEF Ask
<1>2. p.type \in Marshalled /\ p.m \in TypeOf[p.type] /\ p.type \in Type
  BY RequestsAssumption, Responses DEF Marshalled
<1>3. Means(books, walk, p.type, "go", {}, p.m)
  BY <1>2, Unasked
<1>4. CallInv(books, walk, call')
  BY <1>1, <1>2, <1>3, Departs
<1> QED BY <1>1, <1>4, CallOnly

LEMMA AskUnreadableInv ==
    ServiceInv /\ (\E type \in RequestTypes : AskUnreadable(type)) => ServiceInv'
<1> SUFFICES ASSUME ServiceInv, NEW type \in RequestTypes, AskUnreadable(type) PROVE ServiceInv'
  OBVIOUS
<1>1. UNCHANGED <<books, tables, walk>> /\ call' = Refused("InvalidArgument", {})
  BY DEF AskUnreadable
<1>2. CallInv(books, walk, call')
  BY <1>1 DEF Refused, CallInv, RefusedInv
<1> QED BY <1>1, <1>2, CallOnly

LEMMA AskPageInv == ServiceInv /\ AskPage => ServiceInv'
<1> SUFFICES ASSUME ServiceInv, AskPage PROVE ServiceInv'
  OBVIOUS
<1> DEFINE type == "QueryAllPendingRequest"
           m == WalkRequest(walk)
<1>1. /\ HasRoom(type, m) /\ UNCHANGED <<books, tables, walk>> /\ ~walk.done
      /\ call' = OnWire(type, "walk", {}, m, Marshal(type, m))
  BY DEF AskPage, WalkRequest
<1>2. IsTable("Pending", books.pending, tables.pending) /\ WalkInv(books, walk)
  BY DEF ServiceInv, Kept
<1>3. type \in RequestTypes /\ type \in Marshalled /\ type \in Type
  BY Responses DEF RequestTypes, Marshalled
<1>4. m \in TypeOf[type]
  BY <1>1, <1>2, WalkAsks, QueryAllPendingRequestRows
<1>5. Means(books, walk, type, "walk", {}, m)
  BY <1>1, <1>3, <1>4 DEF Means
<1> HIDE DEF type, m
<1>6. CallInv(books, walk, call')
  BY <1>1, <1>3, <1>4, <1>5, Departs
<1> QED BY <1>1, <1>6, CallOnly

\* What is on the wire, whole, is one string of bytes.
LEMMA WholeCall ==
    ASSUME ServiceInv, call.stage = "wire", call.fate = "whole"
    PROVE  \E type, by, asked, meant, original :
              /\ call = Going(type, by, asked, meant, {original}, "whole")
              /\ Means(books, walk, type, by, asked, meant) /\ Sent(type, meant, original)
<1>1. OnWireInv(books, walk, call)
  BY StagesDiffer DEF ServiceInv, CallInv
<1>2. PICK type, by, asked, meant, bytes, fate :
         /\ call = Going(type, by, asked, meant, bytes, fate)
         /\ Means(books, walk, type, by, asked, meant) /\ Travels(type, meant, fate, bytes)
  BY <1>1 DEF OnWireInv
<1>3. fate = "whole"
  BY <1>2 DEF Going
<1>4. PICK original : Sent(type, meant, original) /\ Carried(fate, original, bytes)
  BY <1>2 DEF Travels
<1>5. bytes = {original}
  BY <1>3, <1>4 DEF Carried
<1> QED BY <1>2, <1>3, <1>4, <1>5

\* And has become other bytes.
LEMMA Rerouted ==
    ASSUME ServiceInv, UNCHANGED <<books, tables, walk>>,
           NEW type, NEW by, NEW asked, NEW meant, NEW original, NEW bytes, NEW fate,
           call' = Going(type, by, asked, meant, bytes, fate),
           Means(books, walk, type, by, asked, meant), Sent(type, meant, original),
           Carried(fate, original, bytes)
    PROVE  ServiceInv'
<1>1. Travels(type, meant, fate, bytes)
  BY DEF Travels
<1>2. call'.stage = "wire"
  BY DEF Going
<1>3. OnWireInv(books, walk, call')
  BY <1>1 DEF OnWireInv
<1>4. CallInv(books, walk, call')
  BY <1>2, <1>3 DEF CallInv
<1> QED BY <1>4, CallOnly

LEMMA NewerInv == ServiceInv /\ Newer => ServiceInv'
<1> SUFFICES ASSUME ServiceInv, Newer PROVE ServiceInv'
  OBVIOUS
<1>1. call.stage = "wire" /\ call.fate = "whole" /\ UNCHANGED <<books, tables, walk>>
  BY DEF Newer
<1>2. PICK type, by, asked, meant, original :
         /\ call = Going(type, by, asked, meant, {original}, "whole")
         /\ Means(books, walk, type, by, asked, meant) /\ Sent(type, meant, original)
  BY <1>1, WholeCall
<1>3. PICK field \in UnknownFields, bytes \in call.bytes :
         \E longer \in {field \o bytes, bytes \o field} \cap Buffer :
            call' = [call EXCEPT !.bytes = {longer}, !.fate = "newer"]
  BY DEF Newer
<1>4. PICK longer \in {field \o bytes, bytes \o field} \cap Buffer :
         call' = [call EXCEPT !.bytes = {longer}, !.fate = "newer"]
  BY <1>3
<1>5. bytes = original
  BY <1>2 DEF Going
<1>6. Longer(field, original, longer)
  BY <1>4, <1>5, UnknownAssumption DEF Longer, Buffer
<1>7. call' = Going(type, by, asked, meant, {longer}, "newer")
  BY <1>2, <1>4 DEF Going
<1>8. Carried("newer", original, {longer})
  BY <1>6 DEF Carried
<1> QED BY <1>1, <1>2, <1>7, <1>8, Rerouted

LEMMA CutInv == ServiceInv /\ Cut => ServiceInv'
<1> SUFFICES ASSUME ServiceInv, Cut PROVE ServiceInv'
  OBVIOUS
<1>1. call.stage = "wire" /\ call.fate = "whole" /\ UNCHANGED <<books, tables, walk>>
  BY DEF Cut
<1>2. PICK type, by, asked, meant, original :
         /\ call = Going(type, by, asked, meant, {original}, "whole")
         /\ Means(books, walk, type, by, asked, meant) /\ Sent(type, meant, original)
  BY <1>1, WholeCall
<1>3. PICK bytes \in call.bytes :
         \E length \in 0..Len(bytes) - 1 :
            call' = [call EXCEPT !.bytes = {SubSeq(bytes, 1, length)}, !.fate = "cut"]
  BY DEF Cut
<1>4. PICK length \in 0..Len(bytes) - 1 :
         call' = [call EXCEPT !.bytes = {SubSeq(bytes, 1, length)}, !.fate = "cut"]
  BY <1>3
<1>5. bytes = original
  BY <1>2 DEF Going
<1> DEFINE cut == {SubSeq(original, 1, length)}
<1>6. call' = Going(type, by, asked, meant, cut, "cut")
  <2>1. call' = [call EXCEPT !.bytes = cut, !.fate = "cut"]
    BY <1>4, <1>5
  <2> HIDE DEF cut
  <2> QED BY <1>2, <2>1 DEF Going
<1>7. Carried("cut", original, cut)
  BY <1>4, <1>5 DEF Carried
<1> HIDE DEF cut
<1> QED BY <1>1, <1>2, <1>6, <1>7, Rerouted

LEMMA ReadInvariant == ServiceInv /\ Read => ServiceInv'
<1> SUFFICES ASSUME ServiceInv, Read PROVE ServiceInv'
  OBVIOUS
<1>1. /\ call.stage = "wire" /\ UNCHANGED <<books, tables, walk>>
      /\ call' = [stage |-> "read", type |-> call.type, by |-> call.by, asked |-> call.asked,
                  meant |-> call.meant, fate |-> call.fate, got |-> Loaded(call.type, call.bytes)]
  BY DEF Read
<1>2. OnWireInv(books, walk, call)
  BY <1>1, StagesDiffer DEF ServiceInv, CallInv
<1>3. PICK type, by, asked, meant, bytes, fate :
         /\ call = Going(type, by, asked, meant, bytes, fate)
         /\ Means(books, walk, type, by, asked, meant) /\ Travels(type, meant, fate, bytes)
  BY <1>2 DEF OnWireInv
<1>4. Understood(fate, type, meant, Loaded(type, bytes))
  BY <1>3, Arrives DEF Means
<1>5. /\ call'.stage = "read" /\ call'.type = type /\ call'.by = by /\ call'.asked = asked
      /\ call'.meant = meant /\ call'.fate = fate /\ call'.got = Loaded(type, bytes)
  BY <1>1, <1>3 DEF Going
<1>6. ReadInv(books, walk, call')
  BY <1>3, <1>4, <1>5 DEF ReadInv
<1>7. CallInv(books, walk, call')
  BY <1>5, <1>6 DEF CallInv
<1> QED BY <1>1, <1>7, CallOnly

\* What has been read is a message of its type, and the one that was meant unless it
\* was cut.
LEMMA GotTyped ==
    ASSUME ServiceInv, call.stage = "read"
    PROVE  /\ ReadInv(books, walk, call)
           /\ \A m \in call.got : m \in TypeOf[call.type]
           /\ call.fate # "cut" => call.got = {call.meant}
<1>1. ReadInv(books, walk, call)
  BY StagesDiffer DEF ServiceInv, CallInv
<1>2. call.meant \in TypeOf[call.type] /\ Understood(call.fate, call.type, call.meant, call.got)
  BY <1>1 DEF ReadInv, Means
<1>3. CASE call.fate = "cut"
  BY <1>1, <1>2, <1>3 DEF Understood
<1>4. CASE call.fate # "cut"
  BY <1>1, <1>2, <1>4 DEF Understood
<1> QED BY <1>3, <1>4

LEMMA ServeInv == ServiceInv /\ Serve => ServiceInv'
<1> SUFFICES ASSUME ServiceInv, Serve PROVE ServiceInv'
  OBVIOUS
<1>1. /\ call.stage = "read" /\ call.type \in RequestTypes /\ UNCHANGED <<books, tables, walk>>
      /\ \E m \in call.got :
            \E reply \in Dispatch(call.type, m) :
               /\ reply.code = "OK" => HasRoom(ResponseTo[call.type], reply.answer)
               /\ call' = IF reply.code # "OK" THEN Refused(reply.code, {m})
                          ELSE OnWire(ResponseTo[call.type], IF call.fate = "cut" THEN "go" ELSE call.by,
                                      {m}, reply.answer, Marshal(ResponseTo[call.type], reply.answer))
  BY DEF Serve
<1> DEFINE response == ResponseTo[call.type]
           by == IF call.fate = "cut" THEN "go" ELSE call.by
<1>2. PICK m \in call.got :
         \E reply \in Dispatch(call.type, m) :
            /\ reply.code = "OK" => HasRoom(response, reply.answer)
            /\ call' = IF reply.code # "OK" THEN Refused(reply.code, {m})
                       ELSE OnWire(response, by, {m}, reply.answer, Marshal(response, reply.answer))
  BY <1>1
<1>3. PICK reply \in Dispatch(call.type, m) :
         /\ reply.code = "OK" => HasRoom(response, reply.answer)
         /\ call' = IF reply.code # "OK" THEN Refused(reply.code, {m})
                    ELSE OnWire(response, by, {m}, reply.answer, Marshal(response, reply.answer))
  BY <1>2
<1>4. /\ ReadInv(books, walk, call) /\ m \in TypeOf[call.type]
      /\ call.fate # "cut" => m = call.meant
  BY <1>1, <1>2, GotTyped
<1>5. Replied(books, call.type, m, reply)
  BY <1>1, <1>3, <1>4, DispatchServes DEF ServiceInv, Serves
<1>6. CASE reply.code # "OK"
  <2>1. reply.code \in {"NotFound", "Unknown"} /\ RefusalIsTrue(books, reply.code, m)
    BY <1>5, <1>6 DEF Replied
  <2>2. call' = Refused(reply.code, {m})
    BY <1>3, <1>6
  <2>3. CallInv(books, walk, call')
    BY <2>1, <2>2 DEF Refused, CallInv, RefusedInv
  <2> QED BY <1>1, <2>3, CallOnly
<1>7. CASE reply.code = "OK"
  <2> DEFINE answer == reply.answer
  <2>1. /\ response \in Marshalled /\ answer \in TypeOf[response]
        /\ AnswerIsTrue(books, response, m, answer)
        /\ call.type = "QueryAllPendingRequest" =>
              Answers(books.pending, m, answer.pending, answer.pagination)
    <3>1. reply.code \notin {"NotFound", "Unknown"}
      BY <1>7
    <3> QED BY <1>5, <3>1 DEF Replied
  <2>2. response \in Type /\ response \notin RequestTypes
    BY <1>1, <2>1, Responses DEF Marshalled
  <2>3. ASSUME by = "walk" PROVE response = "QueryAllPendingResponse" /\ PageFor(books, walk, answer)
    <3>1. call.fate # "cut" /\ call.by = "walk"
      BY <2>3
    <3>2. call.type = "QueryAllPendingRequest" /\ ~walk.done /\ m = WalkRequest(walk)
      BY <1>1, <1>4, <3>1 DEF ReadInv, Means
    <3>3. IsTable("Pending", books.pending, tables.pending) /\ WalkInv(books, walk)
      BY DEF ServiceInv, Kept
    <3>4. Answers(books.pending, WalkRequest(walk), answer.pending, answer.pagination)
      BY <2>1, <3>2
    <3> HIDE DEF answer
    <3>5. PageFor(books, walk, answer)
      BY <3>2, <3>3, <3>4, WalkIsAnswered
    <3> QED BY <3>2, <3>5, Responses
  <2> HIDE DEF answer, response, by
  <2>4. Means(books, walk, response, by, {m}, answer)
    BY <2>1, <2>2, <2>3 DEF Means
  <2>5. HasRoom(response, answer)
        /\ call' = OnWire(response, by, {m}, answer, Marshal(response, answer))
    BY <1>3, <1>7 DEF answer
  <2>6. CallInv(books, walk, call')
    BY <2>1, <2>4, <2>5, Departs
  <2> QED BY <1>1, <2>6, CallOnly
<1> QED BY <1>6, <1>7

LEMMA ServeFailsInv == ServiceInv /\ ServeFails => ServiceInv'
<1> SUFFICES ASSUME ServiceInv, ServeFails PROVE ServiceInv'
  OBVIOUS
<1>1. /\ call.stage = "read" /\ call.type \in RequestTypes /\ UNCHANGED <<books, tables, walk>>
      /\ \A m \in call.got : Dispatch(call.type, m) = {}
      /\ call' = Refused("Internal", call.got)
  BY DEF ServeFails
<1>2. ASSUME NEW m \in call.got PROVE RefusalIsTrue(books, "Internal", m)
  <2>1. m \in TypeOf[call.type]
    BY <1>1, GotTyped
  <2> QED BY <1>1, <2>1, DispatchServes DEF ServiceInv, Serves
<1>3. CallInv(books, walk, call')
  BY <1>1, <1>2 DEF Refused, CallInv, RefusedInv
<1> QED BY <1>1, <1>3, CallOnly

LEMMA HearInv == ServiceInv /\ Hear => ServiceInv'
<1> SUFFICES ASSUME ServiceInv, Hear PROVE ServiceInv'
  OBVIOUS
<1> DEFINE turns == call.stage = "read" /\ call.by = "walk" /\ call.fate # "cut"
<1>1. /\ call.stage = "refused" \/ (call.stage = "read" /\ call.type \notin RequestTypes)
      /\ call' = Idle /\ books' = books /\ tables' = tables
      /\ walk' = IF turns THEN Turned(walk, The(call.got)) ELSE walk
  BY DEF Hear, Turned
<1>2. CallInv(books, walk', call')
  BY <1>1 DEF Idle, CallInv
<1>3. WalkInv(books, walk')
  <2>1. CASE ~turns
    BY <1>1, <2>1 DEF ServiceInv
  <2>2. CASE turns
    <3>1. call.stage = "read" /\ call.type \notin RequestTypes
      BY <1>1, <2>2, StagesDiffer
    <3>2. ReadInv(books, walk, call) /\ call.got = {call.meant}
      BY <2>2, GotTyped
    <3>3. PageFor(books, walk, call.meant)
      BY <2>2, <3>1, <3>2 DEF ReadInv, Means
    <3>4. /\ IsTable("Pending", books.pending, tables.pending)
          /\ \A key \in DOMAIN books.pending : key = <<books.pending[key].id>>
      BY DEF ServiceInv, Kept
    <3>5. The(call.got) = call.meant
      BY <3>2 DEF The
    <3>6. WalkInv(books, Turned(walk, call.meant))
      BY <3>3, <3>4, WalkTurns
    <3> QED BY <1>1, <2>2, <3>5, <3>6
  <2> QED BY <2>1, <2>2
<1> QED BY <1>1, <1>2, <1>3 DEF ServiceInv

\* Every step keeps the invariant.
LEMMA NextServiceInv == ServiceInv /\ [ServiceNext]_svars => ServiceInv'
<1> SUFFICES ASSUME ServiceInv, [ServiceNext]_svars PROVE ServiceInv'
  OBVIOUS
<1>1. CASE UNCHANGED svars
  <2>1. books' = books /\ tables' = tables /\ call' = call /\ walk' = walk
    BY <1>1 DEF svars
  <2> QED BY <2>1 DEF ServiceInv
<1>2. CASE ServiceNext
  <2>1. CASE \E p \in Posts : Post(p)
    BY <2>1, PostInv
  <2>2. CASE \E p \in Posts : WalletPosts(p)
    BY <2>2, WalletPostsInv
  <2>3. CASE \E p \in Requests : Ask(p)
    BY <2>3, AskInv
  <2>4. CASE \E type \in RequestTypes : AskUnreadable(type)
    BY <2>4, AskUnreadableInv
  <2>5. CASE AskPage
    BY <2>5, AskPageInv
  <2>6. CASE Newer
    BY <2>6, NewerInv
  <2>7. CASE Cut
    BY <2>7, CutInv
  <2>8. CASE Read
    BY <2>8, ReadInvariant
  <2>9. CASE Serve
    BY <2>9, ServeInv
  <2>10. CASE ServeFails
    BY <2>10, ServeFailsInv
  <2>11. CASE Hear
    BY <2>11, HearInv
  <2> QED BY <1>2, <2>1, <2>2, <2>3, <2>4, <2>5, <2>6, <2>7, <2>8, <2>9, <2>10, <2>11 DEF ServiceNext
<1> QED BY <1>1, <1>2

LEMMA ServiceInvariant == ServiceSpec => []ServiceInv
<1> QED BY InitServiceInv, NextServiceInv, PTL DEF ServiceSpec

-----------------------------------------------------------------------------
(* What the invariant says to those who talk to the module.                *)

LEMMA InvTypeOK == ServiceInv => ServiceTypeOK
<1> SUFFICES ASSUME ServiceInv PROVE ServiceTypeOK
  OBVIOUS
<1>1. CallInv(books, walk, call) /\ WalkInv(books, walk)
  BY DEF ServiceInv
<1>2. call.stage \in {"idle", "wire", "read", "refused"}
  BY <1>1 DEF CallInv
<1>3. ASSUME call.stage = "wire"
      PROVE  call.type \in Type /\ Cardinality(call.bytes) = 1 /\ call.bytes \subseteq Seq(Byte)
  <2>1. OnWireInv(books, walk, call)
    BY <1>1, <1>3, StagesDiffer DEF CallInv
  <2>2. PICK type, by, asked, meant, bytes, fate :
           /\ call = Going(type, by, asked, meant, bytes, fate)
           /\ Means(books, walk, type, by, asked, meant) /\ Travels(type, meant, fate, bytes)
    BY <2>1 DEF OnWireInv
  <2>3. type \in Type /\ meant \in TypeOf[type]
    BY <2>2 DEF Means
  <2>4. PICK one \in Text : bytes = {one}
    BY <2>2, <2>3, Arrives
  <2>5. Cardinality({one}) = 1
    BY FS_Singleton
  <2>6. call.type = type /\ call.bytes = {one}
    BY <2>2, <2>4 DEF Going
  <2> QED BY <2>3, <2>5, <2>6 DEF Text
<1>4. ASSUME call.stage = "read" PROVE call.type \in Type
  BY <1>4, GotTyped DEF ReadInv, Means
<1>5. ASSUME call.stage = "refused"
      PROVE  call.code \in {"InvalidArgument", "NotFound", "Unknown", "Internal"}
  BY <1>1, <1>5, StagesDiffer DEF CallInv, RefusedInv
<1>6. walk.done => walk.key = << >>
  BY <1>1 DEF WalkInv, WalkAt
<1> QED BY <1>2, <1>3, <1>4, <1>5, <1>6 DEF ServiceTypeOK

\* What is under way has a type that somebody decodes and is one string of bytes, so
\* that no Marshal ran out of the buffer its Size made; every refusal has a code.
THEOREM ServiceTypes == ServiceSpec => []ServiceTypeOK
<1> QED BY ServiceInvariant, InvTypeOK, PTL

LEMMA InvReadAsMeant == ServiceInv => ReadAsMeant /\ NewerPeersAreUnderstood /\ WalletIsUnderstood
<1> SUFFICES ASSUME ServiceInv, call.stage = "read", call.fate \in {"whole", "newer"}
             PROVE  call.got = {call.meant}
  BY DEF ReadAsMeant, NewerPeersAreUnderstood, WalletIsUnderstood, Arrived
<1> QED BY GotTyped

\* Every message that one program of this version writes, another one reads as it was
\* meant: what goes into MarshalToSizedBuffer comes out of Unmarshal.
THEOREM MessagesAreReadAsMeant == ServiceSpec => []ReadAsMeant
<1> QED BY ServiceInvariant, InvReadAsMeant, PTL

\* The wallet's hand-written encoders (wallet/src/chain.js) mean to the node, which
\* decodes with the generated code, what the wallet meant.
THEOREM WalletMessagesAreUnderstood == ServiceSpec => []WalletIsUnderstood
<1> QED BY ServiceInvariant, InvReadAsMeant, PTL

\* A field of a later version changes nothing in what an older program reads: skip
\* leaves Unmarshal at the next field it knows.
THEOREM NewerMessagesAreUnderstood == ServiceSpec => []NewerPeersAreUnderstood
<1> QED BY ServiceInvariant, InvReadAsMeant, PTL

LEMMA InvCut == ServiceInv => CutNeverInvents
<1> SUFFICES ASSUME ServiceInv, call.stage = "read", call.fate = "cut", NEW m \in call.got
             PROVE  CutOf(call.type, call.meant, m)
  BY DEF CutNeverInvents, Arrived, CutOf
<1>1. Understood(call.fate, call.type, call.meant, call.got)
  BY GotTyped DEF ReadInv
<1> QED BY <1>1 DEF Understood

\* Bytes that were cut short hold nothing that nobody wrote: Unmarshal refuses them, or
\* the cut fell between two fields.
THEOREM CutMessagesInventNothing == ServiceSpec => []CutNeverInvents
<1> QED BY ServiceInvariant, InvCut, PTL

LEMMA InvAnswers == ServiceInv => AnswersAreTrue
<1> SUFFICES ASSUME ServiceInv, call.stage = "read", call.fate \in {"whole", "newer"},
                    NEW asked \in call.asked, NEW m \in call.got
             PROVE  AnswerIsTrue(books, call.type, asked, m)
  BY DEF AnswersAreTrue, Arrived
<1>1. call.got = {call.meant} /\ ReadInv(books, walk, call)
  BY GotTyped
<1> QED BY <1>1 DEF ReadInv, Means

\* An answer of the query server tells what was stored, through two stages of bytes, and
\* a page is the part of the ordered table asked for (keeper/query_*.go).
THEOREM EveryAnswerIsTrue == ServiceSpec => []AnswersAreTrue
<1> QED BY ServiceInvariant, InvAnswers, PTL

LEMMA InvRefusals == ServiceInv => RefusalsAreTrue
<1> SUFFICES ASSUME ServiceInv, call.stage = "refused", NEW asked \in call.asked
             PROVE  RefusalIsTrue(books, call.code, asked)
  BY DEF RefusalsAreTrue
<1> QED BY StagesDiffer DEF ServiceInv, CallInv, RefusedInv

\* Nobody is told that something is missing which is there, and NotFound, the wallet's
\* tally of zeros, is GetRecord's answer for an address without a record only.
THEOREM EveryRefusalIsTrue == ServiceSpec => []RefusalsAreTrue
<1> QED BY ServiceInvariant, InvRefusals, PTL

LEMMA InvWalk == ServiceInv => WalkListsEverySend
<1> SUFFICES ASSUME ServiceInv, walk.done
             PROVE  walk.rows = [i \in 1..Cardinality(DOMAIN books.pending) |->
                                    InOrder(FALSE, DOMAIN books.pending)[i][1]]
  BY DEF WalkListsEverySend
<1>1. PICK j : WalkAt(books, walk, j)
  BY DEF ServiceInv, WalkInv
<1>2. j = Sends(books) /\ walk.rows = [i \in 1..j |-> Ids(books)[i][1]]
  BY <1>1 DEF WalkAt
<1> QED BY <1>2 DEF Sends, Ids

\* A client that follows the keys from page to page, as the wallet's pendingFor does,
\* sees every send once, in the order of the ids.
THEOREM WalkSeesEverySend == ServiceSpec => []WalkListsEverySend
<1> QED BY ServiceInvariant, InvWalk, PTL
=============================================================================

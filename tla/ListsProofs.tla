----------------------------- MODULE ListsProofs -----------------------------
(***************************************************************************)
(* What Without returns, for lists of any length; the ends of a queue; the *)
(* sizes of sets; functions defined by iteration.  The library's induction *)
(* theorems take an operator; the least-number principle over sets stands  *)
(* in for them.                                                            *)
(***************************************************************************)
EXTENDS Lists, Functions, WellFoundedInduction, FiniteSetTheorems, TLAPS

\* A set of natural numbers has a least member.
LEMMA NatMin ==
    ASSUME NEW T, T \subseteq Nat, T # {}
    PROVE  \E x \in T : \A y \in T : x <= y
<1>1. \E x \in T : \A y \in T : ~ (<<y, x>> \in OpToRel(<, Nat))
    BY NatLessThanWellFounded, WFMin
<1>2. PICK x \in T : \A y \in T : ~ (<<y, x>> \in OpToRel(<, Nat))
    BY <1>1
<1>3. \A y \in T : ~(y < x)
    BY <1>2 DEF OpToRel
<1> QED
    BY <1>3

\* Ranks are counted from 1, and a later index has a greater one.
LEMMA RankType ==
    ASSUME NEW K, K \subseteq Nat, IsFiniteSet(K), NEW i \in K
    PROVE  Rank(K, i) \in 1 .. Cardinality(K)
<1> DEFINE low == {j \in K : j <= i}
<1>1. IsFiniteSet(low) /\ Cardinality(low) \in Nat /\ Cardinality(low) <= Cardinality(K)
    BY FS_Subset, FS_CardinalityType
<1>2. i \in low
    OBVIOUS
<1>3. Cardinality(low) # 0
    BY <1>1, <1>2, FS_EmptySet
<1>4. Cardinality(K) \in Nat
    BY FS_CardinalityType
<1> QED
    BY <1>1, <1>3, <1>4 DEF Rank

LEMMA RankGrows ==
    ASSUME NEW K, K \subseteq Nat, IsFiniteSet(K), NEW i \in K, NEW j \in K, i < j
    PROVE  Rank(K, i) < Rank(K, j)
<1> DEFINE a == {l \in K : l <= i}
           b == {l \in K : l <= j}
<1>1. a \subseteq b /\ j \in b /\ j \notin a
    <2>1. \A l \in K : l \in Nat
        OBVIOUS
    <2>2. j <= j /\ ~(j <= i) /\ \A l \in K : l <= i => l <= j
        BY <2>1
    <2> QED
        BY <2>2
<1>2. IsFiniteSet(b)
    BY FS_Subset
<1>3. Cardinality(a) <= Cardinality(b) /\ Cardinality(a) # Cardinality(b)
    BY <1>1, <1>2, FS_Subset
<1>4. Cardinality(a) \in Nat /\ Cardinality(b) \in Nat
    BY <1>1, <1>2, FS_Subset, FS_CardinalityType
<1> QED
    BY <1>3, <1>4 DEF Rank

\* Every rank up to the size of the set is the rank of an index.
LEMMA RankReached ==
    ASSUME NEW K, K \subseteq Nat, IsFiniteSet(K)
    PROVE  \A k \in 1 .. Cardinality(K) : \E i \in K : Rank(K, i) = k
<1> DEFINE Missed == {k \in 1 .. Cardinality(K) : ~ \E i \in K : Rank(K, i) = k}
<1>0. Cardinality(K) \in Nat /\ \A j \in K : j \in Nat
    BY FS_CardinalityType
<1> SUFFICES ASSUME Missed # {} PROVE FALSE
    OBVIOUS
<1>1. PICK k \in Missed : \A l \in Missed : k <= l
    <2>1. Missed \subseteq Nat
        BY <1>0
    <2> QED
        BY <2>1, NatMin
<1>2. CASE k = 1
    <2>1. K # {}
        BY <1>0, <1>1, <1>2, FS_EmptySet
    <2>2. PICK m \in K : \A j \in K : m <= j
        BY <2>1, NatMin
    <2>3. {j \in K : j <= m} = {m}
        <3>1. \A j \in K : j <= m <=> j = m
            BY <1>0, <2>2
        <3> QED
            BY <3>1
    <2>4. Rank(K, m) = 1
        BY <2>3, FS_Singleton DEF Rank
    <2> QED
        BY <1>1, <1>2, <2>4
<1>3. CASE k # 1
    <2>1. k - 1 \in 1 .. Cardinality(K) /\ k - 1 \notin Missed
        BY <1>0, <1>1, <1>3
    <2>2. PICK i \in K : Rank(K, i) = k - 1
        BY <2>1
    <2> DEFINE low == {j \in K : j <= i}
               high == {j \in K : j > i}
    <2>3. Cardinality(low) = k - 1
        BY <2>2 DEF Rank
    <2>4. high # {}
        <3> SUFFICES ASSUME high = {} PROVE FALSE
            OBVIOUS
        <3>1. \A j \in K : j <= i
            BY <1>0
        <3>2. low = K
            BY <3>1
        <3> QED
            BY <1>0, <1>1, <2>3, <3>2
    <2>5. PICK m \in high : \A j \in high : m <= j
        <3>1. high \subseteq Nat
            OBVIOUS
        <3> QED
            BY <2>4, <3>1, NatMin
    <2>6. {j \in K : j <= m} = low \cup {m} /\ m \notin low
        <3>1. \A j \in K : j <= m <=> j <= i \/ j = m
            BY <1>0, <2>5
        <3>2. ~(m <= i)
            BY <1>0, <2>5
        <3> QED
            BY <2>5, <3>1, <3>2
    <2>7. IsFiniteSet(low)
        BY FS_Subset
    <2>8. Cardinality({j \in K : j <= m}) = Cardinality(low) + 1
        BY <2>6, <2>7, FS_AddElement
    <2>9. Rank(K, m) = k
        BY <1>0, <1>1, <2>3, <2>8 DEF Rank
    <2> QED
        BY <1>1, <2>5, <2>9
<1> QED
    BY <1>2, <1>3

\* Without keeps the order and the members that are not in T, each where it was once.
LEMMA WithoutFacts ==
    ASSUME NEW S, NEW s \in Seq(S), NEW T
    PROVE  /\ Without(s, T) \in Seq(S)
           /\ \A x : (\E k \in DOMAIN Without(s, T) : Without(s, T)[k] = x)
                        <=> x \notin T /\ \E i \in DOMAIN s : s[i] = x
           /\ (\A i, j \in DOMAIN s : s[i] = s[j] => i = j) =>
                \A k, l \in DOMAIN Without(s, T) : Without(s, T)[k] = Without(s, T)[l] => k = l
<1> DEFINE K == {i \in DOMAIN s : s[i] \notin T}
           n == Cardinality(K)
           at(k) == CHOOSE i \in K : Rank(K, i) = k
           r == [k \in 1 .. n |-> s[at(k)]]
<1>1. K \subseteq Nat /\ K \subseteq 1 .. Len(s) /\ Len(s) \in Nat
    OBVIOUS
<1>2. IsFiniteSet(K) /\ n \in Nat
    <2>1. IsFiniteSet(1 .. Len(s))
        BY <1>1, FS_Interval
    <2>2. IsFiniteSet(K)
        BY <1>1, <2>1, FS_Subset
    <2> QED
        BY <2>2, FS_CardinalityType
<1>3. Without(s, T) = r
    BY DEF Without
<1> HIDE DEF n
<1>4. \A k \in 1 .. n : at(k) \in K /\ Rank(K, at(k)) = k
    <2> SUFFICES ASSUME NEW k \in 1 .. n PROVE at(k) \in K /\ Rank(K, at(k)) = k
        OBVIOUS
    <2>1. \E i \in K : Rank(K, i) = k
        BY <1>1, <1>2, RankReached DEF n
    <2> QED
        BY <2>1
<1>5. \A k \in 1 .. n : s[at(k)] \in S
    <2> SUFFICES ASSUME NEW k \in 1 .. n PROVE s[at(k)] \in S
        OBVIOUS
    <2>1. at(k) \in K
        BY <1>4
    <2> HIDE DEF at
    <2> QED
        BY <1>1, <2>1
<1> HIDE DEF at
<1>6. r \in Seq(S) /\ DOMAIN r = 1 .. n /\ \A k \in 1 .. n : r[k] = s[at(k)]
    <2>1. r \in [1 .. n -> S]
        BY <1>5
    <2> QED
        BY <1>2, <2>1
<1>7. ASSUME NEW k \in 1 .. n, NEW l \in 1 .. n, at(k) = at(l) PROVE k = l
    BY <1>4, <1>7
<1>8. \A i \in K : Rank(K, i) \in 1 .. n
    BY <1>1, <1>2, RankType DEF n
<1>9. \A i \in K : at(Rank(K, i)) = i
    <2> SUFFICES ASSUME NEW i \in K PROVE at(Rank(K, i)) = i
        OBVIOUS
    <2> DEFINE j == at(Rank(K, i))
    <2> USE DEF at
    <2>1. j \in K /\ Rank(K, j) = Rank(K, i)
        BY <1>4, <1>8
    <2> HIDE DEF j, at
    <2>2. ~(i < j) /\ ~(j < i)
        BY <1>1, <1>2, <1>8, <2>1, RankGrows
    <2>3. i = j
        BY <1>1, <2>1, <2>2
    <2> QED
        BY <2>3 DEF j
<1> HIDE DEF K, r
<1>10. ASSUME NEW x PROVE (\E k \in 1 .. n : s[at(k)] = x) <=> \E i \in K : s[i] = x
    BY <1>4, <1>8, <1>9
<1>11. ASSUME \A i, j \in DOMAIN s : s[i] = s[j] => i = j,
              NEW k \in 1 .. n, NEW l \in 1 .. n, s[at(k)] = s[at(l)]
       PROVE  k = l
    <2>1. at(k) \in DOMAIN s /\ at(l) \in DOMAIN s
        BY <1>4 DEF K
    <2> QED
        BY <1>7, <1>11, <2>1
<1>12. \A x : (\E i \in K : s[i] = x) <=> x \notin T /\ \E i \in DOMAIN s : s[i] = x
    BY DEF K
<1>13. \A x : (\E k \in DOMAIN r : r[k] = x) <=> x \notin T /\ \E i \in DOMAIN s : s[i] = x
    <2> SUFFICES ASSUME NEW x
                 PROVE  (\E k \in DOMAIN r : r[k] = x)
                            <=> x \notin T /\ \E i \in DOMAIN s : s[i] = x
        OBVIOUS
    <2>1. (\E k \in DOMAIN r : r[k] = x) <=> \E k \in 1 .. n : s[at(k)] = x
        BY <1>6
    <2> QED
        BY <1>10, <1>12, <2>1
<1>14. (\A i, j \in DOMAIN s : s[i] = s[j] => i = j) =>
            \A k, l \in DOMAIN r : r[k] = r[l] => k = l
    BY <1>6, <1>11
<1> QED
    BY <1>3, <1>6, <1>13, <1>14

-----------------------------------------------------------------------------
(* Queues *)

\* What is in a queue once its head is taken.
LEMMA TailFacts ==
    ASSUME NEW S, NEW s \in Seq(S), s # << >>
    PROVE  /\ Tail(s) \in Seq(S) /\ Len(Tail(s)) = Len(s) - 1 /\ Head(s) \in S
           /\ \A i \in 1 .. Len(Tail(s)) : Tail(s)[i] = s[i + 1]
           /\ Head(s) = s[1] /\ Head(s) \in Range(s)
           /\ Range(s) = Range(Tail(s)) \union {Head(s)}
           /\ IsInjective(s) => IsInjective(Tail(s)) /\ Head(s) \notin Range(Tail(s))
<1> DEFINE r == Tail(s)
           n == Len(s)
<1>1. n \in Nat /\ n > 0 /\ DOMAIN s = 1 .. n
    OBVIOUS
<1>2. r \in Seq(S) /\ Len(r) = n - 1 /\ DOMAIN r = 1 .. n - 1
    OBVIOUS
<1>3. \A i \in 1 .. n - 1 : r[i] = s[i + 1]
    OBVIOUS
<1>4. Head(s) = s[1] /\ 1 \in DOMAIN s /\ Head(s) \in S
    OBVIOUS
<1> HIDE DEF r, n
<1>5. Range(s) = Range(r) \union {Head(s)}
    <2>1. \A i \in DOMAIN r : i + 1 \in DOMAIN s /\ r[i] = s[i + 1]
        BY <1>1, <1>2, <1>3
    <2>2. \A i \in DOMAIN s : i # 1 => i - 1 \in DOMAIN r /\ r[i - 1] = s[i]
        BY <1>1, <1>2, <1>3
    <2>3. \A x \in Range(r) : x \in Range(s)
        BY <2>1 DEF Range
    <2>4. \A x \in Range(s) : x = Head(s) \/ x \in Range(r)
        BY <1>4, <2>2 DEF Range
    <2>5. Head(s) \in Range(s)
        BY <1>4 DEF Range
    <2> QED
        BY <2>3, <2>4, <2>5
<1>6. ASSUME IsInjective(s) PROVE IsInjective(r) /\ Head(s) \notin Range(r)
    <2>1. \A i \in DOMAIN r : i \in Int /\ i + 1 \in DOMAIN s /\ r[i] = s[i + 1] /\ i + 1 # 1
        BY <1>1, <1>2, <1>3
    <2>2. ASSUME NEW i \in DOMAIN r, NEW j \in DOMAIN r, r[i] = r[j] PROVE i = j
        <3>1. i + 1 = j + 1
            BY <1>6, <2>1, <2>2 DEF IsInjective
        <3> QED
            BY <2>1, <3>1
    <2>3. \A i \in DOMAIN r : r[i] # s[1]
        BY <1>4, <1>6, <2>1 DEF IsInjective
    <2> QED
        BY <1>4, <2>2, <2>3 DEF IsInjective, Range
<1> QED
    BY <1>1, <1>2, <1>3, <1>4, <1>5, <1>6 DEF r, n

\* What is in a queue once something is put behind it.
LEMMA AppendFacts ==
    ASSUME NEW S, NEW s \in Seq(S), NEW x \in S
    PROVE  /\ Append(s, x) \in Seq(S) /\ Len(Append(s, x)) = Len(s) + 1
           /\ \A i \in 1 .. Len(s) : Append(s, x)[i] = s[i]
           /\ Append(s, x)[Len(s) + 1] = x
           /\ Range(Append(s, x)) = Range(s) \union {x}
           /\ IsInjective(s) /\ x \notin Range(s) => IsInjective(Append(s, x))
<1> DEFINE r == Append(s, x)
           n == Len(s)
<1>1. n \in Nat /\ DOMAIN s = 1 .. n
    OBVIOUS
<1>2. r \in Seq(S) /\ Len(r) = n + 1 /\ DOMAIN r = 1 .. n + 1
    OBVIOUS
<1>3. (\A i \in 1 .. n : r[i] = s[i]) /\ r[n + 1] = x
    OBVIOUS
<1> HIDE DEF r, n
<1>4. DOMAIN r = DOMAIN s \union {n + 1} /\ n + 1 \notin DOMAIN s
    BY <1>1, <1>2
<1>5. \A i \in DOMAIN s : r[i] = s[i]
    BY <1>1, <1>3
<1>6. Range(r) = Range(s) \union {x}
    BY <1>3, <1>4, <1>5 DEF Range
<1>7. ASSUME IsInjective(s), x \notin Range(s) PROVE IsInjective(r)
    BY <1>3, <1>4, <1>5, <1>7 DEF IsInjective, Range
<1> QED
    BY <1>1, <1>2, <1>3, <1>6, <1>7 DEF r, n

\* A function on the naturals may be defined by iteration.
LEMMA IterationExists ==
    ASSUME NEW S, NEW nx \in [S -> S], NEW a \in S
    PROVE  \E g \in [Nat -> S] : g = [n \in Nat |-> IF n = 0 THEN a ELSE nx[g[n - 1]]]
<1> DEFINE Upto(n, h) == /\ h \in [0 .. n -> S] /\ h[0] = a
                         /\ \A i \in 0 .. n - 1 : h[i + 1] = nx[h[i]]
           Missed == {n \in Nat : ~ \E h : Upto(n, h)}
<1>1. Missed = {}
    <2> SUFFICES ASSUME Missed # {} PROVE FALSE
        OBVIOUS
    <2>1. PICK n \in Missed : \A m \in Missed : n <= m
        BY NatMin
    <2>2. CASE n = 0
        <3>1. PICK h : h = [i \in 0 .. 0 |-> a]
            OBVIOUS
        <3>2. h \in [0 .. 0 -> S] /\ h[0] = a /\ 0 .. 0 - 1 = {}
            BY <3>1
        <3>3. Upto(0, h)
            BY <3>2
        <3> QED
            BY <2>1, <2>2, <3>3
    <2>3. CASE n # 0
        <3>1. n \in Nat /\ n - 1 \in Nat /\ n - 1 \notin Missed
            <4>1. n \in Nat /\ n - 1 \in Nat /\ n - 1 < n
                BY <2>1, <2>3
            <4>2. ~(n <= n - 1)
                BY <4>1
            <4> HIDE DEF Missed
            <4> QED
                BY <2>1, <4>1, <4>2
        <3>2. PICK h : Upto(n - 1, h)
            BY <3>1
        <3>3. PICK g : g = [i \in 0 .. n |-> IF i = n THEN nx[h[n - 1]] ELSE h[i]]
            OBVIOUS
        <3>4. \A i \in 0 .. n - 1 : g[i] = h[i] /\ h[i] \in S
            BY <3>1, <3>2, <3>3
        <3>5. g[n] = nx[h[n - 1]] /\ h[n - 1] \in S
            BY <3>1, <3>2, <3>3
        <3>6. g \in [0 .. n -> S]
            <4>1. g = [i \in 0 .. n |-> g[i]]
                BY <3>3
            <4>2. \A i \in 0 .. n : i = n \/ i \in 0 .. n - 1
                BY <3>1
            <4>3. \A i \in 0 .. n : g[i] \in S
                BY <3>4, <3>5, <4>2
            <4> QED
                BY <4>1, <4>3
        <3>7. g[0] = a
            BY <3>1, <3>2, <3>4
        <3>8. ASSUME NEW i \in 0 .. n - 1 PROVE g[i + 1] = nx[g[i]]
            <4>1. CASE i = n - 1
                BY <3>1, <3>4, <3>5, <4>1
            <4>2. CASE i # n - 1
                <5>1. i \in 0 .. n - 1 - 1 /\ i + 1 \in 0 .. n - 1
                    BY <3>1, <4>2
                <5>2. h[i + 1] = nx[h[i]]
                    BY <3>2, <5>1
                <5> QED
                    BY <3>4, <5>1, <5>2
            <4> QED
                BY <4>1, <4>2
        <3>9. Upto(n, g)
            BY <3>6, <3>7, <3>8
        <3> QED
            BY <2>1, <3>9
    <2> QED
        BY <2>2, <2>3
<1>2. \A n \in Nat : \E h : Upto(n, h)
    BY <1>1
<1>3. ASSUME NEW n \in Nat, NEW m \in Nat, n <= m, NEW h, Upto(n, h), NEW k, Upto(m, k)
      PROVE  \A i \in 0 .. n : h[i] = k[i]
    <2> DEFINE Off == {i \in 0 .. n : h[i] # k[i]}
    <2> SUFFICES ASSUME Off # {} PROVE FALSE
        OBVIOUS
    <2>1. Off \subseteq Nat
        OBVIOUS
    <2>2. PICK i \in Off : \A j \in Off : i <= j
        BY <2>1, NatMin
    <2>3. i # 0
        BY <1>3, <2>2
    <2>4. i - 1 \in 0 .. n - 1 /\ i - 1 \in 0 .. m - 1 /\ i - 1 \notin Off /\ i - 1 \in 0 .. n /\ i - 1 + 1 = i
        BY <1>3, <2>2, <2>3
    <2>5. h[i - 1 + 1] = nx[h[i - 1]] /\ k[i - 1 + 1] = nx[k[i - 1]]
        BY <1>3, <2>4
    <2> QED
        BY <2>2, <2>4, <2>5
<1> DEFINE way(n) == CHOOSE h : Upto(n, h)
           g == [n \in Nat |-> way(n)[n]]
<1>4. \A n \in Nat : Upto(n, way(n))
    BY <1>2
<1>5. \A n \in Nat : g[n] = way(n)[n] /\ way(n)[n] \in S
    <2> SUFFICES ASSUME NEW n \in Nat PROVE g[n] = way(n)[n] /\ way(n)[n] \in S
        OBVIOUS
    <2>1. way(n) \in [0 .. n -> S] /\ n \in 0 .. n
        BY <1>4
    <2> QED
        BY <2>1
<1>6. g \in [Nat -> S]
    BY <1>5
<1>7. ASSUME NEW n \in Nat PROVE g[n] = IF n = 0 THEN a ELSE nx[g[n - 1]]
    <2>1. CASE n = 0
        BY <1>4, <1>5, <2>1
    <2>2. CASE n # 0
        <3>1. n - 1 \in Nat /\ n - 1 <= n /\ n - 1 \in 0 .. n - 1 /\ n - 1 + 1 = n
            BY <2>2
        <3>2. way(n)[n - 1] = way(n - 1)[n - 1]
            <4>1. PICK h : h = way(n - 1)
                OBVIOUS
            <4>2. PICK k : k = way(n)
                OBVIOUS
            <4>3. Upto(n - 1, h) /\ Upto(n, k)
                BY <1>4, <3>1, <4>1, <4>2
            <4>4. PICK m : m = n - 1
                OBVIOUS
            <4> HIDE DEF Upto
            <4>5. m \in Nat /\ m <= n /\ Upto(m, h)
                BY <3>1, <4>3, <4>4
            <4>6. \A i \in 0 .. m : h[i] = k[i]
                BY <1>3, <4>3, <4>5
            <4> QED
                BY <3>1, <4>1, <4>2, <4>4, <4>6
        <3>3. way(n)[n - 1 + 1] = nx[way(n)[n - 1]]
            BY <1>4, <3>1
        <3> QED
            BY <1>5, <2>2, <3>1, <3>2, <3>3
    <2> QED
        BY <2>1, <2>2
<1> HIDE DEF g
<1>8. g = [n \in Nat |-> g[n]]
    BY <1>6
<1>9. g = [n \in Nat |-> IF n = 0 THEN a ELSE nx[g[n - 1]]]
    BY <1>7, <1>8
<1> QED
    BY <1>6, <1>9

\* A sequence without repetitions has as many members as places.
LEMMA RangeCardinality ==
    ASSUME NEW S, NEW s \in Seq(S), IsInjective(s)
    PROVE  IsFiniteSet(Range(s)) /\ Cardinality(Range(s)) = Len(s)
<1>1. s \in [1 .. Len(s) -> Range(s)] /\ \A x \in Range(s) : \E i \in 1 .. Len(s) : s[i] = x
    BY DEF Range
<1>2. s \in Bijection(1 .. Len(s), Range(s))
    BY <1>1 DEF Bijection, Injection, Surjection
<1>3. IsFiniteSet(1 .. Len(s)) /\ Cardinality(1 .. Len(s)) = Len(s)
    <2>1. Len(s) \in Nat
        OBVIOUS
    <2> QED
        BY <2>1, FS_Interval
<1> QED
    BY <1>2, <1>3, FS_Bijection DEF ExistsBijection

\* Sets that share nothing add up.
LEMMA DisjointUnion ==
    ASSUME NEW A, NEW B, IsFiniteSet(A), IsFiniteSet(B), A \cap B = {}
    PROVE  IsFiniteSet(A \cup B) /\ Cardinality(A \cup B) = Cardinality(A) + Cardinality(B)
<1>1. Cardinality(A) \in Nat /\ Cardinality(B) \in Nat
    BY FS_CardinalityType
<1>2. Cardinality(A \cap B) = 0
    BY FS_EmptySet
<1>3. IsFiniteSet(A \cup B) /\ Cardinality(A \cup B) = Cardinality(A) + Cardinality(B) - Cardinality(A \cap B)
    BY FS_Union
<1> QED
    BY <1>1, <1>2, <1>3

=============================================================================

----------------------------- MODULE PickProofs -----------------------------
(***************************************************************************)
(* Proofs that the time an aggregate shows stands for its measurements,    *)
(* however many they are: sorting by counting puts each in one place, and  *)
(* what stands in the middle, and nine tenths up, follows from counting    *)
(* what is on either side of it.                                           *)
(***************************************************************************)
EXTENDS AggregationProofs, FiniteSetTheorems

-----------------------------------------------------------------------------
(* Sorting                                                                 *)

\* The measurements up to the i-th, in the order of the sort
UpToPlace(ms, i) == {j \in DOMAIN ms : ms[j] < ms[i] \/ (ms[j] = ms[i] /\ j <= i)}

LEMMA PlaceOf ==
    ASSUME NEW n \in Nat, NEW ms \in [1..n -> Int], NEW i \in 1..n
    PROVE  /\ UpToPlace(ms, i) \subseteq 1..n /\ i \in UpToPlace(ms, i)
           /\ IsFiniteSet(UpToPlace(ms, i))
           /\ Place(ms, i) = Cardinality(UpToPlace(ms, i))
           /\ Place(ms, i) \in 1..n
<1> DEFINE S == UpToPlace(ms, i)
<1>1. S \subseteq 1..n /\ i \in S
    BY DEF UpToPlace
<1>2. Place(ms, i) = Cardinality(S)
    BY DEF Place, UpToPlace
<1> HIDE DEF S
<1>3. IsFiniteSet(1..n) /\ Cardinality(1..n) = n
    BY FS_Interval
<1>4. IsFiniteSet(S) /\ Cardinality(S) <= n
    <2>1. S \in SUBSET (1..n)
        BY <1>1
    <2>2. IsFiniteSet(S) /\ Cardinality(S) <= Cardinality(1..n)
        BY <1>3, <2>1, FS_Subset
    <2> QED
        BY <1>3, <2>2
<1>5. Cardinality(S) \in Nat /\ Cardinality(S) # 0
    BY <1>1, <1>4, FS_CardinalityType, FS_EmptySet
<1> QED
    BY <1>1, <1>2, <1>4, <1>5 DEF S

\* No two measurements have the same place.
LEMMA PlacesDiffer ==
    ASSUME NEW n \in Nat, NEW ms \in [1..n -> Int], NEW i \in 1..n, NEW h \in 1..n,
           ms[i] < ms[h] \/ (ms[i] = ms[h] /\ i < h)
    PROVE  Place(ms, i) # Place(ms, h)
<1>1. UpToPlace(ms, i) \subseteq UpToPlace(ms, h)
    BY DEF UpToPlace
<1>2. h \in UpToPlace(ms, h) /\ h \notin UpToPlace(ms, i)
    BY DEF UpToPlace
<1>3. IsFiniteSet(UpToPlace(ms, h))
    BY PlaceOf
<1>4. Cardinality(UpToPlace(ms, h)) # Cardinality(UpToPlace(ms, i))
    BY <1>1, <1>2, <1>3, FS_Subset
<1> QED
    BY <1>4, PlaceOf

\* Each place is taken.
LEMMA PlacesTaken ==
    ASSUME NEW n \in Nat, NEW ms \in [1..n -> Int], NEW k \in 1..n
    PROVE  \E i \in 1..n : Place(ms, i) = k
<1> DEFINE f == [i \in 1..n |-> Place(ms, i)]
<1>1. f \in [1..n -> 1..n]
    BY PlaceOf
<1>2. \A i, h \in 1..n : i # h => f[i] # f[h]
    <2> SUFFICES ASSUME NEW i \in 1..n, NEW h \in 1..n, i # h
                 PROVE  Place(ms, i) # Place(ms, h)
        OBVIOUS
    <2>1. ms[i] \in Int /\ ms[h] \in Int
        OBVIOUS
    <2>2. CASE ms[i] < ms[h] \/ (ms[i] = ms[h] /\ i < h)
        BY <2>2, PlacesDiffer
    <2>3. CASE ms[h] < ms[i] \/ (ms[h] = ms[i] /\ h < i)
        BY <2>3, PlacesDiffer
    <2> QED
        BY <2>1, <2>2, <2>3
<1> HIDE DEF f
<1>3. f \in Injection(1..n, 1..n)
    BY <1>1, <1>2 DEF Injection, IsInjective
<1>4. IsFiniteSet(1..n)
    BY FS_Interval
<1>5. f \in Surjection(1..n, 1..n)
    BY <1>3, <1>4, FS_Injection
<1>6. \E i \in 1..n : f[i] = k
    BY <1>5 DEF Surjection
<1> QED
    BY <1>6 DEF f

\* What has v at most, and at least
AtMost(ms, n, v) == {i \in 1..n : ms[i] <= v}
AtLeast(ms, n, v) == {i \in 1..n : ms[i] >= v}

LEMMA CountsAre ==
    ASSUME NEW n \in Nat, NEW ms \in [1..n -> Int], NEW v \in Int
    PROVE  /\ Cardinality(AtMost(ms, n, v)) \in Nat
           /\ Cardinality(AtLeast(ms, n, v)) \in Nat
           /\ \A S \in SUBSET AtMost(ms, n, v) :
                  Cardinality(S) <= Cardinality(AtMost(ms, n, v))
           /\ \A S \in SUBSET AtLeast(ms, n, v) :
                  Cardinality(S) <= Cardinality(AtLeast(ms, n, v))
           /\ (\A i \in 1..n : ms[i] <= v) => Cardinality(AtMost(ms, n, v)) = n
           /\ (\A i \in 1..n : ms[i] >= v) => Cardinality(AtLeast(ms, n, v)) = n
<1>1. IsFiniteSet(1..n) /\ Cardinality(1..n) = n
    BY FS_Interval
<1>2. AtMost(ms, n, v) \subseteq 1..n /\ AtLeast(ms, n, v) \subseteq 1..n
    BY DEF AtMost, AtLeast
<1>3. IsFiniteSet(AtMost(ms, n, v)) /\ IsFiniteSet(AtLeast(ms, n, v))
    BY <1>1, <1>2, FS_Subset
<1>4. /\ (\A i \in 1..n : ms[i] <= v) => AtMost(ms, n, v) = 1..n
      /\ (\A i \in 1..n : ms[i] >= v) => AtLeast(ms, n, v) = 1..n
    BY DEF AtMost, AtLeast
<1> QED
    BY <1>1, <1>3, <1>4, FS_Subset, FS_CardinalityType

\* In the k-th place of the sorted measurements is one of them; k are not more,
\* and all but k - 1 not less.
LEMMA SortedIs ==
    ASSUME NEW n \in Nat, NEW ms \in [1..n -> Int], NEW k \in 1..n
    PROVE  \E i \in 1..n :
               /\ Sorted(ms)[k] = ms[i]
               /\ Cardinality(AtMost(ms, n, ms[i])) >= k
               /\ Cardinality(AtLeast(ms, n, ms[i])) >= (n - k) + 1
<1>1. PICK i \in 1..n : Place(ms, i) = k /\ Sorted(ms)[k] = ms[i]
    <2>1. \E i \in 1..n : Place(ms, i) = k
        BY PlacesTaken
    <2>2. Sorted(ms)[k] = ms[CHOOSE i \in 1..n : Place(ms, i) = k]
        BY DEF Sorted
    <2> QED
        BY <2>1, <2>2
<1> DEFINE S == UpToPlace(ms, i)
           rest == (1..n) \ (S \ {i})
<1>2. S \subseteq 1..n /\ i \in S /\ IsFiniteSet(S) /\ Cardinality(S) = k
    BY <1>1, PlaceOf
<1>3. S \subseteq AtMost(ms, n, ms[i])
    BY DEF UpToPlace, AtMost
<1>4. rest \subseteq AtLeast(ms, n, ms[i])
    BY DEF UpToPlace, AtLeast
<1> HIDE DEF S
<1>5. Cardinality(rest) = (n - k) + 1
    <2>1. IsFiniteSet(S \ {i}) /\ Cardinality(S \ {i}) = k - 1
        BY <1>2, FS_RemoveElement
    <2>2. (1..n) \cap (S \ {i}) = S \ {i}
        BY <1>2
    <2>3. IsFiniteSet(1..n) /\ Cardinality(1..n) = n
        BY FS_Interval
    <2>4. Cardinality(rest) = Cardinality(1..n) - Cardinality((1..n) \cap (S \ {i}))
        BY <2>3, FS_Difference
    <2>5. Cardinality(rest) = Cardinality(1..n) - Cardinality(S \ {i})
        BY <2>2, <2>4
    <2> HIDE DEF rest
    <2> QED
        BY <2>1, <2>3, <2>5
<1> HIDE DEF rest
<1>6. Cardinality(AtMost(ms, n, ms[i])) >= k
    BY <1>2, <1>3, CountsAre
<1>7. Cardinality(AtLeast(ms, n, ms[i])) >= (n - k) + 1
    <2>1. rest \in SUBSET AtLeast(ms, n, ms[i]) /\ ms[i] \in Int
        BY <1>4
    <2>2. Cardinality(rest) <= Cardinality(AtLeast(ms, n, ms[i]))
        BY <2>1, CountsAre
    <2> QED
        BY <1>5, <2>2
<1> QED
    BY <1>1, <1>6, <1>7

-----------------------------------------------------------------------------
(* Sums                                                                    *)

\* FoldSeq takes the elements of a sequence one by one, in no particular order:
\* f gives the sum over each of the sets of indexes T.
One(t) == CHOOSE x \in t : TRUE
Sums(f, ms, T) ==
    f = [t \in T |-> IF t = {} THEN 0 ELSE ms[One(t)] + f[t \ {One(t)}]]
UpToSize(n, m) == {t \in SUBSET (1..n) : Cardinality(t) <= m}

LEMMA SizesAre ==
    ASSUME NEW n \in Nat, NEW m \in Nat, NEW t \in UpToSize(n, m), t # {}
    PROVE  One(t) \in 1..n /\ m # 0 /\ t \ {One(t)} \in UpToSize(n, m - 1)
<1>1. t \subseteq 1..n /\ Cardinality(t) <= m
    BY DEF UpToSize
<1>2. One(t) \in t
    BY DEF One
<1>3. IsFiniteSet(t)
    <2>1. IsFiniteSet(1..n) /\ t \in SUBSET (1..n)
        BY <1>1, FS_Interval
    <2> QED
        BY <2>1, FS_Subset
<1>4. Cardinality(t) \in Nat /\ Cardinality(t) # 0
    BY <1>3, FS_CardinalityType, FS_EmptySet
<1>5. Cardinality(t \ {One(t)}) = Cardinality(t) - 1
    BY <1>2, <1>3, FS_RemoveElement
<1>6. Cardinality(t \ {One(t)}) <= m - 1
    BY <1>1, <1>4, <1>5
<1>7. One(t) \in 1..n /\ m # 0
    <2>1. One(t) \in 1..n
        BY <1>1, <1>2
    <2>2. m # 0
        BY <1>1, <1>4
    <2> QED
        BY <2>1, <2>2
<1>8. t \ {One(t)} \in UpToSize(n, m - 1)
    BY <1>1, <1>6 DEF UpToSize
<1> QED
    BY <1>7, <1>8

LEMMA SumsExist ==
    ASSUME NEW n \in Nat, NEW ms \in [1..n -> Int]
    PROVE  \A m \in Nat : \E f \in [UpToSize(n, m) -> Int] : Sums(f, ms, UpToSize(n, m))
<1> DEFINE Fine(m) == \E f \in [UpToSize(n, m) -> Int] : Sums(f, ms, UpToSize(n, m))
           T == {m \in Nat : ~Fine(m)}
<1> SUFFICES ASSUME T # {}
             PROVE  FALSE
    OBVIOUS
<1>1. PICK m \in T : \A y \in T : m <= y
    <2> T \in SUBSET Nat
        OBVIOUS
    <2> HIDE DEF T
    <2> QED
        BY Least
<1>2. m \in Nat /\ ~Fine(m) /\ \A y \in Nat : y < m => Fine(y)
    BY <1>1
<1> HIDE DEF T
<1>3. CASE m = 0
    <2> DEFINE f == [t \in UpToSize(n, 0) |-> 0]
    <2>1. \A t \in UpToSize(n, 0) : t = {}
        BY SizesAre
    <2>2. f = [t \in UpToSize(n, 0) |-> IF t = {} THEN 0 ELSE ms[One(t)] + f[t \ {One(t)}]]
        BY <2>1
    <2>3. f \in [UpToSize(n, 0) -> Int]
        OBVIOUS
    <2> HIDE DEF f
    <2>4. Sums(f, ms, UpToSize(n, 0))
        BY <2>2 DEF Sums
    <2> QED
        BY <1>2, <1>3, <2>3, <2>4
<1>4. CASE m # 0
    <2>1. m - 1 \in Nat /\ Fine(m - 1)
        BY <1>2, <1>4
    <2>2. PICK g \in [UpToSize(n, m - 1) -> Int] : Sums(g, ms, UpToSize(n, m - 1))
        BY <2>1
    <2> DEFINE f == [t \in UpToSize(n, m) |-> IF t = {} THEN 0 ELSE ms[One(t)] + g[t \ {One(t)}]]
    <2>3. f \in [UpToSize(n, m) -> Int]
        <3>1. ASSUME NEW t \in UpToSize(n, m), t # {}
              PROVE  ms[One(t)] + g[t \ {One(t)}] \in Int
            <4>1. One(t) \in 1..n /\ t \ {One(t)} \in UpToSize(n, m - 1)
                BY <1>2, <3>1, SizesAre
            <4>2. ms[One(t)] \in Int /\ g[t \ {One(t)}] \in Int
                BY <4>1
            <4> QED
                BY <4>2
        <3> QED
            BY <3>1
    <2>4. \A t \in UpToSize(n, m - 1) : t \in UpToSize(n, m) /\ f[t] = g[t]
        <3> SUFFICES ASSUME NEW t \in UpToSize(n, m - 1)
                     PROVE  t \in UpToSize(n, m) /\ f[t] = g[t]
            OBVIOUS
        <3>1. t \in UpToSize(n, m)
            <4>1. t \subseteq 1..n /\ Cardinality(t) <= m - 1
                BY DEF UpToSize
            <4>2. IsFiniteSet(1..n) /\ t \in SUBSET (1..n)
                BY <4>1, FS_Interval
            <4>3. Cardinality(t) \in Nat
                BY <4>2, FS_Subset, FS_CardinalityType
            <4> QED
                BY <1>2, <4>1, <4>3 DEF UpToSize
        <3>2. g[t] = IF t = {} THEN 0 ELSE ms[One(t)] + g[t \ {One(t)}]
            BY <2>2 DEF Sums
        <3> QED
            BY <3>1, <3>2
    <2>5. ASSUME NEW t \in UpToSize(n, m), t # {}
          PROVE  f[t \ {One(t)}] = g[t \ {One(t)}]
        BY <1>2, <2>4, <2>5, SizesAre
    <2>6. f = [t \in UpToSize(n, m) |-> IF t = {} THEN 0 ELSE ms[One(t)] + f[t \ {One(t)}]]
        <3> DEFINE h == [t \in UpToSize(n, m) |->
                             IF t = {} THEN 0 ELSE ms[One(t)] + f[t \ {One(t)}]]
        <3>1. \A t \in UpToSize(n, m) : f[t] = h[t]
            BY <2>5
        <3> QED
            BY <3>1
    <2> HIDE DEF f
    <2>7. Sums(f, ms, UpToSize(n, m))
        BY <2>6 DEF Sums
    <2> QED
        BY <1>2, <2>3, <2>7
<1> QED
    BY <1>3, <1>4

LEMMA SumType ==
    ASSUME NEW n \in Nat, NEW ms \in [1..n -> Int]
    PROVE  FoldSeq(+, 0, ms) \in Int
<1>1. UpToSize(n, n) = SUBSET (1..n)
    <2>1. ASSUME NEW t \in SUBSET (1..n)
          PROVE  Cardinality(t) <= n
        <3>1. IsFiniteSet(1..n) /\ Cardinality(1..n) = n
            BY FS_Interval
        <3>2. Cardinality(t) <= Cardinality(1..n)
            BY <3>1, FS_Subset
        <3> QED
            BY <3>1, <3>2
    <2> QED
        BY <2>1 DEF UpToSize
<1>2. FoldSeq(+, 0, ms) = (CHOOSE f : Sums(f, ms, SUBSET (1..n)))[1..n]
    BY DEF FoldSeq, FoldFunction, FoldFunctionOnSet, MapThenFoldSet, Sums, One
<1>3. \E f : Sums(f, ms, SUBSET (1..n))
    <2>1. \E f \in [UpToSize(n, n) -> Int] : Sums(f, ms, UpToSize(n, n))
        BY SumsExist
    <2>2. PICK f : Sums(f, ms, UpToSize(n, n))
        BY <2>1
    <2> QED
        BY <1>1, <2>2
<1>4. PICK f : Sums(f, ms, SUBSET (1..n)) /\ FoldSeq(+, 0, ms) = f[1..n]
    BY <1>2, <1>3
<1> DEFINE T == {m \in Nat : \E t \in UpToSize(n, m) : f[t] \notin Int}
<1>5. ASSUME T # {}
      PROVE  FALSE
    <2>1. PICK m \in T : \A y \in T : m <= y
        <3> T \in SUBSET Nat
            OBVIOUS
        <3> HIDE DEF T
        <3> QED
            BY <1>5, Least
    <2>2. PICK t \in UpToSize(n, m) : m \in Nat /\ f[t] \notin Int
        BY <2>1
    <2>3. \A y \in Nat : y < m => \A s \in UpToSize(n, y) : f[s] \in Int
        BY <2>1
    <2> HIDE DEF T
    <2>4. f[t] = IF t = {} THEN 0 ELSE ms[One(t)] + f[t \ {One(t)}]
        <3>1. t \in SUBSET (1..n)
            BY <2>2 DEF UpToSize
        <3> QED
            BY <1>4, <3>1 DEF Sums
    <2>5. CASE t = {}
        BY <2>2, <2>4, <2>5
    <2>6. CASE t # {}
        <3>1. One(t) \in 1..n /\ m # 0 /\ t \ {One(t)} \in UpToSize(n, m - 1)
            BY <2>2, <2>6, SizesAre
        <3>2. f[t \ {One(t)}] \in Int
            BY <2>2, <2>3, <3>1
        <3>3. ms[One(t)] \in Int
            BY <3>1
        <3> QED
            BY <2>2, <2>4, <2>6, <3>2, <3>3
    <2> QED
        BY <2>5, <2>6
<1>6. 1..n \in UpToSize(n, n)
    BY <1>1
<1> QED
    BY <1>4, <1>5, <1>6

-----------------------------------------------------------------------------
(* What an aggregate shows                                                 *)

\* Division towards zero loses less than one.
LEMMA QuotientIs ==
    ASSUME NEW a \in Int, NEW n \in Nat \ {0}
    PROVE  Quotient(a, n) \in Int /\ n * Quotient(a, n) - a \in (1 - n)..(n - 1)
<1>1. ASSUME NEW b \in Nat
      PROVE  b \div n \in Nat /\ n * (b \div n) <= b /\ b - n * (b \div n) < n
    OBVIOUS
<1>2. CASE a >= 0
    <2>1. a \in Nat /\ Quotient(a, n) = a \div n
        BY <1>2 DEF Quotient
    <2> QED
        BY <1>1, <2>1
<1>3. CASE a < 0
    <2> DEFINE d == (-a) \div n
    <2>1. -a \in Nat /\ Quotient(a, n) = -d
        BY <1>3 DEF Quotient
    <2>2. d \in Nat /\ n * d <= -a /\ (-a) - n * d < n
        BY <1>1, <2>1
    <2> HIDE DEF d
    <2>3. n * (-d) = -(n * d)
        BY <2>2
    <2> QED
        BY <2>1, <2>2, <2>3
<1> QED
    BY <1>2, <1>3

\* v is in range and has at least so many on either side
Between(ms, n, v, k) ==
    \E i \in 1..n : /\ v = ms[i]
                    /\ Cardinality(AtMost(ms, n, v)) >= k
                    /\ Cardinality(AtLeast(ms, n, v)) >= (n - k) + 1

LEMMA BetweenIs ==
    ASSUME NEW n \in Nat \ {0}, NEW ms \in [1..n -> Int], NEW v, NEW k \in 1..n,
           Between(ms, n, v, k)
    PROVE  /\ v \in Range(ms) /\ v \in Int
           /\ Cardinality({i \in 1..n : ms[i] <= v}) \in Nat
           /\ Cardinality({i \in 1..n : ms[i] >= v}) \in Nat
           /\ Cardinality({i \in 1..n : ms[i] <= v}) >= k
           /\ Cardinality({i \in 1..n : ms[i] >= v}) >= (n - k) + 1
<1>1. PICK i \in 1..n : /\ v = ms[i]
                        /\ Cardinality(AtMost(ms, n, v)) >= k
                        /\ Cardinality(AtLeast(ms, n, v)) >= (n - k) + 1
    BY DEF Between
<1>2. v \in Range(ms) /\ v \in Int
    BY <1>1 DEF Range
<1>3. Cardinality(AtMost(ms, n, v)) \in Nat /\ Cardinality(AtLeast(ms, n, v)) \in Nat
    BY <1>2, CountsAre
<1> QED
    BY <1>1, <1>2, <1>3 DEF AtMost, AtLeast

\* The least of the measurements, and the greatest: a sorted sequence begins with
\* the one, and ends with the other.
LEMMA Extremes ==
    ASSUME NEW n \in Nat \ {0}, NEW ms \in [1..n -> Int]
    PROVE  /\ Min(Range(ms)) \in Range(ms) /\ \A i \in 1..n : ms[i] >= Min(Range(ms))
           /\ Max(Range(ms)) \in Range(ms) /\ \A i \in 1..n : ms[i] <= Max(Range(ms))
<1>1. Range(ms) = {ms[i] : i \in 1..n}
    BY DEF Range
<1>2. IsFiniteSet(1..n) /\ Cardinality(1..n) = n
    BY FS_Interval
<1>0. n \in Nat /\ 1 \in 1..n /\ n \in 1..n
    OBVIOUS
<1>3. \E x \in Range(ms) : \A y \in Range(ms) : x <= y
    <2>1. PICK h \in 1..n : Cardinality(AtLeast(ms, n, ms[h])) >= (n - 1) + 1
        BY <1>0, SortedIs
    <2>2. AtLeast(ms, n, ms[h]) \in SUBSET (1..n)
        BY DEF AtLeast
    <2>3. /\ Cardinality(AtLeast(ms, n, ms[h])) \in Nat
          /\ Cardinality(AtLeast(ms, n, ms[h])) <= Cardinality(1..n)
        BY <1>2, <2>2, CountsAre, FS_Subset
    <2>4. Cardinality(AtLeast(ms, n, ms[h])) = Cardinality(1..n)
        BY <1>2, <2>1, <2>3
    <2>5. AtLeast(ms, n, ms[h]) = 1..n
        BY <1>2, <2>2, <2>4, FS_Subset
    <2>6. \A i \in 1..n : ms[h] <= ms[i]
        BY <2>5 DEF AtLeast
    <2> QED
        BY <1>1, <2>6
<1>4. \E x \in Range(ms) : \A y \in Range(ms) : x >= y
    <2>1. PICK h \in 1..n : Cardinality(AtMost(ms, n, ms[h])) >= n
        BY <1>0, SortedIs
    <2>2. AtMost(ms, n, ms[h]) \in SUBSET (1..n)
        BY DEF AtMost
    <2>3. /\ Cardinality(AtMost(ms, n, ms[h])) \in Nat
          /\ Cardinality(AtMost(ms, n, ms[h])) <= Cardinality(1..n)
        BY <1>2, <2>2, CountsAre, FS_Subset
    <2>4. Cardinality(AtMost(ms, n, ms[h])) = Cardinality(1..n)
        BY <1>2, <2>1, <2>3
    <2>5. AtMost(ms, n, ms[h]) = 1..n
        BY <1>2, <2>2, <2>4, FS_Subset
    <2>6. \A i \in 1..n : ms[h] >= ms[i]
        BY <2>5 DEF AtMost
    <2> QED
        BY <1>1, <2>6
<1>5. /\ Min(Range(ms)) \in Range(ms) /\ \A y \in Range(ms) : Min(Range(ms)) <= y
      /\ Max(Range(ms)) \in Range(ms) /\ \A y \in Range(ms) : Max(Range(ms)) >= y
    BY <1>3, <1>4 DEF Min, Max
<1> QED
    BY <1>1, <1>5

\* What is picked stands for the measurements, of which there may be any number,
\* of any value: the mean is off by less than one, half of them are on either side
\* of the median, nine tenths up to the percentile (the match on AggregateType in
\* Handler<PeerDataArray>).
THEOREM PickRepresents ==
    ASSUME NEW n \in Nat \ {0}, NEW ms \in [1..n -> Int], NEW type \in AggregateType
    PROVE  Represents(type, Pick(type, ms), ms)
<1>1. Len(ms) = n /\ n \in Nat
    OBVIOUS
<1> DEFINE v == Pick(type, ms)
<1>2. CASE type = "mean"
    <2>1. v = Quotient(FoldSeq(+, 0, ms), n)
        BY <1>1, <1>2 DEF Pick
    <2>2. n * v - FoldSeq(+, 0, ms) \in (1 - n)..(n - 1)
        BY <2>1, SumType, QuotientIs
    <2> QED
        BY <1>1, <1>2, <2>2 DEF Represents
<1>3. CASE type = "median"
    <2> DEFINE k == n \div 2 + 1
    <2>1. k \in 1..n /\ 2 * k >= n /\ 2 * ((n - k) + 1) >= n
        OBVIOUS
    <2>2. v = Sorted(ms)[k]
        BY <1>1, <1>3 DEF Pick
    <2> HIDE DEF k, v
    <2>3. Between(ms, n, v, k)
        BY <2>1, <2>2, SortedIs DEF Between
    <2>4. /\ v \in Range(ms)
          /\ 2 * Cardinality({i \in 1..n : ms[i] <= v}) >= n
          /\ 2 * Cardinality({i \in 1..n : ms[i] >= v}) >= n
        <3>1. v \in Range(ms)
            BY <2>1, <2>3, BetweenIs
        <3>2. PICK a \in Nat, b \in Nat : /\ a = Cardinality({i \in 1..n : ms[i] <= v}) /\ a >= k
                                          /\ b = Cardinality({i \in 1..n : ms[i] >= v})
                                          /\ b >= (n - k) + 1
            BY <2>1, <2>3, BetweenIs
        <3>3. 2 * a >= n /\ 2 * b >= n
            BY <2>1, <3>2
        <3> QED
            BY <3>1, <3>2, <3>3
    <2>5. Represents(type, v, ms)
        BY <1>1, <1>3, <2>4 DEF Represents
    <2> QED
        BY <2>5 DEF v
<1>4. CASE type = "percentile90"
    <2> DEFINE k == (9 * n) \div 10 + 1
    <2>1. k \in 1..n /\ 10 * k >= 9 * n /\ 10 * ((n - k) + 1) >= n
        OBVIOUS
    <2>2. v = Sorted(ms)[k]
        BY <1>1, <1>4 DEF Pick
    <2> HIDE DEF k, v
    <2>3. Between(ms, n, v, k)
        BY <2>1, <2>2, SortedIs DEF Between
    <2>4. /\ v \in Range(ms)
          /\ 10 * Cardinality({i \in 1..n : ms[i] <= v}) >= 9 * n
          /\ 10 * Cardinality({i \in 1..n : ms[i] >= v}) >= n
        <3>1. v \in Range(ms)
            BY <2>1, <2>3, BetweenIs
        <3>2. PICK a \in Nat, b \in Nat : /\ a = Cardinality({i \in 1..n : ms[i] <= v}) /\ a >= k
                                          /\ b = Cardinality({i \in 1..n : ms[i] >= v})
                                          /\ b >= (n - k) + 1
            BY <2>1, <2>3, BetweenIs
        <3>3. 10 * a >= 9 * n /\ 10 * b >= n
            BY <2>1, <3>2
        <3> QED
            BY <3>1, <3>2, <3>3
    <2>5. Represents(type, v, ms)
        BY <1>1, <1>4, <2>4 DEF Represents
    <2> QED
        BY <2>5 DEF v
<1>5. CASE type = "min"
    <2>1. v = Min(Range(ms))
        BY <1>5 DEF Pick
    <2>2. v \in Range(ms) /\ v \in Int /\ \A i \in 1..n : ms[i] >= v
        BY <2>1, Extremes DEF Range
    <2> HIDE DEF v
    <2>3. Cardinality({i \in 1..n : ms[i] >= v}) = n
        <3>1. Cardinality(AtLeast(ms, n, v)) = n
            BY <1>1, <2>2, CountsAre
        <3> QED
            BY <3>1 DEF AtLeast
    <2>4. Represents(type, v, ms)
        BY <1>1, <1>5, <2>2, <2>3 DEF Represents
    <2> QED
        BY <2>4 DEF v
<1>6. CASE type = "max"
    <2>1. v = Max(Range(ms))
        BY <1>6 DEF Pick
    <2>2. v \in Range(ms) /\ v \in Int /\ \A i \in 1..n : ms[i] <= v
        BY <2>1, Extremes DEF Range
    <2> HIDE DEF v
    <2>3. Cardinality({i \in 1..n : ms[i] <= v}) = n
        <3>1. Cardinality(AtMost(ms, n, v)) = n
            BY <1>1, <2>2, CountsAre
        <3> QED
            BY <3>1 DEF AtMost
    <2>4. Represents(type, v, ms)
        BY <1>1, <1>6, <2>2, <2>3 DEF Represents
    <2> QED
        BY <2>4 DEF v
<1> QED
    BY <1>2, <1>3, <1>4, <1>5, <1>6 DEF AggregateType

\* An aggregate that is sent has measurements, and the time it shows stands for
\* them, though there are one or ten and the mean is negative (the loop over
\* aggregates in Handler<PeerDataArray>).
THEOREM PicksStandForAll == Spec => []PicksRepresent
<1>1. AggInv => \A i \in DOMAIN sent : sent[i].rows # {}
    BY DEF AggInv, Sound, Within
<1>2. \A n \in 1..MaxMeasurements : AllRepresented[n]
    <2> SUFFICES ASSUME NEW n \in 1..MaxMeasurements,
                        NEW ms \in [1..n -> Times \cup {-t : t \in Times}],
                        NEW type \in AggregateType
                 PROVE  Represents(type, Pick(type, ms), ms)
        BY DEF AllRepresented
    <2>1. MaxMeasurements \in Nat /\ Times \subseteq Nat
        BY AggregationAssumption
    <2>2. n \in Nat \ {0} /\ Times \cup {-t : t \in Times} \subseteq Int
        <3>1. n \in Nat \ {0}
            BY <2>1
        <3>2. ASSUME NEW t \in Times
              PROVE  t \in Int /\ -t \in Int
            BY <2>1
        <3> QED
            BY <3>1, <3>2
    <2>3. ms \in [1..n -> Int]
        BY <2>2
    <2> QED
        BY <2>2, <2>3, PickRepresents
<1>3. AggInv => PicksRepresent
    BY <1>1, <1>2 DEF PicksRepresent
<1> QED
    BY <1>3, AggInductive, PTL
=============================================================================

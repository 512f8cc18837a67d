---------------------------- MODULE PositionLemmas -----------------------------
(***************************************************************************)
(* What the proofs about stages that work on lists need of numbers and     *)
(* positions: induction and recursion over a range, the least and the      *)
(* greatest of some numbers, the items at some positions, flattened lists. *)
(***************************************************************************)
EXTENDS Positions, SequencesExt, FiniteSetTheorems, WellFoundedInduction, TLAPS

-----------------------------------------------------------------------------
(* Numbers, recursion and positions *)

LEMMA SequenceOfItself ==
    ASSUME NEW n \in Nat, NEW f, f = [i \in 1 .. n |-> f[i]]
    PROVE  f \in Seq(ToSet(f))
<1>1. DOMAIN f = 1 .. n
    OBVIOUS
<1>2. f \in [1 .. n -> ToSet(f)]
    BY <1>1 DEF ToSet
<1> HIDE DEF ToSet
<1> QED BY <1>2

LEMMA LeastNatural ==
    ASSUME NEW S \in SUBSET Nat, S # {}
    PROVE  \E n \in S : \A m \in S : n <= m
<1> DEFINE R == {ss \in Nat \X Nat : ss[1] < ss[2]}
<1>1. IsWellFoundedOn(R, Nat)
    BY NatLessThanWellFounded DEF OpToRel
<1> HIDE DEF R
<1>2. PICK n \in S : \A m \in S : <<m, n>> \notin R
    BY <1>1, WFMin
<1>3. \A m \in S : ~(m < n)
    BY <1>2 DEF R
<1> QED BY <1>3

\* What holds of the first number of a range, and of a number when it holds
\* of the one before it, holds of the whole range.
LEMMA RangeInduction ==
    ASSUME NEW lo \in Nat, NEW hi \in Nat, NEW Good,
           lo <= hi => lo \in Good,
           \A n \in (lo + 1) .. hi : n - 1 \in Good => n \in Good
    PROVE  lo .. hi \subseteq Good
<1> DEFINE Bad == (lo .. hi) \ Good
<1> SUFFICES ASSUME Bad # {} PROVE FALSE
    OBVIOUS
<1>1. PICK n \in Bad : \A m \in Bad : n <= m
    <2>1. Bad \in SUBSET Nat
        OBVIOUS
    <2> HIDE DEF Bad
    <2> QED BY <2>1, LeastNatural
<1>2. n # lo
    BY <1>1
<1>3. n \in (lo + 1) .. hi /\ n - 1 \in lo .. hi
    BY <1>1, <1>2
<1>4. n - 1 \in Good
    BY <1>1, <1>3
<1> QED BY <1>1, <1>3, <1>4

\* A function may be defined by recursion over a range.
Follows(f, lo, hi, start, next) ==
    f[lo] = start /\ \A n \in (lo + 1) .. hi : f[n] = next[<<n, f[n - 1]>>]

LEMMA RecursionOverRange ==
    ASSUME NEW lo \in Nat, NEW hi \in Nat, lo <= hi, NEW V, NEW start \in V,
           NEW next \in [(lo .. hi) \X V -> V]
    PROVE  \E f \in [lo .. hi -> V] : Follows(f, lo, hi, start, next)
<1> DEFINE Upto(m, f) == \A n \in lo .. m : f[n] = IF n = lo THEN start ELSE next[<<n, f[n - 1]>>]
           Good == {m \in lo .. hi : \E f \in [lo .. m -> V] : Upto(m, f)}
<1>1. lo \in Good
    <2> DEFINE f == [n \in lo .. lo |-> start]
    <2>1. f \in [lo .. lo -> V] /\ Upto(lo, f) /\ lo \in lo .. hi
        OBVIOUS
    <2> HIDE DEF f, Upto
    <2> QED BY <2>1
<1>2. ASSUME NEW m \in (lo + 1) .. hi, m - 1 \in Good PROVE m \in Good
    <2>1. PICK f \in [lo .. m - 1 -> V] : Upto(m - 1, f)
        BY <1>2
    <2> DEFINE g == [n \in lo .. m |-> IF n = m THEN next[<<m, f[m - 1]>>] ELSE f[n]]
    <2>2. m - 1 \in lo .. m - 1 /\ m \in lo .. hi /\ m # lo
        OBVIOUS
    <2>3. f[m - 1] \in V /\ next[<<m, f[m - 1]>>] \in V
        BY <2>1, <2>2
    <2>4. \A n \in lo .. m : n = m \/ (n \in lo .. m - 1 /\ (n # lo => n - 1 \in lo .. m - 1))
        OBVIOUS
    <2>5. g \in [lo .. m -> V]
        BY <2>1, <2>3, <2>4
    <2>6. \A n \in lo .. m - 1 : g[n] = f[n]
        BY <2>4
    <2>7. Upto(m, g)
        <3> SUFFICES ASSUME NEW n \in lo .. m PROVE g[n] = IF n = lo THEN start ELSE next[<<n, g[n - 1]>>]
            OBVIOUS
        <3>1. CASE n = m
            BY <2>2, <2>6, <3>1
        <3>2. CASE n # m
            <4>1. g[n] = f[n] /\ (n # lo => g[n - 1] = f[n - 1])
                BY <2>4, <2>6, <3>2
            <4> QED BY <2>1, <2>4, <3>2, <4>1
        <3> QED BY <3>1, <3>2
    <2> QED BY <2>2, <2>5, <2>7
<1>3. hi \in Good
    <2> HIDE DEF Good
    <2>1. lo .. hi \subseteq Good
        BY <1>1, <1>2, RangeInduction
    <2> QED BY <2>1
<1>4. PICK f \in [lo .. hi -> V] : Upto(hi, f)
    BY <1>3
<1>5. lo \in lo .. hi /\ \A n \in (lo + 1) .. hi : n \in lo .. hi /\ n # lo
    OBVIOUS
<1> QED BY <1>4, <1>5 DEF Follows

\* Of the numbers that some places carry one is the greatest, one the least.
LEMMA GreatestOfSome ==
    ASSUME NEW m \in Nat, NEW places \in SUBSET (1 .. m), places # {}, NEW s \in [places -> Int]
    PROVE  \E i \in places : \A j \in places : s[j] <= s[i]
<1> DEFINE Below(n) == places \cap (1 .. n)
           Good == {n \in 0 .. m : Below(n) # {} => \E i \in Below(n) : \A j \in Below(n) : s[j] <= s[i]}
<1>1. 0 \in Good
    OBVIOUS
<1>2. ASSUME NEW n \in (0 + 1) .. m, n - 1 \in Good PROVE n \in Good
    <2>1. n \in 0 .. m /\ \A j \in Below(n) : j = n \/ j \in Below(n - 1)
        OBVIOUS
    <2>2. \A j \in Below(n - 1) : j \in Below(n)
        OBVIOUS
    <2>3. CASE n \notin places
        <3>1. Below(n) = Below(n - 1)
            BY <2>1, <2>2, <2>3
        <3> QED BY <1>2, <2>1, <3>1
    <2>4. CASE n \in places /\ Below(n - 1) = {}
        <3>1. n \in Below(n) /\ \A j \in Below(n) : j = n
            BY <2>1, <2>4
        <3> HIDE DEF Below
        <3> QED BY <2>1, <2>4, <3>1
    <2>5. CASE n \in places /\ Below(n - 1) # {}
        <3>1. PICK i \in Below(n - 1) : \A j \in Below(n - 1) : s[j] <= s[i]
            BY <1>2, <2>5
        <3>2. n \in Below(n) /\ i \in Below(n) /\ s[i] \in Int /\ s[n] \in Int
            BY <2>2, <2>5
        <3>3. \A j \in Below(n) : s[j] \in Int
            OBVIOUS
        <3> HIDE DEF Below
        <3>4. CASE s[i] <= s[n]
            <4>1. \A j \in Below(n) : s[j] <= s[n]
                BY <2>1, <2>2, <3>1, <3>2, <3>3, <3>4
            <4> QED BY <2>1, <3>2, <4>1
        <3>5. CASE s[n] <= s[i]
            <4>1. \A j \in Below(n) : s[j] <= s[i]
                BY <2>1, <3>1, <3>5
            <4> QED BY <2>1, <3>2, <4>1
        <3> QED BY <3>2, <3>4, <3>5
    <2> QED BY <2>3, <2>4, <2>5
<1>3. m \in Good
    <2> HIDE DEF Good
    <2>1. 0 .. m \subseteq Good
        BY <1>1, <1>2, RangeInduction
    <2> QED BY <2>1
<1>4. Below(m) = places
    OBVIOUS
<1> QED BY <1>3, <1>4

LEMMA LeastOfSome ==
    ASSUME NEW m \in Nat, NEW places \in SUBSET (1 .. m), places # {}, NEW s \in [places -> Int]
    PROVE  \E i \in places : \A j \in places : s[i] <= s[j]
<1> DEFINE minus == [i \in places |-> -s[i]]
<1>1. minus \in [places -> Int]
    OBVIOUS
<1>2. PICK i \in places : \A j \in places : minus[j] <= minus[i]
    <2> HIDE DEF minus
    <2> QED BY <1>1, GreatestOfSome
<1>3. \A j \in places : s[i] <= s[j]
    BY <1>2
<1> QED BY <1>3

LEMMA MinOfPlaces ==
    ASSUME NEW S \in SUBSET Nat, S # {}
    PROVE  Min(S) \in S /\ \A n \in S : Min(S) <= n
BY LeastNatural DEF Min
LEMMA GreatestNumber ==
    ASSUME NEW m \in Nat, m > 0, NEW f \in [1 .. m -> Int]
    PROVE  Max({f[i] : i \in 1 .. m}) \in Int
<1>1. 1 .. m # {} /\ 1 .. m \in SUBSET (1 .. m)
    OBVIOUS
<1>2. PICK i \in 1 .. m : \A j \in 1 .. m : f[j] <= f[i]
    BY <1>1, GreatestOfSome
<1>3. f[i] \in {f[j] : j \in 1 .. m} /\ \A x \in {f[j] : j \in 1 .. m} : f[i] >= x
    BY <1>2
<1> QED BY <1>3 DEF Max

-----------------------------------------------------------------------------
(* The items at some positions *)

LEMMA RankOfPlace ==
    ASSUME NEW m \in Nat, NEW places \in SUBSET (1 .. m)
    PROVE  /\ IsFiniteSet(places) /\ Cardinality(places) \in Nat
           /\ \A k \in places : Cardinality({j \in places : j < k}) \in 0 .. Cardinality(places) - 1
           /\ \A r \in 0 .. Cardinality(places) - 1 :
                 \E k \in places : Cardinality({j \in places : j < k}) = r
           /\ \A i, k \in places :
                 Cardinality({j \in places : j < i}) = Cardinality({j \in places : j < k}) => i = k
<1> DEFINE Before(k) == {j \in places : j < k}
           c == Cardinality(places)
           rank == [k \in places |-> Cardinality(Before(k))]
<1>1. IsFiniteSet(places) /\ c \in Nat
    <2>1. IsFiniteSet(1 .. m)
        BY FS_Interval
    <2>2. IsFiniteSet(places)
        BY <2>1, FS_Subset
    <2> QED BY <2>2, FS_CardinalityType
<1>2. \A k \in places : IsFiniteSet(Before(k)) /\ Cardinality(Before(k)) \in Nat
    BY <1>1, FS_Subset, FS_CardinalityType
<1>3. \A k \in places : Before(k) \subseteq places \ {k}
    OBVIOUS
<1>4. \A k \in places : Cardinality(places \ {k}) = c - 1 /\ IsFiniteSet(places \ {k})
    BY <1>1, FS_RemoveElement
<1>5. ASSUME NEW k \in places PROVE Cardinality(Before(k)) \in 0 .. c - 1
    <2>1. Cardinality(Before(k)) <= Cardinality(places \ {k})
        BY <1>3, <1>4, FS_Subset
    <2> QED BY <1>1, <1>2, <1>4, <2>1
<1>6. ASSUME NEW j \in places, NEW k \in places, j < k
      PROVE  Cardinality(Before(j)) < Cardinality(Before(k))
    <2>1. j \in Before(k) /\ Before(j) \subseteq Before(k) \ {j}
        <3>1. j \in Nat /\ k \in Nat /\ \A i \in places : i \in Nat
            OBVIOUS
        <3>2. \A i \in places : i < j => i < k /\ i # j
            BY <1>6, <3>1
        <3> QED BY <1>6, <3>2
    <2>2. IsFiniteSet(Before(k) \ {j}) /\ Cardinality(Before(k) \ {j}) = Cardinality(Before(k)) - 1
        BY <1>2, <2>1, FS_RemoveElement
    <2>3. Cardinality(Before(j)) <= Cardinality(Before(k) \ {j})
        BY <2>1, <2>2, FS_Subset
    <2> QED BY <1>2, <2>2, <2>3
<1> HIDE DEF Before, c
<1>7. rank \in [places -> 0 .. c - 1]
    BY <1>5
<1>8. \A j, k \in places : Cardinality(Before(j)) = Cardinality(Before(k)) => j = k
    <2>1. SUFFICES ASSUME NEW j \in places, NEW k \in places, j # k
                   PROVE  Cardinality(Before(j)) # Cardinality(Before(k))
        OBVIOUS
    <2>2. j < k \/ k < j
        BY <2>1
    <2> QED BY <1>2, <1>6, <2>2
<1>12. rank \in Injection(places, 0 .. c - 1)
    <2>1. \A j, k \in places : rank[j] = rank[k] => j = k
        BY <1>8
    <2> HIDE DEF rank
    <2> QED BY <1>7, <2>1 DEF Injection, IsInjective
<1>9. IsFiniteSet(0 .. c - 1) /\ Cardinality(0 .. c - 1) = c
    BY <1>1, FS_Interval
<1>10. rank \in Surjection(places, 0 .. c - 1)
    <2> HIDE DEF rank
    <2> QED BY <1>9, <1>12, FS_Injection DEF c
<1>11. \A r \in 0 .. c - 1 : \E k \in places : rank[k] = r
    <2> HIDE DEF rank
    <2> QED BY <1>10 DEF Surjection
<1> QED BY <1>1, <1>5, <1>8, <1>11 DEF Before, c

LEMMA ItemsAtPlaces ==
    ASSUME NEW m \in Nat, NEW places \in SUBSET (1 .. m), NEW seq, NEW items, items = At(seq, places)
    PROVE  /\ Cardinality(places) \in Nat
           /\ items = [i \in 1 .. Cardinality(places) |-> items[i]]
           /\ DOMAIN items = 1 .. Cardinality(places)
           /\ \A i \in DOMAIN items : \E k \in places : items[i] = seq[k]
           /\ \A k \in places : \E i \in DOMAIN items : items[i] = seq[k]
<1> DEFINE c == Cardinality(places)
           Rank(k) == Cardinality({j \in places : j < k})
           place(i) == CHOOSE k \in places : Rank(k) = i - 1
<1>1. /\ c \in Nat /\ \A k \in places : Rank(k) \in 0 .. c - 1
      /\ \A r \in 0 .. c - 1 : \E k \in places : Rank(k) = r
      /\ \A i, k \in places : Rank(i) = Rank(k) => i = k
    BY RankOfPlace
<1>2. items = [i \in 1 .. c |-> seq[place(i)]]
    BY DEF At
<1> HIDE DEF c, Rank
<1>3. \A i \in 1 .. c : i - 1 \in 0 .. c - 1
    BY <1>1
<1>4. \A i \in 1 .. c : place(i) \in places /\ Rank(place(i)) = i - 1
    BY <1>1, <1>3
<1>5. \A k \in places : Rank(k) + 1 \in 1 .. c /\ place(Rank(k) + 1) = k
    <2>1. SUFFICES ASSUME NEW k \in places PROVE Rank(k) + 1 \in 1 .. c /\ place(Rank(k) + 1) = k
        OBVIOUS
    <2>2. Rank(k) + 1 \in 1 .. c /\ (Rank(k) + 1) - 1 = Rank(k)
        BY <1>1
    <2>3. place(Rank(k) + 1) \in places /\ Rank(place(Rank(k) + 1)) = Rank(k)
        BY <1>4, <2>2
    <2> HIDE DEF place
    <2> QED BY <1>1, <2>2, <2>3
<1> HIDE DEF place
<1>6. items = [i \in 1 .. c |-> items[i]] /\ DOMAIN items = 1 .. c
    BY <1>2
<1>7. \A i \in 1 .. c : items[i] = seq[place(i)]
    BY <1>2
<1>8. \A i \in 1 .. c : \E k \in places : items[i] = seq[k]
    BY <1>4, <1>7
<1>9. \A k \in places : \E i \in 1 .. c : items[i] = seq[k]
    BY <1>5, <1>7
<1> QED BY <1>1, <1>6, <1>8, <1>9 DEF c

LEMMA RangeSize ==
    ASSUME NEW k \in Nat
    PROVE  Cardinality(1 .. k) = k
<1>1. Cardinality(1 .. k) = IF 1 > k THEN 0 ELSE k - 1 + 1
    BY FS_Interval
<1> QED BY <1>1

\* At all its positions a sequence has its items.
LEMMA ItemsAtAllPlaces ==
    ASSUME NEW seq, seq \in Seq(ToSet(seq))
    PROVE  At(seq, DOMAIN seq) = seq
<1> DEFINE n == Len(seq)
<1>1. n \in Nat /\ DOMAIN seq = 1 .. n
    OBVIOUS
<1>2. \A i \in 1 .. n : Cardinality({j \in 1 .. n : j < i}) = i - 1
    <2>1. SUFFICES ASSUME NEW i \in 1 .. n PROVE Cardinality({j \in 1 .. n : j < i}) = i - 1
        OBVIOUS
    <2>2. {j \in 1 .. n : j < i} = 1 .. (i - 1)
        OBVIOUS
    <2>3. i - 1 \in Nat
        OBVIOUS
    <2> QED BY <2>2, <2>3, RangeSize
<1>3. Cardinality(1 .. n) = n
    BY <1>1, RangeSize
<1> HIDE DEF n
<1>4. \A i \in 1 .. n : i = CHOOSE k \in 1 .. n : Cardinality({j \in 1 .. n : j < k}) = i - 1
    <2>1. SUFFICES ASSUME NEW i \in 1 .. n
                   PROVE  i = CHOOSE k \in 1 .. n : Cardinality({j \in 1 .. n : j < k}) = i - 1
        OBVIOUS
    <2>2. \A k \in 1 .. n : Cardinality({j \in 1 .. n : j < k}) = i - 1 <=> k = i
        BY <1>2
    <2> QED BY <2>2
<1>5. seq = [i \in 1 .. n |-> seq[i]]
    BY <1>1
<1> QED BY <1>1, <1>3, <1>4, <1>5 DEF At

LEMMA ItemsInSet ==
    ASSUME NEW m \in Nat, NEW places \in SUBSET (1 .. m), NEW seq, NEW S, \A k \in places : seq[k] \in S
    PROVE  At(seq, places) \in Seq(S) /\ (places = {} <=> At(seq, places) = <<>>)
<1> DEFINE c == Cardinality(places)
<1>0. PICK items : items = At(seq, places)
    OBVIOUS
<1>1. /\ c \in Nat /\ items = [i \in 1 .. c |-> items[i]] /\ DOMAIN items = 1 .. c
      /\ \A i \in DOMAIN items : \E k \in places : items[i] = seq[k]
    BY <1>0, ItemsAtPlaces
<1>2. c = 0 <=> places = {}
    BY RankOfPlace, FS_EmptySet
<1> HIDE DEF c
<1>3. items \in [1 .. c -> S]
    BY <1>1
<1>4. items \in Seq(S)
    BY <1>1, <1>3
<1>5. items = <<>> <=> c = 0
    BY <1>1, <1>4
<1> QED BY <1>0, <1>2, <1>4, <1>5

LEMMA FlattenedSeq ==
    ASSUME NEW S, NEW seqs \in Seq(Seq(S))
    PROVE  FlattenSeq(seqs) \in Seq(S)
<1> DEFINE N == Len(seqs)
           V == Seq(S)
           body(f) == [i \in 1 .. N |-> IF i = 1 THEN seqs[i] ELSE f[i - 1] \o seqs[i]]
           flatten == CHOOSE f : f = body(f)
           next == [p \in (1 .. N) \X V |-> p[2] \o seqs[p[1]]]
<1>1. FlattenSeq(seqs) = IF N = 0 THEN seqs ELSE flatten[N]
    BY DEF FlattenSeq
<1>2. N \in Nat /\ \A i \in 1 .. N : seqs[i] \in V
    OBVIOUS
<1>3. CASE N = 0
    <2>1. seqs = <<>>
        BY <1>3
    <2> QED BY <1>1, <1>3, <2>1
<1>4. CASE N # 0
    <2>1. seqs[1] \in V /\ \A i \in 1 .. N : \A s \in V : s \o seqs[i] \in V
        BY <1>2, <1>4
    <2>2. next \in [(1 .. N) \X V -> V]
        BY <2>1
    <2> HIDE DEF V, N, flatten
    <2>3. PICK f \in [1 .. N -> V] : Follows(f, 1, N, seqs[1], next)
        <3> HIDE DEF next
        <3>1. 1 \in Nat /\ 1 <= N
            BY <1>2, <1>4
        <3> QED BY <1>2, <2>1, <2>2, <3>1, RecursionOverRange
    <2>4. f = body(f)
        <3>1. \A i \in 1 .. N : i # 1 => i \in (1 + 1) .. N /\ i - 1 \in 1 .. N
            BY <1>2
        <3>2. \A i \in 1 .. N : i # 1 => next[<<i, f[i - 1]>>] = f[i - 1] \o seqs[i]
            BY <3>1
        <3> HIDE DEF next
        <3>3. f = [i \in 1 .. N |-> f[i]] /\ f[1] = seqs[1]
            BY <2>3 DEF Follows
        <3>4. \A i \in (1 + 1) .. N : f[i] = next[<<i, f[i - 1]>>]
            BY <2>3 DEF Follows
        <3>5. \A i \in 1 .. N : i # 1 => f[i] = f[i - 1] \o seqs[i]
            BY <3>1, <3>2, <3>4
        <3> QED BY <3>3, <3>5
    <2>5. flatten = body(flatten)
        BY <2>4 DEF flatten
    <2>6. 1 \in 1 .. N /\ \A i \in (1 + 1) .. N : i \in 1 .. N /\ i # 1
        BY <1>2, <1>4
    <2>7. flatten[1] = seqs[1] /\ \A i \in (1 + 1) .. N : flatten[i] = flatten[i - 1] \o seqs[i]
        BY <2>5, <2>6
    <2> DEFINE Good == {i \in 1 .. N : flatten[i] \in V}
    <2>8. 1 \in Good
        BY <2>1, <2>6, <2>7
    <2>9. ASSUME NEW i \in (1 + 1) .. N, i - 1 \in Good PROVE i \in Good
        BY <2>1, <2>6, <2>7, <2>9
    <2>10. N \in Good
        <3> HIDE DEF Good
        <3>1. 1 .. N \subseteq Good
            BY <1>2, <2>8, <2>9, RangeInduction
        <3> QED BY <1>2, <1>4, <3>1
    <2> QED BY <1>1, <1>4, <2>10 DEF V
<1> QED BY <1>3, <1>4

=============================================================================

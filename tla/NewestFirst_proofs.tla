------------------------- MODULE NewestFirst_proofs -------------------------
(***************************************************************************)
(* What the operators of NewestFirst return.  The CHOOSE of Descending     *)
(* needs a sorted enumeration of every finite set of ids to exist: of the  *)
(* sizes without one take the least, and put the least id of a set of that *)
(* size behind an enumeration of the others.                               *)
(***************************************************************************)
EXTENDS NewestFirst, FiniteSetTheorems, WellFoundedInduction, TLAPS

Less == {x \in Nat \X Nat : x[1] < x[2]}

\* A non-empty set of naturals has a least element.
LEMMA LeastElement ==
  ASSUME NEW S \in SUBSET Nat, S # {}
  PROVE  \E p \in S : \A q \in S : p <= q
<1>1. IsWellFoundedOn(Less, Nat)
  BY NatLessThanWellFounded DEF OpToRel, Less
<1>2. PICK p \in S : \A q \in S : ~(<<q, p>> \in Less)
  BY <1>1, WFMin
<1>3. \A q \in S : ~(q < p)
  BY <1>2 DEF Less
<1> QED BY <1>3

\* An enumeration grows at its end by an id below the others.
LEMMA DescendingGrows ==
  ASSUME NEW n \in Nat, NEW S \in SUBSET Nat, NEW m \in S,
         \A q \in S : m <= q,
         NEW t \in [1..n -> S \ {m}], Descends(t)
  PROVE  \E s \in [1..(n + 1) -> S] : Descends(s)
<1> DEFINE s == [i \in 1..(n + 1) |-> IF i = n + 1 THEN m ELSE t[i]]
<1>1. \A i \in 1..(n + 1) : i # n + 1 => i \in 1..n /\ t[i] \in S /\ t[i] > m
  <2> SUFFICES ASSUME NEW i \in 1..(n + 1), i # n + 1
               PROVE  i \in 1..n /\ t[i] \in S /\ t[i] > m
    OBVIOUS
  <2>1. i \in 1..n
    OBVIOUS
  <2>2. t[i] \in S \ {m}
    BY <2>1
  <2>3. m \in Nat /\ t[i] \in Nat /\ m <= t[i] /\ t[i] # m
    BY <2>2
  <2> QED BY <2>1, <2>2, <2>3
<1>2. s \in [1..(n + 1) -> S]
  BY <1>1
<1>3. ASSUME NEW i \in 1..(n + 1), NEW j \in 1..(n + 1), i < j PROVE s[i] > s[j]
  <2>1. i # n + 1 /\ i \in 1..n
    BY <1>3
  <2>2. CASE j = n + 1
    BY <1>1, <2>1, <2>2
  <2>3. CASE j # n + 1
    <3>1. j \in 1..n /\ t[i] > t[j]
      BY <1>1, <1>3, <2>1, <2>3 DEF Descends
    <3> QED BY <2>1, <2>3, <3>1
  <2> QED BY <2>2, <2>3
<1>4. Descends(s)
  <2>1. DOMAIN s = 1..(n + 1)
    OBVIOUS
  <2> HIDE DEF s
  <2> QED BY <1>3, <2>1 DEF Descends
<1> HIDE DEF s
<1> QED BY <1>2, <1>4

\* Every finite set of naturals has a descending enumeration.
LEMMA DescendingExists ==
  ASSUME NEW S \in SUBSET Nat, IsFiniteSet(S)
  PROVE  \E s \in [1..Cardinality(S) -> S] : Descends(s)
<1> DEFINE Listed(T) == \E s \in [1..Cardinality(T) -> T] : Descends(s)
           Sizes == {k \in Nat : \E T \in SUBSET Nat :
                       IsFiniteSet(T) /\ Cardinality(T) = k /\ ~Listed(T)}
<1>1. SUFFICES ASSUME Sizes # {} PROVE FALSE
  <2>1. Cardinality(S) \in Nat
    BY FS_CardinalityType
  <2>2. Cardinality(S) \notin Sizes
    BY <1>1
  <2>3. Listed(S)
    BY <2>1, <2>2
  <2> QED BY <2>3
<1>2. PICK k \in Sizes : \A j \in Sizes : k <= j
  <2> HIDE DEF Sizes
  <2>1. Sizes \in SUBSET Nat
    BY DEF Sizes
  <2> QED BY <1>1, <2>1, LeastElement
<1>3. PICK T \in SUBSET Nat : IsFiniteSet(T) /\ Cardinality(T) = k /\ ~Listed(T)
  BY <1>2
<1>4. k \in Nat
  OBVIOUS
<1>5. CASE T = {}
  <2>1. k = 0
    BY <1>3, <1>5, FS_EmptySet
  <2>2. <<>> \in [1..0 -> T] /\ Descends(<<>>)
    BY DEF Descends
  <2> QED BY <1>3, <2>1, <2>2
<1>6. CASE T # {}
  <2>1. PICK m \in T : \A q \in T : m <= q
    BY <1>6, LeastElement
  <2>2. IsFiniteSet(T \ {m}) /\ Cardinality(T \ {m}) = k - 1
    BY <1>3, FS_RemoveElement
  <2>3. k - 1 \in Nat
    BY <2>2, FS_CardinalityType
  <2>4. Listed(T \ {m})
    <3>1. ~(k <= k - 1)
      BY <1>4
    <3>2. k - 1 \notin Sizes
      <4> HIDE DEF Sizes
      <4> QED BY <1>2, <3>1
    <3>3. T \ {m} \in SUBSET Nat
      OBVIOUS
    <3> QED BY <2>2, <2>3, <3>2, <3>3
  <2>5. PICK t \in [1..(k - 1) -> T \ {m}] : Descends(t)
    BY <2>2, <2>4
  <2>6. \E s \in [1..((k - 1) + 1) -> T] : Descends(s)
    BY <2>1, <2>3, <2>5, DescendingGrows
  <2>7. (k - 1) + 1 = k
    BY <1>4
  <2> QED BY <1>3, <2>6, <2>7
<1> QED BY <1>5, <1>6

\* The rows of a finite set, newest first: every one of them, once.
LEMMA DescendingProperties ==
  ASSUME NEW S \in SUBSET Nat, IsFiniteSet(S)
  PROVE  LET s == Descending(S) IN
           /\ Cardinality(S) \in Nat
           /\ s \in [1..Cardinality(S) -> S] /\ s \in Seq(S) /\ Len(s) = Cardinality(S)
           /\ Descends(s)
           /\ \A x \in S : \E i \in 1..Cardinality(S) : s[i] = x
<1> DEFINE s == Descending(S)
           I == 1..Cardinality(S)
<1>1. Cardinality(S) \in Nat
  BY FS_CardinalityType
<1>2. s \in [I -> S] /\ Descends(s)
  BY DescendingExists DEF Descending
<1> HIDE DEF s
<1>3. s \in Seq(S) /\ Len(s) = Cardinality(S)
  BY <1>1, <1>2
<1>4. \A x \in S : \E i \in I : s[i] = x
  <2>1. IsInjective(s)
    <3> SUFFICES ASSUME NEW i \in I, NEW j \in I, s[i] = s[j] PROVE i = j
      BY <1>2 DEF IsInjective
    <3>1. s[i] \in Nat /\ s[j] \in Nat
      BY <1>2
    <3>2. ~(i < j) /\ ~(j < i)
      BY <1>2, <3>1 DEF Descends
    <3> QED BY <1>1, <3>2
  <2>2. s \in Injection(I, S)
    BY <1>2, <2>1 DEF Injection
  <2>3. Cardinality(I) = Cardinality(S)
    BY <1>1, FS_Interval
  <2>4. s \in Surjection(I, S)
    BY <2>2, <2>3, FS_Injection
  <2> QED BY <2>4 DEF Surjection
<1> QED BY <1>1, <1>2, <1>3, <1>4 DEF s

\* A list of some is a list of more.
LEMMA SeqOfMore ==
  ASSUME NEW T, NEW S \in SUBSET T, NEW s \in Seq(S)
  PROVE  s \in Seq(T)
<1>1. Len(s) \in Nat /\ s \in [1..Len(s) -> S]
  OBVIOUS
<1>2. s \in [1..Len(s) -> T]
  BY <1>1
<1> QED BY <1>1, <1>2

\* A list is of what its elements are of.
LEMMA SeqByElements ==
  ASSUME NEW S, NEW T, NEW s \in Seq(S), \A i \in 1..Len(s) : s[i] \in T
  PROVE  s \in Seq(T)
<1>1. Len(s) \in Nat /\ s \in [1..Len(s) -> T]
  OBVIOUS
<1> QED BY <1>1

\* A list that descends has no repetition.
LEMMA DescendsIsInjective ==
  ASSUME NEW s \in Seq(Nat), Descends(s)
  PROVE  IsInjective(s)
<1> SUFFICES ASSUME NEW i \in 1..Len(s), NEW j \in 1..Len(s), s[i] = s[j] PROVE i = j
  BY DEF IsInjective
<1>1. s[i] \in Nat /\ s[j] \in Nat
  OBVIOUS
<1>2. ~(i < j) /\ ~(j < i)
  BY <1>1 DEF Descends
<1> QED BY <1>2

\* A list without a repetition has as many elements as indices.
LEMMA InjectiveCardinality ==
  ASSUME NEW T, NEW s \in Seq(T), IsInjective(s)
  PROVE  IsFiniteSet(ToSet(s)) /\ Cardinality(ToSet(s)) = Len(s)
<1>1. Len(s) \in Nat /\ DOMAIN s = 1..Len(s)
  OBVIOUS
<1>2. s \in Surjection(1..Len(s), ToSet(s)) /\ s \in Injection(1..Len(s), ToSet(s))
  BY <1>1 DEF Surjection, Injection, ToSet
<1>3. IsFiniteSet(1..Len(s)) /\ Cardinality(1..Len(s)) = Len(s)
  BY <1>1, FS_Interval
<1> QED BY <1>2, <1>3, FS_Surjection

\* A list has as many newer elements as one it contains.
LEMMA NewerGrow ==
  ASSUME NEW s \in Seq(Nat), NEW t \in Seq(Nat), ToSet(s) \subseteq ToSet(t),
         NEW p \in Nat, NEW n \in Nat,
         Contains(s, p) \/ Cardinality({q \in ToSet(s) : q > p}) >= n
  PROVE  Contains(t, p) \/ Cardinality({q \in ToSet(t) : q > p}) >= n
<1> DEFINE A == {q \in ToSet(s) : q > p}
           B == {q \in ToSet(t) : q > p}
<1>0. DOMAIN s = 1..Len(s) /\ DOMAIN t = 1..Len(t) /\ Len(t) \in Nat
  OBVIOUS
<1>1. Contains(s, p) => Contains(t, p)
  <2>1. Contains(s, p) => p \in ToSet(s)
    BY <1>0 DEF Contains, ToSet
  <2>2. p \in ToSet(t) => Contains(t, p)
    BY <1>0 DEF Contains, ToSet
  <2> QED BY <2>1, <2>2
<1>2. IsFiniteSet(ToSet(t))
  <2>1. t \in Surjection(1..Len(t), ToSet(t)) /\ Len(t) \in Nat
    BY <1>0 DEF Surjection, ToSet
  <2>2. IsFiniteSet(1..Len(t))
    BY <2>1, FS_Interval
  <2> QED BY <2>1, <2>2, FS_Surjection
<1>3. B \in SUBSET ToSet(t) /\ A \in SUBSET B
  OBVIOUS
<1> HIDE DEF A, B
<1>4. IsFiniteSet(B)
  BY <1>2, <1>3, FS_Subset
<1>5. IsFiniteSet(A) /\ Cardinality(A) <= Cardinality(B)
  BY <1>3, <1>4, FS_Subset
<1>6. Cardinality(A) \in Nat /\ Cardinality(B) \in Nat
  BY <1>4, <1>5, FS_CardinalityType
<1>7. Cardinality(A) >= n => Cardinality(B) >= n
  BY <1>5, <1>6
<1> QED BY <1>1, <1>7 DEF A, B

\* A page holds rows of the set in order; a row it lacks is older than all of
\* a full page.
THEOREM NewestProperties ==
  ASSUME NEW S \in SUBSET Nat, IsFiniteSet(S), NEW n \in Nat
  PROVE  LET s == Newest(S, n) IN
           /\ s \in Seq(S) /\ Len(s) \in 0..n
           /\ Descends(s) /\ IsInjective(s)
           /\ \A x \in S : Contains(s, x) \/ (Len(s) = n /\ \A i \in 1..n : s[i] > x)
<1> DEFINE d == Descending(S)
           c == Cardinality(S)
           k == IF c < n THEN c ELSE n
           s == Newest(S, n)
<1>1. /\ c \in Nat /\ d \in [1..c -> S] /\ d \in Seq(S) /\ Len(d) = c /\ Descends(d)
      /\ \A x \in S : \E i \in 1..c : d[i] = x
  BY DescendingProperties
<1>2. s = SubSeq(d, 1, k)
  BY DEF Newest
<1> HIDE DEF d, s, c
<1>3. k \in 0..n /\ k <= c
  BY <1>1
<1>4. s \in Seq(S) /\ Len(s) = k /\ \A i \in 1..k : s[i] = d[i]
  BY <1>1, <1>2, <1>3
<1>5. Descends(s)
  BY <1>1, <1>3, <1>4 DEF Descends
<1>6. IsInjective(s)
  <2>1. s \in Seq(Nat)
    BY <1>4, SeqOfMore
  <2> QED BY <1>5, <2>1, DescendsIsInjective
<1>7. ASSUME NEW x \in S, ~Contains(s, x)
      PROVE  Len(s) = n /\ \A i \in 1..n : s[i] > x
  <2>1. PICK j \in 1..c : d[j] = x
    BY <1>1
  <2>2. j > k
    BY <1>1, <1>3, <1>4, <1>7, <2>1 DEF Contains
  <2>3. k = n
    BY <1>1, <2>2
  <2>4. ASSUME NEW i \in 1..n PROVE s[i] > x
    <3>1. i \in 1..c /\ i < j /\ s[i] = d[i]
      BY <1>1, <1>3, <1>4, <2>2, <2>3
    <3>2. d[i] > d[j]
      BY <1>1, <3>1 DEF Descends
    <3> QED BY <2>1, <3>1, <3>2
  <2> QED BY <1>4, <2>3, <2>4
<1>8. s \in Seq(S) /\ Len(s) \in 0..n
  BY <1>3, <1>4
<1> QED BY <1>5, <1>6, <1>7, <1>8 DEF s

\* What is kept keeps its elements, and stays without a repetition.
THEOREM WithoutProperties ==
  ASSUME NEW T, NEW s \in Seq(T), NEW e
  PROVE  LET t == Without(s, e) IN
           /\ t \in Seq(T)
           /\ ToSet(t) = ToSet(s) \ {e}
           /\ IsInjective(s) => IsInjective(t)
<1> DEFINE K == {i \in DOMAIN s : s[i] # e}
           c == Cardinality(K)
           d == Descending(K)
           kept == Reverse(d)
           t == Without(s, e)
<1>1. K \in SUBSET Nat /\ IsFiniteSet(K) /\ K \subseteq 1..Len(s)
  <2>1. IsFiniteSet(1..Len(s))
    BY FS_Interval
  <2>2. K \in SUBSET (1..Len(s))
    OBVIOUS
  <2> QED BY <2>1, <2>2, FS_Subset
<1>2. /\ c \in Nat /\ d \in [1..c -> K] /\ Len(d) = c /\ Descends(d)
      /\ \A x \in K : \E i \in 1..c : d[i] = x
  <2> HIDE DEF K
  <2> QED BY <1>1, DescendingProperties
<1>3. kept = [i \in 1..c |-> d[(c - i) + 1]]
  <2> HIDE DEF d, c
  <2> QED BY <1>2 DEF Reverse
<1>4. \A i \in 1..c : (c - i) + 1 \in 1..c
  BY <1>2
<1>5. \A i \in 1..c : kept[i] \in K /\ kept[i] = d[(c - i) + 1]
  <2> HIDE DEF d, c, K, kept
  <2> QED BY <1>2, <1>3, <1>4
<1>6. t = [j \in 1..c |-> s[kept[j]]]
  <2>1. t = [j \in DOMAIN kept |-> s[kept[j]]]
    BY DEF Without
  <2>2. DOMAIN kept = 1..c
    BY <1>3
  <2> HIDE DEF kept, t, c
  <2> QED BY <2>1, <2>2
<1>7. \A x \in K : \E i \in 1..c : kept[i] = x
  <2> SUFFICES ASSUME NEW x \in K PROVE \E i \in 1..c : kept[i] = x
    OBVIOUS
  <2>1. PICK j \in 1..c : d[j] = x
    BY <1>2
  <2>2. (c - j) + 1 \in 1..c /\ (c - ((c - j) + 1)) + 1 = j
    BY <1>2
  <2> HIDE DEF d, c, K, kept
  <2> QED BY <1>5, <2>1, <2>2
<1>8. \A i, j \in 1..c : kept[i] = kept[j] => i = j
  <2> SUFFICES ASSUME NEW i \in 1..c, NEW j \in 1..c, kept[i] = kept[j] PROVE i = j
    OBVIOUS
  <2> DEFINE a == (c - i) + 1
             b == (c - j) + 1
  <2>1. a \in 1..c /\ b \in 1..c /\ d[a] = d[b] /\ d[a] \in Nat /\ d[b] \in Nat
    <3> HIDE DEF d, c, K, kept
    <3> QED BY <1>1, <1>2, <1>4, <1>5
  <2>2. ~(a < b) /\ ~(b < a)
    <3> HIDE DEF d, c, K, kept, a, b
    <3> QED BY <1>2, <2>1 DEF Descends
  <2> QED BY <1>2, <2>2
<1> HIDE DEF d, c, kept, t
<1>9. t \in Seq(T)
  <2>1. \A j \in 1..c : s[kept[j]] \in T
    BY <1>5
  <2> HIDE DEF K
  <2> QED BY <1>2, <1>6, <2>1
<1>10. ToSet(t) = ToSet(s) \ {e}
  <2>1. ToSet(t) = {s[kept[j]] : j \in 1..c}
    BY <1>6 DEF ToSet
  <2>2. {s[kept[j]] : j \in 1..c} = {s[x] : x \in K}
    <3> HIDE DEF K
    <3> QED BY <1>5, <1>7
  <2>3. {s[x] : x \in K} = ToSet(s) \ {e}
    BY DEF ToSet
  <2> QED BY <2>1, <2>2, <2>3
<1>11. ASSUME IsInjective(s) PROVE IsInjective(t)
  <2> SUFFICES ASSUME NEW i \in 1..c, NEW j \in 1..c, t[i] = t[j] PROVE i = j
    BY <1>6 DEF IsInjective
  <2>1. s[kept[i]] = s[kept[j]] /\ kept[i] \in DOMAIN s /\ kept[j] \in DOMAIN s
    BY <1>5, <1>6
  <2>2. kept[i] = kept[j]
    BY <1>11, <2>1 DEF IsInjective
  <2> QED BY <1>8, <2>2
<1> QED BY <1>9, <1>10, <1>11 DEF t

\* An entry that is taken out of a queue.
LEMMA RemoveAtProperties ==
  ASSUME NEW T, NEW s \in Seq(T), NEW i \in 1..Len(s)
  PROVE  LET t == RemoveAt(s, i) IN
           /\ t \in Seq(T) /\ Len(t) = Len(s) - 1
           /\ \A j \in 1..(i - 1) : t[j] = s[j]
           /\ \A j \in i..(Len(s) - 1) : t[j] = s[j + 1]
           /\ \A j \in 1..Len(t) : \E k \in 1..Len(s) : t[j] = s[k]
<1> DEFINE a == SubSeq(s, 1, i - 1)
           b == SubSeq(s, i + 1, Len(s))
           t == RemoveAt(s, i)
<1>1. a \in Seq(T) /\ Len(a) = i - 1 /\ \A j \in 1..(i - 1) : a[j] = s[j]
  OBVIOUS
<1>2. b \in Seq(T) /\ Len(b) = Len(s) - i /\ \A j \in 1..(Len(s) - i) : b[j] = s[j + i]
  OBVIOUS
<1>3. t = a \o b
  BY DEF RemoveAt
<1> HIDE DEF a, b, t
<1>4. t \in Seq(T) /\ Len(t) = Len(s) - 1
  BY <1>1, <1>2, <1>3
<1>5. \A j \in 1..(i - 1) : t[j] = s[j]
  BY <1>1, <1>2, <1>3
<1>6. ASSUME NEW j \in i..(Len(s) - 1) PROVE t[j] = s[j + 1]
  <2>1. t[j] = b[j - (i - 1)]
    BY <1>1, <1>2, <1>3
  <2>2. j - (i - 1) \in 1..(Len(s) - i) /\ (j - (i - 1)) + i = j + 1
    OBVIOUS
  <2> QED BY <1>2, <2>1, <2>2
<1>7. ASSUME NEW j \in 1..Len(t) PROVE \E k \in 1..Len(s) : t[j] = s[k]
  <2>1. CASE j < i
    BY <1>4, <1>5, <2>1
  <2>2. CASE j >= i
    BY <1>4, <1>6, <2>2
  <2> QED BY <1>4, <2>1, <2>2
<1> QED BY <1>4, <1>5, <1>6, <1>7 DEF t

\* An entry that is added to a queue.
LEMMA AppendedEntry ==
  ASSUME NEW T, NEW s \in Seq(T), NEW x \in T
  PROVE  /\ Append(s, x) \in Seq(T) /\ Len(Append(s, x)) = Len(s) + 1
         /\ \A j \in 1..Len(s) : Append(s, x)[j] = s[j]
         /\ Append(s, x)[Len(s) + 1] = x
OBVIOUS

\* An entry that is replaced.
LEMMA ReplacedEntry ==
  ASSUME NEW T, NEW s \in Seq(T), NEW i \in 1..Len(s), NEW x \in T
  PROVE  LET t == [s EXCEPT ![i] = x] IN
           /\ t \in Seq(T) /\ Len(t) = Len(s) /\ t[i] = x
           /\ \A j \in 1..Len(s) : j # i => t[j] = s[j]
<1> DEFINE t == [s EXCEPT ![i] = x]
<1>1. Len(s) \in Nat /\ t \in [1..Len(s) -> T]
  OBVIOUS
<1>2. t \in Seq(T) /\ Len(t) = Len(s)
  <2> HIDE DEF t
  <2> QED BY <1>1
<1> QED BY <1>2
=============================================================================

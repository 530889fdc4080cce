------------------------------ MODULE OrderLemmas ------------------------------
(***************************************************************************)
(* Facts about the order of the natural numbers that take induction, what  *)
(* they say about the places of a sequence, and what the operators on      *)
(* sequences do, in the form the provers use.                              *)
(***************************************************************************)
EXTENDS Subsequences, SequencesExt, FiniteSetTheorems, SequenceTheorems,
        WellFoundedInduction, TLAPS

(* A non-empty set of naturals has a least element.                        *)
LEMMA Least ==
  ASSUME NEW S, S \subseteq Nat, S # {}
  PROVE  \E n \in S : \A m \in S : n <= m
<1> DEFINE R == {ss \in Nat \X Nat : ss[1] < ss[2]}
<1>1. IsWellFoundedOn(R, Nat)
  BY NatLessThanWellFounded DEF OpToRel
<1> HIDE DEF R
<1>2. PICK n \in S : \A m \in S : ~(<<m, n>> \in R)
  BY <1>1, WFMin
<1>3. \A m \in S : ~(m < n)
  BY <1>2 DEF R
<1> QED BY <1>3

(* A function to the naturals that rises at every step of an interval      *)
(* rises over all of it.                                                   *)
LEMMA RisingSteps ==
  ASSUME NEW n \in Nat, NEW f, \A k \in 1..n : f[k] \in Nat,
         \A k \in 1..(n - 1) : f[k] < f[k + 1],
         NEW i \in 1..n, NEW j \in 1..n, i < j
  PROVE  f[i] < f[j]
<1> DEFINE Bad == {k \in 1..n : i < k /\ ~(f[i] < f[k])}
<1> SUFFICES ASSUME Bad # {} PROVE FALSE
  OBVIOUS
<1>0. Bad \subseteq Nat
  OBVIOUS
<1> HIDE DEF Bad
<1>1. PICK k \in Bad : \A m \in Bad : k <= m
  BY <1>0, Least
<1> USE DEF Bad
<1>2. k \in 2..n /\ i < k /\ ~(f[i] < f[k]) /\ k - 1 \in 1..(n - 1)
  BY <1>1
<1>3. f[k - 1] < f[k] /\ f[k - 1] \in Nat /\ f[k] \in Nat /\ f[i] \in Nat
  BY <1>2
<1>4. k - 1 \notin Bad
  BY <1>1, <1>2
<1>5. i = k - 1 \/ f[i] < f[k - 1]
  BY <1>2, <1>4
<1> QED BY <1>2, <1>3, <1>5

-----------------------------------------------------------------------------
(* Sequences.                                                              *)
LEMMA SeqFacts ==
  ASSUME NEW S, NEW s \in Seq(S)
  PROVE  /\ Len(s) \in Nat /\ DOMAIN s = 1..Len(s)
         /\ \A i \in DOMAIN s : s[i] \in S
OBVIOUS

LEMMA AppendFacts ==
  ASSUME NEW S, NEW s \in Seq(S), NEW x \in S
  PROVE  /\ Append(s, x) \in Seq(S)
         /\ Len(Append(s, x)) = Len(s) + 1
         /\ DOMAIN Append(s, x) = 1..(Len(s) + 1)
         /\ \A i \in DOMAIN s : Append(s, x)[i] = s[i]
         /\ Append(s, x)[Len(s) + 1] = x
OBVIOUS

LEMMA PrefixFacts ==
  ASSUME NEW S, NEW s \in Seq(S), NEW t \in Seq(S), Len(s) <= Len(t),
         \A i \in 1..Len(s) : s[i] = t[i]
  PROVE  IsPrefix(s, t)
<1> DEFINE n == Len(s)
           a == SubSeq(s, 1, n)
           b == SubSeq(t, 1, n)
<1>1. n \in Nat /\ (\A i \in 1..n : s[i] \in S) /\ (\A i \in 1..n : t[i] \in S)
  BY SeqFacts
<1> HIDE DEF n
<1>2. /\ a \in Seq(S) /\ Len(a) = n /\ \A i \in 1..n : a[i] = s[i]
      /\ b \in Seq(S) /\ Len(b) = n /\ \A i \in 1..n : b[i] = t[i]
  BY <1>1, SubSeqProperties
<1> HIDE DEF a, b
<1>3. \A i \in 1..n : a[i] = b[i]
  BY <1>2 DEF n
<1>4. a = b
  BY <1>2, <1>3
<1> QED
  BY <1>4 DEF IsPrefix, n, a, b

LEMMA RemoveAtFacts ==
  ASSUME NEW S, NEW s \in Seq(S), NEW i \in DOMAIN s
  PROVE  /\ RemoveAt(s, i) \in Seq(S)
         /\ Len(RemoveAt(s, i)) = Len(s) - 1
         /\ DOMAIN RemoveAt(s, i) = 1..(Len(s) - 1)
         /\ \A k \in 1..(Len(s) - 1) :
              RemoveAt(s, i)[k] = IF k < i THEN s[k] ELSE s[k + 1]
<1> DEFINE a == SubSeq(s, 1, i - 1)
           b == SubSeq(s, i + 1, Len(s))
<1>1. /\ Len(s) \in Nat /\ i \in 1..Len(s) /\ DOMAIN s = 1..Len(s)
      /\ \A k \in 1..Len(s) : s[k] \in S
  BY SeqFacts
<1>2. /\ a \in Seq(S) /\ Len(a) = i - 1
      /\ \A k \in 1..(i - 1) : a[k] = s[k]
  BY <1>1, SubSeqProperties
<1>3. /\ b \in Seq(S) /\ Len(b) = Len(s) - i
      /\ \A k \in 1..(Len(s) - i) : b[k] = s[i + k]
  BY <1>1, SubSeqProperties
<1>4. RemoveAt(s, i) = a \o b
  BY DEF RemoveAt
<1> HIDE DEF a, b
<1>5. /\ a \o b \in Seq(S) /\ Len(a \o b) = Len(s) - 1
      /\ DOMAIN (a \o b) = 1..(Len(s) - 1)
  <2>1. /\ a \o b \in Seq(S)
        /\ Len(a \o b) = Len(a) + Len(b)
    BY <1>2, <1>3, ConcatProperties
  <2>2. Len(a \o b) = Len(s) - 1
    BY <2>1, <1>1, <1>2, <1>3
  <2> QED BY <2>1, <2>2, SeqFacts
<1>6. \A k \in 1..(Len(s) - 1) :
        (a \o b)[k] = IF k < i THEN s[k] ELSE s[k + 1]
  <2> TAKE k \in 1..(Len(s) - 1)
  <2>1. CASE k < i
    BY <2>1, <1>1, <1>2, <1>3, ConcatProperties
  <2>2. CASE ~(k < i)
    <3>1. (a \o b)[k] = b[k - (i - 1)] /\ k - (i - 1) \in 1..(Len(s) - i)
      BY <2>2, <1>1, <1>2, <1>3, ConcatProperties, SMTT(30)
    <3>2. i + (k - (i - 1)) = k + 1
      BY <1>1
    <3> QED BY <3>1, <3>2, <2>2, <1>3
  <2> QED BY <2>1, <2>2
<1> QED BY <1>4, <1>5, <1>6

-----------------------------------------------------------------------------
(* The places of a sequence.                                               *)
LEMMA PlacesFinite ==
  ASSUME NEW n \in Nat, NEW S \in SUBSET (1..n)
  PROVE  IsFiniteSet(S) /\ Cardinality(S) \in Nat
<1>1. IsFiniteSet(1..n)
  BY FS_Interval
<1>2. IsFiniteSet(S)
  BY <1>1, FS_Subset, Zenon
<1> QED BY <1>2, FS_CardinalityType, Zenon

LEMMA PlacesAreNumbers ==
  ASSUME NEW n \in Nat, NEW S \in SUBSET (1..n)
  PROVE  S \subseteq Nat /\ \A i \in S : i \in Nat /\ 1 <= i /\ i <= n
OBVIOUS

LEMMA BeforePlaces ==
  ASSUME NEW n \in Nat, NEW S \in SUBSET (1..n), NEW i
  PROVE  /\ Before(S, i) \in SUBSET S
         /\ Before(S, i) \in SUBSET (1..n)
         /\ IsFiniteSet(Before(S, i))
         /\ Cardinality(Before(S, i)) \in Nat
<1>1. Before(S, i) \in SUBSET S
  BY Zenon DEF Before
<1>2. Before(S, i) \in SUBSET (1..n)
  BY <1>1, Zenon
<1> QED BY <1>1, <1>2, PlacesFinite, Zenon

(* Each place has fewer places before it than there are.                   *)
LEMMA BeforeCount ==
  ASSUME NEW n \in Nat, NEW S \in SUBSET (1..n), NEW i \in S
  PROVE  Cardinality(Before(S, i)) < Cardinality(S)
<1> DEFINE b == Cardinality(Before(S, i))
           c == Cardinality(S)
<1>1. b \in Nat /\ c \in Nat /\ IsFiniteSet(S) /\ Before(S, i) \in SUBSET S
  BY BeforePlaces, PlacesFinite, Zenon
<1>2. b <= c /\ (c = b => S = Before(S, i))
  BY <1>1, FS_Subset, Zenon
<1>3. i \in Nat
  OBVIOUS
<1>4. S # Before(S, i)
  BY <1>3 DEF Before
<1> QED BY <1>1, <1>2, <1>4

(* The places before a later one include the earlier one.                  *)
LEMMA BeforeGrows ==
  ASSUME NEW n \in Nat, NEW S \in SUBSET (1..n), NEW i \in S, NEW j \in S,
         i < j
  PROVE  Cardinality(Before(S, i)) < Cardinality(Before(S, j))
<1> DEFINE a == Cardinality(Before(S, i))
           b == Cardinality(Before(S, j))
<1>1. /\ a \in Nat /\ b \in Nat
      /\ IsFiniteSet(Before(S, j))
  BY BeforePlaces, Zenon
<1>2. \A k \in S : k \in Nat
  BY PlacesAreNumbers, Zenon
<1>3. Before(S, i) \in SUBSET Before(S, j)
  <2>1. \A k \in S : k < i => k < j
    BY <1>2
  <2> QED BY <2>1, Zenon DEF Before
<1>4. i \in Before(S, j) /\ i \notin Before(S, i)
  <2>1. ~(i < i)
    BY <1>2
  <2> QED BY <2>1, Zenon DEF Before
<1>5. a <= b /\ (b = a => Before(S, j) = Before(S, i))
  BY <1>1, <1>3, FS_Subset, Zenon
<1> QED BY <1>1, <1>4, <1>5

(* Every count up to the number of places is reached.                      *)
LEMMA NthExists ==
  ASSUME NEW n \in Nat, NEW S \in SUBSET (1..n), NEW k \in 1..Cardinality(S)
  PROVE  \E i \in S : Cardinality(Before(S, i)) = k - 1
<1> DEFINE Reached == {m \in Nat : Cardinality(Before(S, m)) >= k}
<1>1. Cardinality(S) \in Nat /\ \A j \in S : j \in Nat /\ 1 <= j /\ j <= n
  BY PlacesFinite, PlacesAreNumbers, Zenon
<1>2. n + 1 \in Reached
  <2>1. Before(S, n + 1) = S
    <3>1. \A j \in S : j < n + 1
      BY <1>1
    <3> QED BY <3>1, Zenon DEF Before
  <2> QED BY <2>1, <1>1
<1>3. PICK m \in Reached : \A l \in Reached : m <= l
  <2>1. Reached \subseteq Nat /\ Reached # {}
    BY <1>2
  <2> HIDE DEF Reached
  <2> QED BY <2>1, Least
<1>4. m \in Nat /\ m # 0
  <2>1. Before(S, 0) = {}
    <3>1. \A j \in S : ~(j < 0)
      BY <1>1
    <3> QED BY <3>1, Zenon DEF Before
  <2>2. Cardinality(Before(S, 0)) = 0
    BY <2>1, FS_EmptySet
  <2>3. 0 \notin Reached
    BY <2>2
  <2> QED BY <2>3, <1>3
<1> DEFINE i == m - 1
<1>5. i \in Nat /\ m = i + 1
  BY <1>4
<1>6. i \notin Reached
  BY <1>3, <1>5
<1> HIDE DEF i
<1>7. /\ Cardinality(Before(S, i)) \in Nat
      /\ Cardinality(Before(S, i + 1)) \in Nat
      /\ IsFiniteSet(Before(S, i))
  BY BeforePlaces, Zenon
<1>8. /\ Cardinality(Before(S, i)) < k
      /\ Cardinality(Before(S, i + 1)) >= k
  BY <1>1, <1>3, <1>5, <1>6, <1>7
<1>9. CASE i \notin S
  <2>1. Before(S, i + 1) = Before(S, i)
    <3>1. \A j \in S : j < i + 1 <=> j < i
      BY <1>1, <1>5, <1>9
    <3> QED BY <3>1, Zenon DEF Before
  <2> QED BY <2>1, <1>1, <1>7, <1>8
<1>10. CASE i \in S
  <2>1. Before(S, i + 1) = Before(S, i) \cup {i} /\ i \notin Before(S, i)
    <3>1. ~(i < i) /\ \A j \in S : j < i + 1 <=> j < i \/ j = i
      BY <1>1, <1>5
    <3> QED BY <1>10, <3>1, Zenon DEF Before
  <2>2. Cardinality(Before(S, i + 1)) = Cardinality(Before(S, i)) + 1
    BY <2>1, <1>7, FS_AddElement
  <2> QED BY <2>2, <1>1, <1>7, <1>8, <1>10
<1> QED BY <1>9, <1>10

(* The Nth places are the places, in their order.                          *)
LEMMA NthFacts ==
  ASSUME NEW n \in Nat, NEW S \in SUBSET (1..n)
  PROVE  /\ \A k \in 1..Cardinality(S) : Nth(S, k) \in S
         /\ \A k, l \in 1..Cardinality(S) : k < l => Nth(S, k) < Nth(S, l)
         /\ \A i \in S : \E k \in 1..Cardinality(S) : Nth(S, k) = i
<1>1. Cardinality(S) \in Nat /\ \A j \in S : j \in Nat
  BY PlacesFinite, PlacesAreNumbers, Zenon
<1>2. ASSUME NEW k \in 1..Cardinality(S)
      PROVE  /\ Nth(S, k) \in S
             /\ Cardinality(Before(S, Nth(S, k))) = k - 1
  <2>1. \E i \in S : Cardinality(Before(S, i)) = k - 1
    BY NthExists
  <2> QED BY <2>1, Zenon DEF Nth
<1>3. ASSUME NEW i \in S, NEW j \in S,
             Cardinality(Before(S, i)) <= Cardinality(Before(S, j))
      PROVE  i <= j
  <2>1. /\ Cardinality(Before(S, i)) \in Nat
        /\ Cardinality(Before(S, j)) \in Nat
    BY BeforePlaces, Zenon
  <2>2. j < i => Cardinality(Before(S, j)) < Cardinality(Before(S, i))
    BY BeforeGrows, Zenon
  <2>3. ~(j < i)
    BY <1>3, <2>1, <2>2
  <2> QED BY <1>1, <2>3
<1>4. ASSUME NEW k \in 1..Cardinality(S), NEW l \in 1..Cardinality(S), k < l
      PROVE  Nth(S, k) < Nth(S, l)
  <2>1. /\ Nth(S, k) \in S /\ Cardinality(Before(S, Nth(S, k))) = k - 1
        /\ Nth(S, l) \in S /\ Cardinality(Before(S, Nth(S, l))) = l - 1
    BY <1>2, Zenon
  <2>2. k - 1 < l - 1 /\ k - 1 <= l - 1
    BY <1>4, <1>1
  <2>3. Nth(S, k) <= Nth(S, l)
    BY <1>3, <2>1, <2>2
  <2>4. Nth(S, k) # Nth(S, l)
    BY <2>1, <2>2
  <2>5. Nth(S, k) \in Nat /\ Nth(S, l) \in Nat
    BY <1>1, <2>1, Zenon
  <2> QED BY <2>3, <2>4, <2>5
<1>5. ASSUME NEW i \in S
      PROVE  \E k \in 1..Cardinality(S) : Nth(S, k) = i
  <2> DEFINE c == Cardinality(Before(S, i))
  <2>1. c \in Nat /\ c < Cardinality(S)
    BY BeforeCount, BeforePlaces, Zenon
  <2> HIDE DEF c
  <2>2. c + 1 \in 1..Cardinality(S) /\ (c + 1) - 1 = c /\ c <= c
    BY <1>1, <2>1
  <2>3. Nth(S, c + 1) \in S /\ Cardinality(Before(S, Nth(S, c + 1))) = c
    BY <1>2, <2>2
  <2>4. Nth(S, c + 1) <= i /\ i <= Nth(S, c + 1)
    BY <1>3, <2>2, <2>3 DEF c
  <2>5. Nth(S, c + 1) = i
    <3>1. Nth(S, c + 1) \in Nat /\ i \in Nat
      BY <1>1, <2>3, Zenon
    <3> QED BY <2>4, <3>1
  <2> QED BY <2>2, <2>5
<1> QED BY <1>2, <1>4, <1>5

-----------------------------------------------------------------------------
(* The concatenation of a sequence of sequences has the items of each.     *)
(* FlattenSeq is a recursive function: that there is one takes induction.  *)
FlattenStep(s, f, n) ==
  [i \in 1..n |-> IF i = 1 THEN s[i] ELSE f[i - 1] \o s[i]]

LEMMA FlattenUnfolded ==
  ASSUME NEW s, Len(s) # 0
  PROVE  FlattenSeq(s) = (CHOOSE f : f = FlattenStep(s, f, Len(s)))[Len(s)]
BY DEF FlattenSeq, FlattenStep

LEMMA FlattenExists ==
  ASSUME NEW s, NEW n \in Nat
  PROVE  \E f : f = FlattenStep(s, f, n)
<1> DEFINE Missing == {m \in Nat : ~ \E f : f = FlattenStep(s, f, m)}
<1> SUFFICES ASSUME Missing # {} PROVE FALSE
  OBVIOUS
<1>1. PICK m \in Missing : \A k \in Missing : m <= k
  <2>1. Missing \subseteq Nat
    OBVIOUS
  <2> HIDE DEF Missing
  <2> QED
    BY <2>1, Least
<1>2. m # 0
  <2>1. <<>> = FlattenStep(s, <<>>, 0)
    BY DEF FlattenStep
  <2> QED
    BY <2>1
<1>3. m \in Nat /\ m - 1 \in Nat /\ ~(m <= m - 1)
  BY <1>2
<1>4. PICK g : g = FlattenStep(s, g, m - 1)
  BY <1>1, <1>3
<1> DEFINE f == [i \in 1..m |-> IF i # m THEN g[i]
                                ELSE IF i = 1 THEN s[i] ELSE g[i - 1] \o s[i]]
<1>5. \A i \in 1..(m - 1) :
        g[i] = IF i = 1 THEN s[i] ELSE g[i - 1] \o s[i]
  BY <1>4 DEF FlattenStep
<1>6. ASSUME NEW i \in 1..m
      PROVE  f[i] = IF i = 1 THEN s[i] ELSE f[i - 1] \o s[i]
  <2>1. CASE i = 1
    BY <1>3, <1>5, <2>1
  <2>2. CASE i # 1
    <3>1. /\ i - 1 \in 1..m /\ i - 1 # m
          /\ i # m => i \in 1..(m - 1)
      BY <1>3, <2>2
    <3>2. f[i - 1] = g[i - 1]
      BY <3>1
    <3>3. f[i] = g[i - 1] \o s[i]
      <4>1. CASE i = m
        BY <2>2, <4>1
      <4>2. CASE i # m
        BY <1>5, <2>2, <3>1, <4>2
      <4> QED
        BY <4>1, <4>2
    <3> QED
      BY <2>2, <3>2, <3>3
  <2> QED
    BY <2>1, <2>2
<1>7. DOMAIN f = 1..m
  OBVIOUS
<1>8. f = FlattenStep(s, f, m)
  <2>1. f = [i \in 1..m |-> f[i]]
    OBVIOUS
  <2> HIDE DEF f
  <2> QED
    BY <1>6, <2>1 DEF FlattenStep
<1> QED
  BY <1>1, <1>8

LEMMA JoinedItems ==
  ASSUME NEW S, NEW a \in Seq(S), NEW b \in Seq(S)
  PROVE  a \o b \in Seq(S) /\ ToSet(a \o b) = ToSet(a) \cup ToSet(b)
<1>1. /\ a \o b \in Seq(S) /\ Len(a \o b) = Len(a) + Len(b)
      /\ \A i \in 1..Len(a) : (a \o b)[i] = a[i]
      /\ \A i \in (Len(a) + 1)..(Len(a) + Len(b)) : (a \o b)[i] = b[i - Len(a)]
  BY ConcatProperties
<1> DEFINE c == a \o b
<1>2. /\ DOMAIN c = 1..(Len(a) + Len(b)) /\ Len(a) \in Nat /\ Len(b) \in Nat
      /\ DOMAIN a = 1..Len(a) /\ DOMAIN b = 1..Len(b)
  BY <1>1, SeqFacts
<1> HIDE DEF c
<1>3. \A i \in DOMAIN c : c[i] \in ToSet(a) \cup ToSet(b)
  <2> SUFFICES ASSUME NEW i \in DOMAIN c
               PROVE  c[i] \in ToSet(a) \cup ToSet(b)
    OBVIOUS
  <2>1. CASE i <= Len(a)
    BY <1>1, <1>2, <2>1 DEF ToSet, c
  <2>2. CASE ~(i <= Len(a))
    <3>1. i - Len(a) \in DOMAIN b /\ c[i] = b[i - Len(a)]
      BY <1>1, <1>2, <2>2 DEF c
    <3> QED
      BY <3>1 DEF ToSet
  <2> QED
    BY <2>1, <2>2
<1>4. \A i \in DOMAIN a : i \in DOMAIN c /\ c[i] = a[i]
  BY <1>1, <1>2 DEF c
<1>5. \A i \in DOMAIN b : i + Len(a) \in DOMAIN c /\ c[i + Len(a)] = b[i]
  BY <1>1, <1>2 DEF c
<1>6. ToSet(c) = ToSet(a) \cup ToSet(b)
  BY <1>3, <1>4, <1>5 DEF ToSet
<1> QED
  BY <1>1, <1>6 DEF c

LEMMA FlattenItems ==
  ASSUME NEW S, NEW s \in Seq(Seq(S))
  PROVE  ToSet(FlattenSeq(s)) = UNION {ToSet(s[i]) : i \in DOMAIN s}
<1>1. Len(s) \in Nat /\ DOMAIN s = 1..Len(s) /\ \A i \in DOMAIN s : s[i] \in Seq(S)
  BY SeqFacts
<1>2. CASE Len(s) = 0
  <2>1. DOMAIN s = {}
    BY <1>1, <1>2
  <2>2. FlattenSeq(s) = s
    BY <1>2 DEF FlattenSeq
  <2> QED
    BY <2>1, <2>2 DEF ToSet
<1>3. CASE Len(s) # 0
  <2> DEFINE f == CHOOSE g : g = FlattenStep(s, g, Len(s))
             Items(n) == UNION {ToSet(s[i]) : i \in 1..n}
             Bad == {n \in 1..Len(s) :
                       ~(f[n] \in Seq(S) /\ ToSet(f[n]) = Items(n))}
  <2>1. FlattenSeq(s) = f[Len(s)]
    BY <1>3, FlattenUnfolded
  <2>2. f = FlattenStep(s, f, Len(s))
    BY <1>1, FlattenExists
  <2> HIDE DEF f
  <2>3. \A i \in 1..Len(s) : f[i] = IF i = 1 THEN s[i] ELSE f[i - 1] \o s[i]
    BY <2>2 DEF FlattenStep
  <2>4. Bad = {}
    <3> SUFFICES ASSUME Bad # {} PROVE FALSE
      OBVIOUS
    <3>1. PICK n \in Bad : \A k \in Bad : n <= k
      <4>1. Bad \subseteq Nat
        OBVIOUS
      <4> HIDE DEF Bad
      <4> QED
        BY <4>1, Least
    <3>2. n \in 1..Len(s) /\ n \in Nat /\ s[n] \in Seq(S)
      BY <1>1, <3>1
    <3>3. CASE n = 1
      <4>1. f[n] = s[n]
        BY <2>3, <3>2, <3>3
      <4>2. 1..n = {n}
        BY <3>3
      <4> QED
        BY <3>1, <3>2, <4>1, <4>2
    <3>4. CASE n # 1
      <4>1. n - 1 \in 1..Len(s) /\ ~(n <= n - 1)
        BY <3>2, <3>4
      <4>2. f[n - 1] \in Seq(S) /\ ToSet(f[n - 1]) = Items(n - 1)
        BY <3>1, <4>1
      <4>3. f[n] = f[n - 1] \o s[n]
        BY <2>3, <3>2, <3>4
      <4>4. /\ f[n] \in Seq(S)
            /\ ToSet(f[n]) = Items(n - 1) \cup ToSet(s[n])
        BY <3>2, <4>2, <4>3, JoinedItems
      <4>5. 1..n = (1..(n - 1)) \cup {n}
        BY <3>2, <3>4
      <4>6. Items(n) = Items(n - 1) \cup ToSet(s[n])
        BY <4>5
      <4> QED
        BY <3>1, <4>4, <4>6
    <3> QED
      BY <3>3, <3>4
  <2>5. Len(s) \in 1..Len(s)
    BY <1>1, <1>3
  <2>6. ToSet(f[Len(s)]) = Items(Len(s))
    BY <2>4, <2>5
  <2> QED
    BY <1>1, <2>1, <2>6
<1> QED
  BY <1>2, <1>3

=============================================================================

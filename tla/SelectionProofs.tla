---------------------------- MODULE SelectionProofs ----------------------------
(***************************************************************************)
(* TLAPS proofs about Selection: the elements of a sequence that pass a    *)
(* test; about the members of a set in some order and the concatenation of *)
(* sequences.  The other modules of proofs cite these lemmas.              *)
(***************************************************************************)
EXTENDS Selection, SequencesExt, FiniteSetTheorems, SequenceTheorems, NaturalsInduction,
        WellFoundedInduction, TLAPS

IsSeq(s) == s \in Seq(Range(s))

(* Filtering a sequence by positions.                                        *)

LEMMA Least ==
  ASSUME NEW T, T \subseteq Nat, T # {}
  PROVE  \E k \in T : \A m \in T : k <= m
<1> DEFINE R == OpToRel(<, Nat)
<1>1. \A x, y \in Nat : x < y => <<x, y>> \in R
  BY DEF OpToRel
<1>2. IsWellFoundedOn(R, Nat)
  BY NatLessThanWellFounded
<1> HIDE DEF R
<1>3. PICK x \in T : \A y \in T : ~(<<y, x>> \in R)
  BY <1>2, WFMin
<1>4. ASSUME NEW y \in T PROVE x <= y
  <2>1. x \in Nat /\ y \in Nat /\ ~(y < x)
    BY <1>1, <1>3
  <2> QED
    BY <2>1
<1> QED
  BY <1>4

\* The place of a number in a set of numbers
Place(I, i) == Cardinality({j \in I : j <= i})

LEMMA PlaceFacts ==
  ASSUME NEW I, IsFiniteSet(I), I \subseteq Nat, NEW i \in I
  PROVE  /\ Place(I, i) \in 1..Cardinality(I)
         /\ \A j \in I : i < j => Place(I, i) < Place(I, j)
<1> DEFINE below(j) == {k \in I : k <= j}
           n == Cardinality(I)
<1>1. n \in Nat
  BY FS_CardinalityType
<1>2. ASSUME NEW j
      PROVE  IsFiniteSet(below(j)) /\ Cardinality(below(j)) \in Nat /\ Cardinality(below(j)) <= n
  <2>1. below(j) \in SUBSET I
    OBVIOUS
  <2> QED
    BY <2>1, FS_Subset, FS_CardinalityType
<1>3. Cardinality(below(i)) \in 1..n
  <2>1. below(i) # {}
    OBVIOUS
  <2>2. Cardinality(below(i)) # 0
    BY <2>1, <1>2, FS_EmptySet
  <2> QED
    BY <1>1, <1>2, <2>2
<1>4. ASSUME NEW j \in I, i < j
      PROVE  Cardinality(below(i)) < Cardinality(below(j))
  <2>0. i \in Nat /\ j \in Nat /\ \A k \in I : k \in Nat
    OBVIOUS
  <2>1. below(i) \in SUBSET below(j) /\ j \in below(j) /\ j \notin below(i)
    <3>1. ASSUME NEW k \in I, k <= i PROVE k <= j
      BY <1>4, <2>0, <3>1
    <3>2. j <= j /\ ~(j <= i)
      BY <1>4, <2>0
    <3> QED
      BY <3>1, <3>2
  <2>2. below(i) # below(j)
    BY <2>1
  <2> HIDE DEF below
  <2> QED
    BY <1>2, <2>1, <2>2, FS_Subset
<1> HIDE DEF below
<1> QED
  BY <1>3, <1>4 DEF below, Place

\* No two members have the same place, so every place is taken.
LEMMA PlacesApart ==
  ASSUME NEW I, IsFiniteSet(I), I \subseteq Nat, NEW i \in I, NEW j \in I, Place(I, i) = Place(I, j)
  PROVE  i = j
<1>1. i \in Nat /\ j \in Nat /\ Cardinality(I) \in Nat
  BY FS_CardinalityType
<1> DEFINE a == Place(I, i)
           b == Place(I, j)
<1>2. (i < j => a < b) /\ (j < i => b < a) /\ a \in 1..Cardinality(I) /\ b \in 1..Cardinality(I) /\ a = b
  BY PlaceFacts
<1> HIDE DEF a, b
<1> QED
  BY <1>1, <1>2

\* Counting from below numbers the members of a finite set of numbers.
LEMMA NthFacts ==
  ASSUME NEW I, IsFiniteSet(I), I \subseteq Nat
  PROVE  /\ Cardinality(I) \in Nat
         /\ \A k \in 1..Cardinality(I) :
              Nth(I, k) \in I /\ Cardinality({j \in I : j <= Nth(I, k)}) = k
<1> DEFINE n == Cardinality(I)
           f == [i \in I |-> Place(I, i)]
<1>1. n \in Nat
  BY FS_CardinalityType
<1>2. f \in Injection(I, 1..n)
  <2>1. f \in [I -> 1..n]
    BY PlaceFacts
  <2>2. ASSUME NEW i \in I, NEW j \in I, f[i] = f[j]
        PROVE  i = j
    BY <2>2, PlacesApart
  <2> QED
    BY <2>1, <2>2 DEF Injection, IsInjective
<1>3. IsFiniteSet(1..n) /\ Cardinality(1..n) = n
  BY <1>1, FS_Interval
<1>4. f \in Surjection(I, 1..n)
  BY <1>2, <1>3, FS_Injection
<1>5. ASSUME NEW k \in 1..n
      PROVE  Nth(I, k) \in I /\ Cardinality({j \in I : j <= Nth(I, k)}) = k
  <2>1. \E i \in I : f[i] = k
    BY <1>4 DEF Surjection
  <2>2. \E i \in I : Place(I, i) = k
    BY <2>1
  <2>3. \E i \in I : Cardinality({j \in I : j <= i}) = k
    BY <2>2 DEF Place
  <2> QED
    BY <2>3 DEF Nth
<1> QED
  BY <1>1, <1>5

LEMMA NthIs ==
  ASSUME NEW I, IsFiniteSet(I), I \subseteq Nat, NEW i \in I, NEW k, Place(I, i) = k
  PROVE  Nth(I, k) = i
<1>1. k \in 1..Cardinality(I)
  BY PlaceFacts
<1>2. Nth(I, k) \in I /\ Cardinality({j \in I : j <= Nth(I, k)}) = k
  BY <1>1, NthFacts
<1> DEFINE m == Nth(I, k)
<1>3. m \in I /\ Place(I, m) = k
  BY <1>2 DEF Place
<1> HIDE DEF m
<1>4. m = i
  BY <1>3, PlacesApart
<1> QED
  BY <1>4 DEF m

LEMMA NthOrder ==
  ASSUME NEW I, IsFiniteSet(I), I \subseteq Nat,
         NEW j \in 1..Cardinality(I), NEW k \in 1..Cardinality(I)
  PROVE  j <= k <=> Nth(I, j) <= Nth(I, k)
<1> DEFINE a == Nth(I, j)
           b == Nth(I, k)
<1>1. a \in I /\ Place(I, a) = j /\ b \in I /\ Place(I, b) = k /\ Cardinality(I) \in Nat
  BY NthFacts DEF Place
<1> HIDE DEF a, b
<1>2. (a < b => j < k) /\ (b < a => k < j) /\ (a = b => j = k)
  BY <1>1, PlaceFacts
<1>3. a \in Nat /\ b \in Nat /\ j \in Nat /\ k \in Nat
  BY <1>1
<1>4. j <= k <=> a <= b
  BY <1>2, <1>3
<1> QED
  BY <1>4 DEF a, b

\* A larger number comes last.
LEMMA NthExtend ==
  ASSUME NEW I, IsFiniteSet(I), I \subseteq Nat, NEW n \in Nat, \A i \in I : i < n
  PROVE  /\ Cardinality(I) \in Nat /\ Cardinality(I \cup {n}) = Cardinality(I) + 1
         /\ \A k \in 1..Cardinality(I) : Nth(I \cup {n}, k) = Nth(I, k)
         /\ Nth(I \cup {n}, Cardinality(I) + 1) = n
<1> DEFINE J == I \cup {n}
           c == Cardinality(I)
<1>1. n \notin I /\ n \in J /\ I \subseteq J /\ J \subseteq Nat
  OBVIOUS
<1>2. c \in Nat /\ IsFiniteSet(J) /\ Cardinality(J) = c + 1
  BY <1>1, FS_CardinalityType, FS_AddElement
<1>3. Place(J, n) = c + 1
  <2>1. {j \in J : j <= n} = J
    <3>1. \A j \in J : j <= n
      OBVIOUS
    <3> QED
      BY <3>1
  <2> HIDE DEF J, c
  <2> QED
    BY <1>2, <2>1 DEF Place
<1>4. ASSUME NEW i \in I PROVE Place(J, i) = Place(I, i)
  <2>1. i \in Nat /\ i < n /\ ~(n <= i)
    OBVIOUS
  <2>2. {j \in J : j <= i} = {j \in I : j <= i}
    BY <2>1
  <2> QED
    BY <2>2 DEF Place
<1>5. ASSUME NEW k \in 1..c PROVE Nth(J, k) = Nth(I, k)
  <2> DEFINE i == Nth(I, k)
  <2>1. i \in I /\ Place(I, i) = k
    BY NthFacts DEF Place
  <2> HIDE DEF i, J
  <2>2. i \in J /\ Place(J, i) = k
    BY <1>1, <1>4, <2>1
  <2>3. Nth(J, k) = i
    BY <1>1, <1>2, <2>2, NthIs
  <2> QED
    BY <2>3 DEF i
<1> HIDE DEF J, c
<1>6. Nth(J, c + 1) = n
  BY <1>1, <1>2, <1>3, NthIs
<1> QED
  BY <1>2, <1>5, <1>6 DEF J, c

\* Filtering: the k-th element kept is that at the k-th position kept, and no
\* position is kept twice.
LEMMA PickedFacts ==
  ASSUME NEW s, IsSeq(s), NEW I, I \subseteq DOMAIN s
  PROVE  /\ Cardinality(I) \in Nat
         /\ IsSeq(Picked(s, I)) /\ DOMAIN Picked(s, I) = 1..Cardinality(I)
         /\ Len(Picked(s, I)) = Cardinality(I)
         /\ \A k \in 1..Cardinality(I) : Nth(I, k) \in I /\ Picked(s, I)[k] = s[Nth(I, k)]
         /\ \A j, k \in 1..Cardinality(I) : j # k => Nth(I, j) # Nth(I, k)
<1>1. Len(s) \in Nat /\ DOMAIN s = 1..Len(s)
  BY DEF IsSeq
<1>2. IsFiniteSet(I) /\ I \subseteq Nat
  <2> DEFINE n == Len(s)
  <2>1. n \in Int /\ I \in SUBSET (1..n)
    BY <1>1
  <2> HIDE DEF n
  <2>2. IsFiniteSet(1..n)
    BY <2>1, FS_Interval
  <2> QED
    BY <2>1, <2>2, FS_Subset
<1>3. /\ Cardinality(I) \in Nat
      /\ \A k \in 1..Cardinality(I) :
           Nth(I, k) \in I /\ Cardinality({j \in I : j <= Nth(I, k)}) = k
  BY <1>2, NthFacts
<1> DEFINE n == Cardinality(I)
           p == Picked(s, I)
<1>4. p = [k \in 1..n |-> s[Nth(I, k)]]
  BY DEF Picked
<1>5. DOMAIN p = 1..n /\ \A k \in 1..n : p[k] = s[Nth(I, k)]
  BY <1>4
<1> HIDE DEF p, n
<1>6. p \in Seq(Range(p)) /\ Len(p) = n
  <2>1. p \in [1..n -> Range(p)]
    BY <1>4, <1>5 DEF Range
  <2> QED
    BY <1>3, <2>1 DEF n
<1> QED
  BY <1>3, <1>5, <1>6 DEF p, n, IsSeq

LEMMA PickedType ==
  ASSUME NEW S, NEW s \in Seq(S), NEW I, I \subseteq DOMAIN s
  PROVE  Picked(s, I) \in Seq(S) /\ Range(Picked(s, I)) \subseteq Range(s)
<1>1. IsSeq(s)
  BY DEF IsSeq, Range
<1> DEFINE p == Picked(s, I)
           n == Cardinality(I)
<1>2. /\ n \in Nat /\ IsSeq(p) /\ DOMAIN p = 1..n /\ Len(p) = n
      /\ \A k \in 1..n : Nth(I, k) \in I /\ p[k] = s[Nth(I, k)]
  BY <1>1, PickedFacts
<1> HIDE DEF p, n
<1>3. \A k \in 1..n : \E j \in DOMAIN s : p[k] = s[j]
  BY <1>2
<1>4. Range(p) \subseteq Range(s)
  BY <1>2, <1>3 DEF Range
<1>5. \A j \in DOMAIN s : s[j] \in S
  OBVIOUS
<1>6. \A k \in 1..n : p[k] \in S
  BY <1>3, <1>5
<1>7. p = [k \in 1..n |-> p[k]]
  BY <1>2 DEF IsSeq
<1>8. p \in [1..n -> S]
  BY <1>6, <1>7
<1> QED
  BY <1>2, <1>4, <1>8 DEF p

\* A filter that keeps everything changes nothing.
LEMMA PickedAll ==
  ASSUME NEW s, IsSeq(s)
  PROVE  Picked(s, DOMAIN s) = s
<1> DEFINE n == Len(s)
<1>1. n \in Nat /\ DOMAIN s = 1..n /\ s = [k \in 1..n |-> s[k]]
  BY DEF IsSeq
<1> HIDE DEF n
<1>2. IsFiniteSet(1..n) /\ Cardinality(1..n) = n
  BY <1>1, FS_Interval
<1>3. ASSUME NEW k \in 1..n
      PROVE  Nth(1..n, k) = k
  <2> DEFINE i == Nth(1..n, k)
  <2>1. i \in 1..n /\ Cardinality({j \in 1..n : j <= i}) = k
    <3> DEFINE I == 1..n
    <3>1. IsFiniteSet(I) /\ I \subseteq Nat /\ Cardinality(I) = n
      BY <1>1, <1>2
    <3> HIDE DEF I
    <3>2. \A m \in 1..Cardinality(I) :
            Nth(I, m) \in I /\ Cardinality({j \in I : j <= Nth(I, m)}) = m
      BY <3>1, NthFacts
    <3> QED
      BY <3>1, <3>2 DEF I
  <2> HIDE DEF i
  <2>2. {j \in 1..n : j <= i} = 1..i
    BY <1>1, <2>1
  <2>3. Cardinality(1..i) = i
    <3>1. i \in Int /\ 1 \in Int /\ ~(1 > i) /\ i - 1 + 1 = i
      BY <1>1, <2>1
    <3>2. Cardinality(1..i) = IF 1 > i THEN 0 ELSE i - 1 + 1
      BY <3>1, FS_Interval
    <3> QED
      BY <3>1, <3>2
  <2> QED
    BY <2>1, <2>2, <2>3 DEF i
<1> QED
  BY <1>1, <1>2, <1>3 DEF Picked


\* The members of a finite set in some order
LEMMA SetToSeqFacts ==
  ASSUME NEW S, IsFiniteSet(S)
  PROVE  SetToSeq(S) \in Seq(S)
<1> DEFINE n == Cardinality(S)
<1>1. n \in Nat
  BY FS_CardinalityType
<1>2. PICK f : f \in Bijection(1..n, S)
  BY FS_CardinalityType DEF ExistsBijection
<1>3. f \in [1..n -> S] /\ IsInjective(f)
  BY <1>2 DEF Bijection, Injection
<1>4. SetToSeq(S) \in [1..n -> S]
  BY <1>3 DEF SetToSeq
<1> HIDE DEF n
<1> QED
  BY <1>1, <1>4

-----------------------------------------------------------------------------
(* What is left of a sequence that is filtered twice; concatenations along a  *)
(* sequence.                                                                 *)

LEMMA NthImage ==
  ASSUME NEW X, IsFiniteSet(X), X \subseteq Nat, NEW A, A \subseteq 1..Cardinality(X)
  PROVE  IsFiniteSet(A) /\ Cardinality({Nth(X, k) : k \in A}) = Cardinality(A)
<1> DEFINE n == Cardinality(X)
           B == {Nth(X, k) : k \in A}
           g == [k \in A |-> Nth(X, k)]
<1>1. n \in Nat /\ \A k \in 1..n : Nth(X, k) \in X /\ Place(X, Nth(X, k)) = k
  BY NthFacts DEF Place
<1>2. IsFiniteSet(A)
  <2>1. IsFiniteSet(1..n)
    BY <1>1, FS_Interval
  <2> QED
    BY <2>1, FS_Subset
<1> HIDE DEF n
<1>3. \A i, j \in A : g[i] = g[j] => i = j
  <2> SUFFICES ASSUME NEW i \in A, NEW j \in A, g[i] = g[j] PROVE i = j
    OBVIOUS
  <2>1. Nth(X, i) = Nth(X, j)
    OBVIOUS
  <2>2. i \in 1..n /\ j \in 1..n
    BY DEF n
  <2> QED
    BY <1>1, <2>1, <2>2
<1>4. g \in Bijection(A, B)
  <2>1. g \in [A -> B] /\ \A t \in B : \E s \in A : g[s] = t
    OBVIOUS
  <2> HIDE DEF g, B
  <2> QED
    BY <1>3, <2>1 DEF Bijection, Injection, Surjection, IsInjective
<1>5. ExistsBijection(A, B)
  BY <1>4 DEF ExistsBijection
<1> HIDE DEF B
<1>6. Cardinality(B) = Cardinality(A)
  BY <1>2, <1>5, FS_Bijection
<1> QED
  BY <1>2, <1>6 DEF B

\* The places J in X of the members of O
Selects(J, X, O) ==
  /\ J \subseteq 1..Cardinality(X)
  /\ \A k \in 1..Cardinality(X) : k \in J <=> Nth(X, k) \in O

Composes(J, X, O) ==
  /\ Cardinality(J) = Cardinality(O) /\ Cardinality(O) \in Nat
  /\ \A k \in 1..Cardinality(O) : Nth(J, k) \in J /\ Nth(X, Nth(J, k)) = Nth(O, k)

\* Filtering what was filtered is filtering once.
LEMMA NthCompose ==
  ASSUME NEW X, IsFiniteSet(X), X \subseteq Nat, NEW O, O \subseteq X, NEW J, Selects(J, X, O)
  PROVE  Composes(J, X, O)
<1> USE DEF Selects
<1> DEFINE n == Cardinality(X)
<1>1. n \in Nat /\ \A k \in 1..n : Nth(X, k) \in X /\ Place(X, Nth(X, k)) = k
  BY NthFacts DEF Place
<1>2. J \subseteq 1..n /\ J \subseteq Nat /\ O \subseteq Nat /\ \A k \in J : Nth(X, k) \in O
  BY <1>1
<1>3. IsFiniteSet(O) /\ Cardinality(O) \in Nat
  BY FS_Subset, FS_CardinalityType
<1>4. \A o \in O : Place(X, o) \in 1..n /\ Nth(X, Place(X, o)) = o
  BY PlaceFacts, NthIs
<1>5. O = {Nth(X, k) : k \in J}
  <2>1. \A o \in O : \E k \in J : o = Nth(X, k)
    BY <1>4
  <2> QED
    BY <1>2, <2>1
<1>6. IsFiniteSet(J) /\ Cardinality(J) = Cardinality(O)
  BY <1>2, <1>5, NthImage
<1>7. ASSUME NEW k \in 1..Cardinality(O)
      PROVE  Nth(J, k) \in J /\ Nth(X, Nth(J, k)) = Nth(O, k)
  <2> DEFINE m == Nth(J, k)
             o == Nth(X, m)
             A == {i \in J : i <= m}
             B == {j \in O : j <= o}
  <2>1. m \in J /\ Cardinality(A) = k
    BY <1>2, <1>6, NthFacts
  <2> HIDE DEF m
  <2>2. o \in O
    BY <1>2, <2>1
  <2>3. \A i \in J : i <= m <=> Nth(X, i) <= o
    BY <1>2, <2>1, NthOrder
  <2>4. B = {Nth(X, i) : i \in A}
    <3> HIDE DEF o
    <3>1. \A j \in B : \E i \in A : j = Nth(X, i)
      <4> SUFFICES ASSUME NEW j \in O, j <= o PROVE \E i \in A : j = Nth(X, i)
        OBVIOUS
      <4>1. PICK i \in J : j = Nth(X, i)
        BY <1>5
      <4>2. i <= m
        BY <2>3, <4>1
      <4> QED
        BY <4>1, <4>2
    <3>2. \A i \in A : Nth(X, i) \in B
      BY <1>2, <2>3
    <3> QED
      BY <3>1, <3>2
  <2>5. A \subseteq 1..n
    BY <1>2
  <2> HIDE DEF A, B, o
  <2>6. Cardinality(B) = k
    BY <2>1, <2>4, <2>5, NthImage
  <2>7. Place(O, o) = k
    BY <2>6 DEF Place, B
  <2>8. Nth(O, k) = o
    BY <1>2, <1>3, <2>2, <2>7, NthIs
  <2> QED
    BY <2>1, <2>8 DEF m, o
<1> QED
  BY <1>3, <1>6, <1>7 DEF Composes

\* Running concatenations exist: FlattenSeq is the last of them.
LEMMA FlattenFacts ==
  ASSUME NEW S, NEW s \in Seq(Seq(S)), s # <<>>
  PROVE  \E f \in [1..Len(s) -> Seq(S)] :
           /\ f[1] = s[1]
           /\ \A k \in 2..Len(s) : f[k] = f[k - 1] \o s[k]
           /\ FlattenSeq(s) = f[Len(s)]
<1> DEFINE n == Len(s)
           Joins(m, f) == /\ f \in [1..m -> Seq(S)] /\ f[1] = s[1]
                          /\ \A k \in 2..m : f[k] = f[k - 1] \o s[k]
           T == {m \in 1..n : ~\E f : Joins(m, f)}
<1>1. n \in Nat /\ n # 0 /\ \A k \in 1..n : s[k] \in Seq(S)
  OBVIOUS
<1> HIDE DEF n, Joins
<1>2. T = {}
  <2> SUFFICES ASSUME T # {} PROVE FALSE
    OBVIOUS
  <2>1. T \subseteq Nat
    BY <1>1
  <2>2. PICK m \in T : \A k \in T : m <= k
    BY <2>1, Least
  <2>3. m \in 1..n /\ ~\E f : Joins(m, f)
    OBVIOUS
  <2>4. CASE m = 1
    <3> DEFINE f == [k \in 1..1 |-> s[1]]
    <3>1. f \in [1..1 -> Seq(S)] /\ f[1] = s[1]
      BY <1>1
    <3> HIDE DEF f
    <3>2. Joins(1, f)
      BY <3>1 DEF Joins
    <3> QED
      BY <2>3, <2>4, <3>2
  <2>5. CASE m # 1
    <3>1. m - 1 \in 1..n /\ m - 1 \notin T /\ m \in Nat /\ m \in 1..n /\ 1 \in 1..(m - 1)
      <4> HIDE DEF T
      <4>1. m \in 1..n
        BY <2>3
      <4>2. m - 1 \in 1..n /\ ~(m <= m - 1) /\ m \in Nat /\ 1 \in 1..(m - 1)
        BY <1>1, <2>5, <4>1
      <4> QED
        BY <2>2, <4>1, <4>2
    <3>2. PICK f : Joins(m - 1, f)
      BY <3>1
    <3> USE DEF Joins
    <3>3. f[m - 1] \in Seq(S) /\ s[m] \in Seq(S)
      BY <1>1, <3>1, <3>2
    <3> PICK x : x = f[m - 1] \o s[m]
      OBVIOUS
    <3>4. x \in Seq(S)
      BY <3>3
    <3> DEFINE g == [k \in 1..m |-> IF k = m THEN x ELSE f[k]]
    <3>5. \A k \in 1..m : k = m \/ k \in 1..(m - 1)
      BY <3>1
    <3>6. g \in [1..m -> Seq(S)]
      BY <3>2, <3>4, <3>5
    <3>7. g[m] = x /\ \A k \in 1..(m - 1) : g[k] = f[k]
      <4>1. m \in 1..m /\ \A k \in 1..(m - 1) : k \in 1..m /\ k # m
        BY <3>1
      <4> QED
        BY <4>1
    <3> HIDE DEF g
    <3>8. \A k \in 2..m : g[k] = g[k - 1] \o s[k]
      <4> SUFFICES ASSUME NEW k \in 2..m PROVE g[k] = g[k - 1] \o s[k]
        OBVIOUS
      <4>1. k - 1 \in 1..(m - 1) /\ (k # m => k \in 2..(m - 1) /\ k \in 1..(m - 1))
        BY <3>1
      <4>2. g[k - 1] = f[k - 1]
        BY <3>7, <4>1
      <4>3. CASE k = m
        BY <3>7, <4>2, <4>3
      <4>4. CASE k # m
        BY <3>2, <3>7, <4>1, <4>2, <4>4
      <4> QED
        BY <4>3, <4>4
    <3>9. g[1] = s[1]
      BY <3>1, <3>2, <3>7
    <3>10. Joins(m, g)
      BY <3>6, <3>8, <3>9
    <3> QED
      BY <2>3, <3>10
  <2> QED
    BY <2>4, <2>5
<1>3. PICK f : Joins(n, f)
  <2>1. n \in 1..n
    BY <1>1
  <2> QED
    BY <1>2, <2>1
<1> USE DEF Joins
<1>4. \E g : g = [i \in 1..n |-> IF i = 1 THEN s[i] ELSE g[i - 1] \o s[i]]
  <2>1. \A i \in 1..n : f[i] = IF i = 1 THEN s[i] ELSE f[i - 1] \o s[i]
    <3> SUFFICES ASSUME NEW i \in 1..n, i # 1 PROVE f[i] = f[i - 1] \o s[i]
      BY <1>3
    <3>1. i \in 2..n
      BY <1>1
    <3> QED
      BY <1>3, <3>1
  <2>2. f = [i \in 1..n |-> f[i]]
    BY <1>3
  <2>3. f = [i \in 1..n |-> IF i = 1 THEN s[i] ELSE f[i - 1] \o s[i]]
    BY <2>1, <2>2
  <2> QED
    BY <2>3
<1>5. PICK g : /\ g = [i \in 1..n |-> IF i = 1 THEN s[i] ELSE g[i - 1] \o s[i]]
               /\ FlattenSeq(s) = g[n]
  BY <1>1, <1>4 DEF FlattenSeq, n
<1>6. g[1] = s[1] /\ \A k \in 2..n : g[k] = g[k - 1] \o s[k]
  <2>1. 1 \in 1..n /\ \A k \in 2..n : k \in 1..n /\ k # 1
    BY <1>1
  <2> QED
    BY <1>5, <2>1
<1>7. \A k \in 1..n : g[k] \in Seq(S)
  <2> DEFINE U == {k \in 1..n : g[k] \notin Seq(S)}
  <2> SUFFICES ASSUME U # {} PROVE FALSE
    OBVIOUS
  <2>1. U \subseteq Nat
    BY <1>1
  <2>2. PICK k \in U : \A j \in U : k <= j
    BY <2>1, Least
  <2>3. k \in 1..n /\ g[k] \notin Seq(S)
    OBVIOUS
  <2>4. k # 1
    BY <1>1, <1>6, <2>3
  <2>5. k \in 2..n /\ k - 1 \in 1..n /\ k - 1 \notin U
    BY <1>1, <2>2, <2>3, <2>4
  <2>6. g[k - 1] \in Seq(S) /\ s[k] \in Seq(S) /\ g[k] = g[k - 1] \o s[k]
    BY <1>1, <1>6, <2>3, <2>5
  <2> PICK x : x = g[k - 1]
    OBVIOUS
  <2> QED
    BY <2>3, <2>6
<1>8. g \in [1..n -> Seq(S)]
  BY <1>5, <1>7
<1> QED
  BY <1>5, <1>6, <1>8 DEF n

LEMMA FlattenAppend ==
  ASSUME NEW S, NEW s \in Seq(Seq(S)), NEW t \in Seq(S)
  PROVE  FlattenSeq(Append(s, t)) = FlattenSeq(s) \o t
<1> DEFINE n == Len(s)
           u == Append(s, t)
<1>1. n \in Nat /\ u \in Seq(Seq(S)) /\ Len(u) = n + 1 /\ u[n + 1] = t
      /\ \A k \in 1..n : u[k] = s[k]
  OBVIOUS
<1> HIDE DEF u
<1>2. u # <<>>
  BY <1>1
<1>3. PICK g \in [1..(n + 1) -> Seq(S)] :
        /\ g[1] = u[1]
        /\ \A k \in 2..(n + 1) : g[k] = g[k - 1] \o u[k]
        /\ FlattenSeq(u) = g[n + 1]
  <2>1. \E g \in [1..Len(u) -> Seq(S)] :
          /\ g[1] = u[1]
          /\ \A k \in 2..Len(u) : g[k] = g[k - 1] \o u[k]
          /\ FlattenSeq(u) = g[Len(u)]
    BY <1>1, <1>2, FlattenFacts
  <2> QED
    BY <1>1, <2>1
<1>4. CASE n = 0
  <2>1. s = <<>> /\ FlattenSeq(s) = s
    BY <1>4 DEF FlattenSeq
  <2>2. FlattenSeq(u) = t
    BY <1>1, <1>3, <1>4
  <2>3. <<>> \o t = t
    OBVIOUS
  <2> QED
    BY <2>1, <2>2, <2>3 DEF u
<1>5. CASE n # 0
  <2>1. s # <<>>
    BY <1>5
  <2>2. PICK f \in [1..n -> Seq(S)] :
          /\ f[1] = s[1]
          /\ \A k \in 2..n : f[k] = f[k - 1] \o s[k]
          /\ FlattenSeq(s) = f[n]
    BY <2>1, FlattenFacts
  <2> HIDE DEF n
  <2> DEFINE T == {k \in 1..n : f[k] # g[k]}
  <2>3. T = {}
    <3> SUFFICES ASSUME T # {} PROVE FALSE
      OBVIOUS
    <3>1. T \subseteq Nat
      BY <1>1
    <3>2. PICK k \in T : \A j \in T : k <= j
      BY <3>1, Least
    <3>3. k \in 1..n /\ f[k] # g[k]
      OBVIOUS
    <3>4. k # 1
      BY <1>1, <1>3, <2>2, <3>3
    <3>5. k \in 2..n /\ k \in 2..(n + 1) /\ k - 1 \in 1..n /\ k - 1 \notin T
      BY <1>1, <3>2, <3>3, <3>4
    <3>6. f[k - 1] = g[k - 1] /\ u[k] = s[k]
      BY <1>1, <3>3, <3>5
    <3>7. f[k] = f[k - 1] \o s[k] /\ g[k] = g[k - 1] \o u[k]
      BY <1>3, <2>2, <3>5
    <3> QED
      BY <3>3, <3>6, <3>7
  <2>4. f[n] = g[n]
    BY <1>1, <1>5, <2>3
  <2>5. n + 1 \in 2..(n + 1) /\ n + 1 - 1 = n
    BY <1>1, <1>5
  <2>6. g[n + 1] = g[n] \o u[n + 1]
    <3>1. PICK m : m = n + 1
      OBVIOUS
    <3>2. m \in 2..(n + 1) /\ m - 1 = n
      BY <1>1, <1>5, <3>1
    <3>3. g[m] = g[m - 1] \o u[m]
      BY <1>3, <3>2
    <3> QED
      BY <3>1, <3>2, <3>3
  <2> QED
    BY <1>1, <1>3, <2>2, <2>4, <2>6 DEF u
<1> QED
  BY <1>4, <1>5
================================================================================

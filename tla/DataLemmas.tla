----------------------------- MODULE DataLemmas -----------------------------
(***************************************************************************)
(* What the proofs about the compressors need to know of numbers, finite   *)
(* sets, loops and sums.                                                   *)
(*                                                                         *)
(* Induction is stated over a set, not over a predicate: a set of natural  *)
(* numbers that has zero, and with every number the next one, has them     *)
(* all.  A loop of the code is a recursive function f over 0 .. m in the   *)
(* model, where f[k] is what it has computed after k turns: there is such a*)
(* function, so that the one that is chosen obeys its equation, and what   *)
(* every turn keeps holds at the end.                                      *)
(***************************************************************************)
EXTENDS SeqOrder, FiniteSetTheorems, SequenceTheorems, TLAPS

-----------------------------------------------------------------------------
(* Induction *)

\* A set of natural numbers has a least element.
LEMMA LeastElement ==
  ASSUME NEW T, T \subseteq Nat, T # {}
  PROVE  \E x \in T : \A y \in T : x <= y
<1> DEFINE R == OpToRel(<, Nat)
<1>1. IsWellFoundedOn(R, Nat)
  BY NatLessThanWellFounded
<1>2. \A x, y \in Nat : y < x => <<y, x>> \in R
  BY DEF OpToRel
<1> HIDE DEF R
<1>3. PICK x \in T : \A y \in T : ~ (<<y, x>> \in R)
  BY <1>1, WFMin
<1>4. ASSUME NEW y \in T PROVE x <= y
  <2>1. x \in Nat /\ y \in Nat
    OBVIOUS
  <2>2. ~ (y < x)
    BY <1>2, <1>3, <2>1, Zenon
  <2> QED
    BY <2>1, <2>2, SMT
<1> QED
  BY <1>4

\* Induction over the natural numbers.
LEMMA SetInduction ==
  ASSUME NEW S, 0 \in S, \A n \in Nat : n \in S => n + 1 \in S
  PROVE  Nat \subseteq S
<1> DEFINE T == Nat \ S
<1> SUFFICES ASSUME T # {} PROVE FALSE
  OBVIOUS
<1>1. PICK x \in T : \A y \in T : x <= y
  BY LeastElement
<1>2. x # 0 /\ x - 1 \in Nat /\ x - 1 \notin T
  BY <1>1
<1> QED
  BY <1>1, <1>2

\* Induction over the turns of a loop.
LEMMA TurnInduction ==
  ASSUME NEW m \in Nat, NEW S, 0 \in S, \A k \in 1 .. m : k - 1 \in S => k \in S
  PROVE  0 .. m \subseteq S
<1> DEFINE T == {n \in Nat : n <= m => n \in S}
<1>1. 0 \in T
  OBVIOUS
<1>2. \A n \in Nat : n \in T => n + 1 \in T
  <2> SUFFICES ASSUME NEW n \in Nat, n \in T, n + 1 <= m PROVE n + 1 \in S
    OBVIOUS
  <2>1. n + 1 \in 1 .. m /\ (n + 1) - 1 = n
    OBVIOUS
  <2> QED
    BY <2>1
<1>3. Nat \subseteq T
  <2> HIDE DEF T
  <2> QED
    BY <1>1, <1>2, SetInduction
<1> QED
  BY <1>3

\* Induction over the elements of a finite set.
LEMMA ElementInduction ==
  ASSUME NEW S, IsFiniteSet(S), NEW C, {} \in C,
         \A T \in SUBSET S : \A x \in S \ T : T \in C => T \union {x} \in C
  PROVE  S \in C
<1> DEFINE N == {n \in Nat : \A T \in SUBSET S : Cardinality(T) = n => T \in C}
<1>f. \A T \in SUBSET S : IsFiniteSet(T) /\ Cardinality(T) \in Nat
  BY FS_Subset, FS_CardinalityType
<1>1. 0 \in N
  BY <1>f, FS_EmptySet
<1>2. ASSUME NEW n \in Nat, n \in N PROVE n + 1 \in N
  <2> SUFFICES ASSUME NEW T \in SUBSET S, Cardinality(T) = n + 1 PROVE T \in C
    OBVIOUS
  <2>f. IsFiniteSet(T)
    BY <1>f
  <2>1. PICK x \in T : TRUE
    <3>1. Cardinality(T) # 0
      OBVIOUS
    <3>2. Cardinality({}) = 0
      BY FS_EmptySet
    <3>3. T # {}
      BY <3>1, <3>2
    <3> QED
      BY <3>3
  <2>2. Cardinality(T \ {x}) = n
    <3>1. Cardinality(T \ {x}) = Cardinality(T) - 1
      BY <2>f, <2>1, FS_RemoveElement, Zenon
    <3> QED
      BY <3>1
  <2>3. T \ {x} \in C
    BY <1>2, <2>2
  <2>4. (T \ {x}) \union {x} = T
    BY <2>1
  <2> QED
    BY <2>3, <2>4
<1> HIDE DEF N
<1>3. Cardinality(S) \in N
  BY <1>1, <1>2, <1>f, SetInduction
<1> QED
  BY <1>3 DEF N

-----------------------------------------------------------------------------
(* Order *)

\* A finite set of integers has a greatest element.
LEMMA GreatestElement ==
  ASSUME NEW S, IsFiniteSet(S), S \subseteq Int, S # {}
  PROVE  \E x \in S : \A y \in S : y <= x
<1> DEFINE C == {T \in SUBSET S : T # {} => \E x \in T : \A y \in T : y <= x}
<1>1. {} \in C
  OBVIOUS
<1>2. ASSUME NEW T \in SUBSET S, NEW x \in S \ T, T \in C PROVE T \union {x} \in C
  <2>1. CASE T = {}
    BY <2>1
  <2>2. CASE T # {}
    <3>1. PICK z \in T : \A y \in T : y <= z
      BY <1>2, <2>2
    <3>2. x \in Int /\ z \in Int
      OBVIOUS
    <3>3. CASE x <= z
      BY <3>1, <3>3
    <3>4. CASE z <= x
      <4>1. \A y \in T : y <= x
        BY <3>1, <3>2, <3>4
      <4> QED
        BY <3>2, <4>1
    <3> QED
      BY <3>2, <3>3, <3>4
  <2> QED
    BY <2>1, <2>2
<1> HIDE DEF C
<1>3. S \in C
  BY <1>1, <1>2, ElementInduction
<1> QED
  BY <1>3 DEF C

\* R puts the elements of S in a line.
Lines(R, S) ==
  /\ \A x, y \in S : x # y => <<x, y>> \in R \/ <<y, x>> \in R
  /\ \A x, y \in S : <<x, y>> \in R => <<y, x>> \notin R
  /\ \A x, y, z \in S : <<x, y>> \in R /\ <<y, z>> \in R => <<x, z>> \in R

\* The elements of S that R puts before x.
Ahead(R, S, x) == {y \in S : <<y, x>> \in R}

\* A finite set in a line has a last element.
LEMMA LastElement ==
  ASSUME NEW S, IsFiniteSet(S), NEW R, Lines(R, S), S # {}
  PROVE  \E x \in S : \A y \in S \ {x} : <<y, x>> \in R
<1> DEFINE C == {T \in SUBSET S : T # {} => \E x \in T : \A y \in T \ {x} : <<y, x>> \in R}
<1>1. {} \in C
  OBVIOUS
<1>2. ASSUME NEW T \in SUBSET S, NEW x \in S \ T, T \in C PROVE T \union {x} \in C
  <2>1. CASE T = {}
    BY <2>1
  <2>2. CASE T # {}
    <3>1. PICK l \in T : \A y \in T \ {l} : <<y, l>> \in R
      BY <1>2, <2>2
    <3>2. l \in S /\ l # x
      BY <3>1
    <3>3. CASE <<x, l>> \in R
      <4>1. \A y \in (T \union {x}) \ {l} : <<y, l>> \in R
        BY <3>1, <3>3
      <4> QED
        BY <3>1, <4>1
    <3>4. CASE <<l, x>> \in R
      <4>1. \A y \in (T \union {x}) \ {x} : <<y, x>> \in R
        BY <3>1, <3>2, <3>4 DEF Lines
      <4> QED
        BY <4>1
    <3> QED
      BY <3>2, <3>3, <3>4 DEF Lines
  <2> QED
    BY <2>1, <2>2
<1> HIDE DEF C
<1>3. S \in C
  BY <1>1, <1>2, ElementInduction
<1> QED
  BY <1>3 DEF C

\* In a finite set in a line there is one element of each rank.
LEMMA PlaceExists ==
  ASSUME NEW S, IsFiniteSet(S), NEW R, Lines(R, S), NEW r \in 0 .. Cardinality(S) - 1
  PROVE  \E x \in S : Cardinality(Ahead(R, S, x)) = r
<1> DEFINE HasRanks(T, n) == \A q \in 0 .. n - 1 : \E x \in T : Cardinality(Ahead(R, T, x)) = q
           N == {n \in Nat : \A T \in SUBSET S : Cardinality(T) = n => HasRanks(T, n)}
<1>1. 0 \in N
  OBVIOUS
<1>2. ASSUME NEW n \in Nat, n \in N PROVE n + 1 \in N
  <2> SUFFICES ASSUME NEW T \in SUBSET S, Cardinality(T) = n + 1, NEW q \in 0 .. n
               PROVE  \E x \in T : Cardinality(Ahead(R, T, x)) = q
    OBVIOUS
  <2>1. IsFiniteSet(T) /\ T # {} /\ Lines(R, T)
    <3>1. IsFiniteSet(T)
      BY FS_Subset
    <3>2. Cardinality({}) = 0
      BY FS_EmptySet
    <3>3. Lines(R, T)
      BY DEF Lines
    <3> QED
      BY <3>1, <3>2, <3>3
  <2>2. PICK x \in T : \A y \in T \ {x} : <<y, x>> \in R
    BY <2>1, LastElement
  <2>3. Cardinality(T \ {x}) = n
    <3>1. Cardinality(T \ {x}) = Cardinality(T) - 1
      BY <2>1, <2>2, FS_RemoveElement, Zenon
    <3> QED
      BY <3>1
  <2>4. CASE q = n
    <3>1. Ahead(R, T, x) = T \ {x}
      BY <2>1, <2>2 DEF Lines, Ahead
    <3> QED
      BY <2>2, <2>3, <2>4, <3>1
  <2>5. CASE q # n
    <3>1. HasRanks(T \ {x}, n)
      BY <1>2, <2>3
    <3>2. PICK z \in T \ {x} : Cardinality(Ahead(R, T \ {x}, z)) = q
      BY <2>5, <3>1
    <3>3. Ahead(R, T, z) = Ahead(R, T \ {x}, z)
      BY <2>1, <2>2 DEF Lines, Ahead
    <3> QED
      BY <3>2, <3>3
  <2> QED
    BY <2>4, <2>5
<1> HIDE DEF N
<1>3. Cardinality(S) \in Nat
  BY FS_CardinalityType
<1>4. Cardinality(S) \in N
  BY <1>1, <1>2, <1>3, SetInduction
<1> QED
  BY <1>4 DEF N

\* In a finite set of integers there is one element of each rank.
LEMMA RankExists ==
  ASSUME NEW S, IsFiniteSet(S), S \subseteq Int, NEW r \in 0 .. Cardinality(S) - 1
  PROVE  \E x \in S : Cardinality({y \in S : y < x}) = r
<1>0. PICK R : R = {p \in S \X S : p[1] < p[2]}
  OBVIOUS
<1>1. \A x, y \in S : <<x, y>> \in R <=> x < y
  BY <1>0
<1>2. Lines(R, S)
  <2>1. \A x \in S : x \in Int
    OBVIOUS
  <2> QED
    BY <1>1, <2>1 DEF Lines
<1>3. \E x \in S : Cardinality(Ahead(R, S, x)) = r
  <2>1. PICK T : T = S
    OBVIOUS
  <2>2. IsFiniteSet(T) /\ Lines(R, T) /\ r \in 0 .. Cardinality(T) - 1
    BY <1>2, <2>1
  <2>3. \E x \in T : Cardinality(Ahead(R, T, x)) = r
    BY <2>2, PlaceExists
  <2> QED
    BY <2>1, <2>3
<1>4. \A x \in S : Ahead(R, S, x) = {y \in S : y < x}
  BY <1>1 DEF Ahead
<1> QED
  BY <1>3, <1>4

\* Of two elements the smaller has the lower rank.
LEMMA RankGrows ==
  ASSUME NEW S, IsFiniteSet(S), S \subseteq Int, NEW x \in S, NEW y \in S, x < y
  PROVE  Cardinality({z \in S : z < x}) < Cardinality({z \in S : z < y})
<1>1. PICK A, B : A = {z \in S : z < x} /\ B = {z \in S : z < y}
  OBVIOUS
<1>2. A \subseteq B /\ x \in B /\ x \notin A /\ IsFiniteSet(B)
  <2>1. x \in Int /\ y \in Int /\ \A z \in S : z \in Int
    OBVIOUS
  <2>2. A \subseteq B /\ x \in B /\ x \notin A
    <3>1. \A z : (z \in A <=> z \in S /\ z < x) /\ (z \in B <=> z \in S /\ z < y)
      BY <1>1
    <3>2. \A z \in S : z < x => z < y
      BY <2>1
    <3>3. ~ (x < x)
      BY <2>1
    <3> QED
      BY <3>1, <3>2, <3>3
  <2>3. B \in SUBSET S
    BY <1>1
  <2> QED
    BY <2>2, <2>3, FS_Subset
<1>3. IsFiniteSet(A) /\ Cardinality(A) <= Cardinality(B) /\ Cardinality(B) # Cardinality(A)
  BY <1>2, FS_Subset
<1>4. Cardinality(A) \in Nat /\ Cardinality(B) \in Nat
  BY <1>2, <1>3, FS_CardinalityType
<1> QED
  BY <1>1, <1>3, <1>4

\* A function on the numbers up to n is a sequence, also with the empty sequence
\* in front.
LEMMA LazySeq ==
  ASSUME NEW n \in Nat, NEW T, NEW f \in [1 .. n -> T]
  PROVE  << >> \o f = f /\ f \in Seq(T) /\ Len(f) = n
<1>1. f \in Seq(T) /\ Len(f) = n
  BY SeqDef
<1>2. << >> \o f = f
  BY <1>1, ConcatEmptySeq
<1> QED
  BY <1>1, <1>2

\* InOrder lists the elements of a set of integers, and nothing else.
LEMMA InOrderLists ==
  ASSUME NEW S, IsFiniteSet(S), S \subseteq Int
  PROVE  /\ InOrder(S) \in [1 .. Cardinality(S) -> S]
         /\ Len(InOrder(S)) = Cardinality(S)
         /\ \A k \in 1 .. Cardinality(S) :
              InOrder(S)[k] \in S /\ Cardinality({j \in S : j < InOrder(S)[k]}) = k - 1
         /\ \A x \in S : \E k \in 1 .. Cardinality(S) : InOrder(S)[k] = x
<1> DEFINE n == Cardinality(S)
           Rank(x) == Cardinality({j \in S : j < x})
           f == [k \in 1 .. n |-> CHOOSE x \in S : Rank(x) = k - 1]
<1>1. n \in Nat
  BY FS_CardinalityType
<1>2. InOrder(S) = << >> \o f
  BY DEF InOrder
<1>3. ASSUME NEW k \in 1 .. n PROVE f[k] \in S /\ Rank(f[k]) = k - 1
  <2>1. k - 1 \in 0 .. Cardinality(S) - 1
    BY <1>1
  <2>2. \E x \in S : Rank(x) = k - 1
    BY <2>1, RankExists
  <2>3. f[k] = CHOOSE x \in S : Rank(x) = k - 1
    OBVIOUS
  <2> HIDE DEF f, Rank
  <2> QED
    BY <2>2, <2>3
<1>4. f \in [1 .. n -> S]
  BY <1>3
<1>5. InOrder(S) = f /\ Len(InOrder(S)) = n
  <2> HIDE DEF f, n
  <2> QED
    BY <1>1, <1>2, <1>4, LazySeq
<1>6. ASSUME NEW x \in S PROVE \E k \in 1 .. n : f[k] = x
  <2>1. Rank(x) \in Nat /\ Rank(x) < n
    <3>1. PICK T : T = {j \in S : j < x}
      OBVIOUS
    <3>2. T \in SUBSET S /\ T # S
      BY <3>1
    <3>3. IsFiniteSet(T) /\ Cardinality(T) <= n /\ Cardinality(T) # n
      BY <3>2, FS_Subset
    <3>4. Cardinality(T) \in Nat
      BY <3>3, FS_CardinalityType
    <3> QED
      BY <1>1, <3>1, <3>3, <3>4
  <2>2. PICK k \in 1 .. n : k - 1 = Rank(x)
    <3>1. Rank(x) + 1 \in 1 .. n /\ (Rank(x) + 1) - 1 = Rank(x)
      BY <1>1, <2>1
    <3> QED
      BY <3>1
  <2>3. f[k] \in S /\ Rank(f[k]) = Rank(x)
    BY <1>3, <2>2
  <2>4. ~ (f[k] < x) /\ ~ (x < f[k])
    <3>1. PICK z \in S : z = f[k]
      BY <2>3
    <3>2. z < x => Rank(z) < Rank(x)
      BY RankGrows
    <3>3. x < z => Rank(x) < Rank(z)
      BY RankGrows
    <3> HIDE DEF Rank, f
    <3> QED
      BY <2>1, <2>3, <3>1, <3>2, <3>3
  <2>5. f[k] \in Int /\ x \in Int
    BY <2>3
  <2>6. f[k] = x
    <3> HIDE DEF f
    <3> QED
      BY <2>4, <2>5
  <2> QED
    BY <2>6
<1> HIDE DEF f
<1> QED
  BY <1>3, <1>4, <1>5, <1>6

\* A sort keeps the number of elements.
LEMMA SortedLength ==
  ASSUME NEW n \in Nat, NEW s, DOMAIN s = 1 .. n, NEW Before(_, _)
  PROVE  DOMAIN StableSort(s, Before) = 1 .. n
<1> DEFINE rank == [i \in DOMAIN s |->
                      Cardinality({j \in DOMAIN s :
                        Before(s[j], s[i]) \/ (j < i /\ ~ Before(s[i], s[j]))})]
           f == [k \in DOMAIN s |-> s[CHOOSE i \in DOMAIN s : rank[i] = k - 1]]
           T == {f[k] : k \in 1 .. n}
<1>1. StableSort(s, Before) = << >> \o f
  BY DEF StableSort, ByRank
<1>2. f \in [1 .. n -> T]
  <2> HIDE DEF rank
  <2> QED
    OBVIOUS
<1> HIDE DEF f, T
<1>3. << >> \o f = f
  BY <1>2, LazySeq
<1> QED
  BY <1>1, <1>2, <1>3

\* In a line the one that is ahead has the lower rank.
LEMMA AheadGrows ==
  ASSUME NEW S, IsFiniteSet(S), NEW R, Lines(R, S), NEW x \in S, NEW y \in S, <<x, y>> \in R
  PROVE  Cardinality(Ahead(R, S, x)) < Cardinality(Ahead(R, S, y))
<1>1. PICK A, B : A = Ahead(R, S, x) /\ B = Ahead(R, S, y)
  OBVIOUS
<1>2. A \subseteq B /\ x \in B /\ x \notin A
  BY <1>1 DEF Lines, Ahead
<1>3. IsFiniteSet(B)
  BY <1>1, FS_Subset DEF Ahead
<1>4. IsFiniteSet(A) /\ Cardinality(A) <= Cardinality(B) /\ Cardinality(B) # Cardinality(A)
  BY <1>2, <1>3, FS_Subset
<1>5. Cardinality(A) \in Nat /\ Cardinality(B) \in Nat
  BY <1>3, <1>4, FS_CardinalityType
<1> QED
  BY <1>1, <1>4, <1>5

\* The places that come before place i when the n of them are sorted by key, the
\* greatest first.
Higher(n, key, i) == {j \in 1 .. n : key[j] > key[i] \/ (j < i /\ ~ (key[i] > key[j]))}

RankedBy(n, key, rank) == \A i \in 1 .. n : rank[i] = Cardinality(Higher(n, key, i))

\* r has all of the n elements of s, those with the greatest keys first, and equals
\* in their order: P has the place in s of each element of r.
SortedBy(n, key, s, r) ==
  \E P \in [1 .. n -> 1 .. n] :
    /\ r = [k \in 1 .. n |-> s[P[k]]]
    /\ \A k, l \in 1 .. n : k < l =>
         key[P[k]] > key[P[l]] \/ (key[P[k]] = key[P[l]] /\ P[k] < P[l])
    /\ \A i \in 1 .. n : \E k \in 1 .. n : P[k] = i

\* What StableSort does when it compares by a number.
LEMMA SortedPlaces ==
  ASSUME NEW n \in Nat, NEW s, DOMAIN s = 1 .. n, NEW key \in [1 .. n -> Int], NEW rank,
         RankedBy(n, key, rank)
  PROVE  SortedBy(n, key, s, ByRank(s, rank))
<1> DEFINE S == DOMAIN s
           Rank(i) == rank[i]
           f == [k \in S |-> s[CHOOSE i \in S : Rank(i) = k - 1]]
           R == {p \in S \X S : key[p[1]] > key[p[2]] \/ (key[p[1]] = key[p[2]] /\ p[1] < p[2])}
           P == [k \in S |-> CHOOSE i \in S : Rank(i) = k - 1]
<1>1. \A i, j \in S : <<i, j>> \in R <=> key[i] > key[j] \/ (key[i] = key[j] /\ i < j)
  OBVIOUS
<1>2. \A i \in S : key[i] \in Int /\ i \in Int
  OBVIOUS
<1>3. IsFiniteSet(S) /\ Cardinality(S) = n
  BY FS_Interval
<1> HIDE DEF R
<1>4. Lines(R, S)
  <2>1. \A x, y \in S : x # y => <<x, y>> \in R \/ <<y, x>> \in R
    BY <1>1, <1>2
  <2>2. \A x, y \in S : <<x, y>> \in R => <<y, x>> \notin R
    BY <1>1, <1>2, SMTT(30)
  <2>3. \A x, y, z \in S : <<x, y>> \in R /\ <<y, z>> \in R => <<x, z>> \in R
    BY <1>1, <1>2
  <2> HIDE DEF S
  <2> QED
    BY <2>1, <2>2, <2>3 DEF Lines
<1>5. ASSUME NEW i \in S PROVE Rank(i) = Cardinality(Ahead(R, S, i))
  <2>1. \A j \in S : key[j] > key[i] \/ (j < i /\ ~ (key[i] > key[j])) <=> <<j, i>> \in R
    <3> SUFFICES ASSUME NEW j \in S
                 PROVE  key[j] > key[i] \/ (j < i /\ ~ (key[i] > key[j])) <=> <<j, i>> \in R
      OBVIOUS
    <3>1. <<j, i>> \in R <=> key[j] > key[i] \/ (key[j] = key[i] /\ j < i)
      BY <1>1
    <3>2. key[i] \in Int /\ key[j] \in Int
      BY <1>2
    <3> QED
      BY <3>1, <3>2
  <2>2. Higher(n, key, i) = Ahead(R, S, i)
    BY <2>1 DEF Ahead, Higher
  <2>3. rank[i] = Cardinality(Higher(n, key, i))
    BY DEF RankedBy
  <2> QED
    BY <2>2, <2>3
<1> HIDE DEF Rank
<1>6. ASSUME NEW k \in S PROVE P[k] \in S /\ Rank(P[k]) = k - 1
  <2>1. k - 1 \in 0 .. Cardinality(S) - 1
    BY <1>3
  <2>2. \E i \in S : Rank(i) = k - 1
    <3> HIDE DEF S, P
    <3>1. \E i \in S : Cardinality(Ahead(R, S, i)) = k - 1
      BY <1>3, <1>4, <2>1, PlaceExists
    <3> QED
      BY <1>5, <3>1
  <2>3. P[k] = CHOOSE i \in S : Rank(i) = k - 1
    OBVIOUS
  <2> HIDE DEF P, S
  <2> QED
    BY <2>2, <2>3
<1>7. ASSUME NEW i \in S, NEW j \in S, <<i, j>> \in R PROVE Rank(i) < Rank(j)
  <2> HIDE DEF S
  <2>1. Cardinality(Ahead(R, S, i)) < Cardinality(Ahead(R, S, j))
    BY <1>3, <1>4, <1>7, AheadGrows
  <2> QED
    BY <1>5, <2>1
<1>8. P \in [1 .. n -> 1 .. n]
  BY <1>6
<1>9. ByRank(s, rank) = [k \in 1 .. n |-> s[P[k]]]
  <2>1. f = [k \in 1 .. n |-> s[P[k]]]
    OBVIOUS
  <2>2. ByRank(s, rank) = << >> \o f
    BY DEF ByRank, Rank
  <2>3. PICK T : T = {f[k] : k \in 1 .. n}
    OBVIOUS
  <2>4. f \in [1 .. n -> T]
    BY <2>3
  <2> HIDE DEF f
  <2>5. << >> \o f = f
    BY <2>4, LazySeq
  <2> QED
    BY <2>1, <2>2, <2>5
<1>10. ASSUME NEW k \in 1 .. n, NEW l \in 1 .. n, k < l
       PROVE  key[P[k]] > key[P[l]] \/ (key[P[k]] = key[P[l]] /\ P[k] < P[l])
  <2>1. PICK x \in S, y \in S : x = P[k] /\ y = P[l]
    BY <1>6
  <2>2. Rank(x) = k - 1 /\ Rank(y) = l - 1
    BY <1>6, <2>1
  <2>3. x # y /\ <<y, x>> \notin R
    <3>1. <<y, x>> \in R => Rank(y) < Rank(x)
      BY <1>7
    <3> QED
      BY <1>10, <2>2, <3>1
  <2>4. <<x, y>> \in R
    BY <1>4, <2>3 DEF Lines
  <2>5. key[x] > key[y] \/ (key[x] = key[y] /\ x < y)
    BY <1>1, <2>4
  <2> QED
    BY <2>1, <2>5
<1>11. ASSUME NEW i \in 1 .. n PROVE \E k \in 1 .. n : P[k] = i
  <2>1. Rank(i) \in 0 .. n - 1
    <3>1. PICK A : A = Ahead(R, S, i)
      OBVIOUS
    <3>2. A \subseteq S /\ i \notin A
      <4>1. i \in S
        OBVIOUS
      <4> HIDE DEF S
      <4>2. <<i, i>> \notin R
        BY <1>1, <1>2, <4>1
      <4> QED
        BY <3>1, <4>2 DEF Ahead
    <3>3. IsFiniteSet(A) /\ Cardinality(A) <= n /\ Cardinality(A) # n
      <4> HIDE DEF S
      <4>1. IsFiniteSet(A) /\ Cardinality(A) <= Cardinality(S) /\ (Cardinality(S) = Cardinality(A) <=> S = A)
        BY <1>3, <3>2, FS_Subset
      <4>2. i \in S
        BY DEF S
      <4> QED
        BY <1>3, <3>2, <4>1, <4>2
    <3>4. Cardinality(A) \in Nat
      BY <3>3, FS_CardinalityType
    <3>5. Rank(i) = Cardinality(A)
      BY <1>5, <3>1
    <3> QED
      BY <3>3, <3>4, <3>5
  <2>2. PICK k \in 1 .. n : k = Rank(i) + 1
    BY <2>1
  <2>3. P[k] \in S /\ Rank(P[k]) = Rank(i)
    <3>1. P[k] \in S /\ Rank(P[k]) = k - 1
      BY <1>6
    <3> QED
      BY <2>1, <2>2, <3>1
  <2>4. PICK x \in S : x = P[k]
    BY <2>3
  <2>5. x = i
    <3>1. <<x, i>> \in R => Rank(x) < Rank(i)
      BY <1>7
    <3>2. <<i, x>> \in R => Rank(i) < Rank(x)
      BY <1>7
    <3>3. ~ (<<x, i>> \in R) /\ ~ (<<i, x>> \in R)
      BY <2>1, <2>3, <2>4, <3>1, <3>2
    <3> QED
      BY <1>4, <3>3 DEF Lines
  <2> QED
    BY <2>4, <2>5
<1> HIDE DEF P
<1> QED
  BY <1>8, <1>9, <1>10, <1>11 DEF SortedBy

\* r has n elements of s, from different places.
Shuffled(n, s, r) ==
  \E P \in [1 .. n -> 1 .. n] :
    /\ r = [k \in 1 .. n |-> s[P[k]]]
    /\ \A k, l \in 1 .. n : k # l => P[k] # P[l]

\* A sort takes no element twice.
LEMMA SortedOnce ==
  ASSUME NEW n \in Nat, NEW key \in [1 .. n -> Int], NEW s, NEW r, SortedBy(n, key, s, r)
  PROVE  Shuffled(n, s, r)
<1>1. PICK P \in [1 .. n -> 1 .. n] :
        /\ r = [k \in 1 .. n |-> s[P[k]]]
        /\ \A k, l \in 1 .. n : k < l =>
             key[P[k]] > key[P[l]] \/ (key[P[k]] = key[P[l]] /\ P[k] < P[l])
  BY DEF SortedBy
<1>2. ASSUME NEW k \in 1 .. n, NEW l \in 1 .. n, k < l PROVE P[k] # P[l]
  <2>1. PICK x \in 1 .. n, y \in 1 .. n : x = P[k] /\ y = P[l]
    OBVIOUS
  <2>2. key[x] > key[y] \/ (key[x] = key[y] /\ x < y)
    BY <1>1, <1>2, <2>1
  <2>3. key[x] \in Int /\ key[y] \in Int
    OBVIOUS
  <2> QED
    BY <2>1, <2>2, <2>3
<1>3. ASSUME NEW k \in 1 .. n, NEW l \in 1 .. n, k # l PROVE P[k] # P[l]
  <2>1. k < l \/ l < k
    BY <1>3
  <2> QED
    BY <1>2, <2>1
<1>4. \A k, l \in 1 .. n : k # l => P[k] # P[l]
  BY <1>3
<1> QED
  BY <1>1, <1>4 DEF Shuffled

\* What is picked of a sequence: one element for each index, in their order.
LEMMA PickedElements ==
  ASSUME NEW S, IsFiniteSet(S), S \subseteq Int, NEW s, NEW T, \A i \in S : s[i] \in T
  PROVE  /\ Picked(s, S) \in [1 .. Cardinality(S) -> T]
         /\ Picked(s, S) \in Seq(T) /\ Len(Picked(s, S)) = Cardinality(S)
         /\ \A k \in 1 .. Cardinality(S) : Picked(s, S)[k] = s[InOrder(S)[k]]
<1>1. PICK n \in Nat : n = Cardinality(S)
  BY FS_CardinalityType
<1>2. PICK places : places = InOrder(S)
  OBVIOUS
<1>3. places \in [1 .. n -> S] /\ \A k \in 1 .. n : places[k] \in S
  BY <1>1, <1>2, InOrderLists
<1>4. PICK f : f = [k \in DOMAIN places |-> s[places[k]]]
  OBVIOUS
<1>5. f \in [1 .. n -> T] /\ \A k \in 1 .. n : f[k] = s[places[k]]
  BY <1>3, <1>4
<1>6. << >> \o f = f /\ f \in Seq(T) /\ Len(f) = n
  BY <1>5, LazySeq
<1>7. Picked(s, S) = << >> \o f
  BY <1>2, <1>4 DEF Picked
<1> QED
  BY <1>1, <1>2, <1>5, <1>6, <1>7

-----------------------------------------------------------------------------
(* Loops *)

\* The states of a loop, the first one given and each next one by step.
LEMMA LoopExists ==
  ASSUME NEW D, NEW base \in D, NEW m \in Nat, NEW step \in [1 .. m -> [D -> D]]
  PROVE  \E f \in [0 .. m -> D] : f[0] = base /\ \A k \in 1 .. m : f[k] = step[k][f[k - 1]]
<1> DEFINE F(f, n) == f[0] = base /\ \A k \in 1 .. n : f[k] = step[k][f[k - 1]]
           S == {n \in Nat : n <= m => \E f \in [0 .. n -> D] : F(f, n)}
<1>1. 0 \in S
  <2> DEFINE f0 == [k \in 0 .. 0 |-> base]
  <2>1. f0 \in [0 .. 0 -> D] /\ F(f0, 0)
    OBVIOUS
  <2> QED
    BY <2>1
<1>2. ASSUME NEW n \in Nat, n \in S PROVE n + 1 \in S
  <2> SUFFICES ASSUME n + 1 <= m PROVE \E f \in [0 .. n + 1 -> D] : F(f, n + 1)
    OBVIOUS
  <2>1. PICK f \in [0 .. n -> D] : F(f, n)
    BY <1>2
  <2> DEFINE g == [k \in 0 .. n + 1 |-> IF k <= n THEN f[k] ELSE step[n + 1][f[n]]]
  <2>2. f[n] \in D /\ step[n + 1][f[n]] \in D
    OBVIOUS
  <2>3. g \in [0 .. n + 1 -> D]
    BY <2>2
  <2>4. g[0] = base
    BY <2>1
  <2>5. ASSUME NEW k \in 1 .. n + 1 PROVE g[k] = step[k][g[k - 1]]
    <3>1. CASE k = n + 1
      BY <3>1
    <3>2. CASE k \in 1 .. n
      <4>1. g[k] = f[k] /\ g[k - 1] = f[k - 1]
        BY <3>2
      <4> QED
        BY <4>1, <2>1, <3>2
    <3> QED
      BY <3>1, <3>2
  <2>6. F(g, n + 1)
    BY <2>4, <2>5
  <2> QED
    BY <2>3, <2>6
<1> HIDE DEF S
<1>3. m \in S
  BY <1>1, <1>2, SetInduction
<1> QED
  BY <1>3 DEF S

-----------------------------------------------------------------------------
(* Finite sets *)

\* The image of a finite set has no more elements than it.
LEMMA ImageFinite ==
  ASSUME NEW S, IsFiniteSet(S), NEW f
  PROVE  IsFiniteSet({f[x] : x \in S}) /\ Cardinality({f[x] : x \in S}) <= Cardinality(S)
<1> DEFINE T == {f[x] : x \in S}
           g == [x \in S |-> f[x]]
<1>1. g \in Surjection(S, T)
  BY DEF Surjection
<1> HIDE DEF T, g
<1>2. IsFiniteSet(T) /\ Cardinality(T) <= Cardinality(S)
  BY <1>1, FS_Surjection
<1> QED
  BY <1>2 DEF T

\* A loop that adds elements of E to a set, one at a time or none.
Grows(s, m, E) ==
  \A k \in 1 .. m : s[k] = s[k - 1] \/ \E e \in E : s[k] = s[k - 1] \union {e}

\* It keeps what it has and stays finite.
LEMMA GrowthKeeps ==
  ASSUME NEW m \in Nat, NEW s, NEW E, Grows(s, m, E), IsFiniteSet(s[0])
  PROVE  \A k \in 0 .. m : IsFiniteSet(s[k]) /\ s[0] \subseteq s[k] /\ s[k] \subseteq s[0] \union E
<1> DEFINE T == {k \in 0 .. m : IsFiniteSet(s[k]) /\ s[0] \subseteq s[k]
                                /\ s[k] \subseteq s[0] \union E}
<1>1. 0 \in T
  OBVIOUS
<1>2. ASSUME NEW k \in 1 .. m, k - 1 \in T PROVE k \in T
  <2>1. s[k] = s[k - 1] \/ \E e \in E : s[k] = s[k - 1] \union {e}
    BY DEF Grows
  <2>2. IsFiniteSet(s[k - 1]) /\ s[0] \subseteq s[k - 1] /\ s[k - 1] \subseteq s[0] \union E
    BY <1>2
  <2>3. IsFiniteSet(s[k])
    BY <2>1, <2>2, FS_AddElement
  <2>4. s[0] \subseteq s[k] /\ s[k] \subseteq s[0] \union E
    BY <2>1, <2>2
  <2> QED
    BY <2>3, <2>4
<1> HIDE DEF T
<1>3. 0 .. m \subseteq T
  BY <1>1, <1>2, TurnInduction
<1> QED
  BY <1>3 DEF T

\* When it adds nothing to a set that is full, it makes none larger than that,
\* other than the one it began with.
LEMMA GrowthStops ==
  ASSUME NEW m \in Nat, NEW s, NEW E, Grows(s, m, E), IsFiniteSet(s[0]), NEW max \in Int,
         \A k \in 1 .. m : Cardinality(s[k - 1]) < max \/ s[k] = s[k - 1]
  PROVE  \A k \in 0 .. m : s[k] = s[0] \/ Cardinality(s[k]) <= max
<1> DEFINE T == {k \in 0 .. m : s[k] = s[0] \/ Cardinality(s[k]) <= max}
<1>1. 0 \in T
  OBVIOUS
<1>2. ASSUME NEW k \in 1 .. m, k - 1 \in T PROVE k \in T
  <2>1. k - 1 \in 0 .. m
    OBVIOUS
  <2>2. IsFiniteSet(s[k - 1])
    BY <2>1, GrowthKeeps
  <2>3. CASE s[k] = s[k - 1]
    BY <1>2, <2>3
  <2>4. ASSUME NEW e, s[k] = s[k - 1] \union {e}, Cardinality(s[k - 1]) < max
        PROVE  k \in T
    <3>1. PICK c \in Nat : c = Cardinality(s[k - 1])
      BY <2>2, FS_CardinalityType
    <3>2. Cardinality(s[k]) = c \/ Cardinality(s[k]) = c + 1
      BY <2>2, <2>4, <3>1, FS_AddElement, SMTT(30)
    <3>3. Cardinality(s[k]) <= max
      BY <2>4, <3>1, <3>2
    <3> QED
      BY <3>3
  <2> QED
    BY <2>3, <2>4 DEF Grows
<1> HIDE DEF T
<1>3. 0 .. m \subseteq T
  BY <1>1, <1>2, TurnInduction
<1> QED
  BY <1>3 DEF T

-----------------------------------------------------------------------------
(* Sums *)

\* The element that a sum over T takes first.
Taken(T) == CHOOSE x \in T : TRUE

\* The equation of a sum over the subsets of S.
SumEquation(g, f, S) ==
  \A T \in SUBSET S : g[T] = IF T = {} THEN 0 ELSE f[Taken(T)] + g[T \ {Taken(T)}]

\* What is left of a set when one element is taken.
LEMMA TakenLeaves ==
  ASSUME NEW S, IsFiniteSet(S), NEW T \in SUBSET S, T # {}
  PROVE  /\ Taken(T) \in T
         /\ T \ {Taken(T)} \in SUBSET S
         /\ Cardinality(T) \in Nat /\ Cardinality(T) # 0
         /\ Cardinality(T \ {Taken(T)}) = Cardinality(T) - 1
<1>1. Taken(T) \in T
  BY Zenon DEF Taken
<1>2. IsFiniteSet(T)
  BY FS_Subset
<1>3. Cardinality(T) \in Nat /\ Cardinality(T) # 0
  BY <1>2, FS_CardinalityType, FS_EmptySet
<1>4. Cardinality(T \ {Taken(T)}) = Cardinality(T) - 1
  BY <1>1, <1>2, FS_RemoveElement, Zenon
<1> QED
  BY <1>1, <1>3, <1>4

\* There is a function with the equation of a sum.
LEMMA SumExists ==
  ASSUME NEW S, IsFiniteSet(S), NEW f, \A x \in S : f[x] \in Int
  PROVE  \E g \in [SUBSET S -> Int] : SumEquation(g, f, S)
<1> DEFINE U(n) == {T \in SUBSET S : Cardinality(T) <= n}
           E(g, T) == g[T] = IF T = {} THEN 0 ELSE f[Taken(T)] + g[T \ {Taken(T)}]
           A == {n \in Nat : \E g \in [U(n) -> Int] : \A T \in U(n) : E(g, T)}
<1>l. \A T \in SUBSET S : T # {} =>
         /\ Taken(T) \in S /\ f[Taken(T)] \in Int
         /\ T \ {Taken(T)} \in SUBSET S
         /\ Cardinality(T) \in Nat /\ Cardinality(T) # 0
         /\ Cardinality(T \ {Taken(T)}) = Cardinality(T) - 1
  BY TakenLeaves
<1>c. \A T \in SUBSET S : Cardinality(T) \in Nat /\ Cardinality(T) <= Cardinality(S)
  BY FS_Subset, FS_CardinalityType
<1>0. Cardinality({}) = 0
  BY FS_EmptySet
<1>1. 0 \in A
  <2> DEFINE g == [T \in U(0) |-> 0]
  <2>1. ASSUME NEW T \in U(0) PROVE T = {}
    <3>1. T \in SUBSET S /\ Cardinality(T) <= 0
      OBVIOUS
    <3>2. T # {} => Cardinality(T) \in Nat /\ Cardinality(T) # 0
      BY <1>l, <3>1, Zenon
    <3> QED
      BY <3>1, <3>2
  <2>2. g \in [U(0) -> Int] /\ \A T \in U(0) : E(g, T)
    BY <2>1
  <2> QED
    BY <2>2
<1>2. ASSUME NEW n \in Nat, n \in A PROVE n + 1 \in A
  <2>1. PICK g \in [U(n) -> Int] : \A T \in U(n) : E(g, T)
    BY <1>2
  <2> DEFINE h == [T \in U(n + 1) |-> IF T = {} THEN 0 ELSE f[Taken(T)] + g[T \ {Taken(T)}]]
  <2>2. \A T \in U(n + 1) : T # {} => T \ {Taken(T)} \in U(n)
    BY <1>l
  <2>3. U(n) \subseteq U(n + 1)
    BY <1>c
  <2>4. \A T \in U(n) : h[T] = g[T]
    BY <2>1, <2>3
  <2>5. \A T \in U(n + 1) : E(h, T)
    BY <2>2, <2>4
  <2>6. h \in [U(n + 1) -> Int]
    <3>1. ASSUME NEW T \in U(n + 1) PROVE (IF T = {} THEN 0 ELSE f[Taken(T)] + g[T \ {Taken(T)}]) \in Int
      <4>1. CASE T = {}
        BY <4>1
      <4>2. CASE T # {}
        <5>1. f[Taken(T)] \in Int
          BY <1>l, <4>2
        <5>2. g[T \ {Taken(T)}] \in Int
          BY <2>2, <4>2
        <5> QED
          BY <4>2, <5>1, <5>2
      <4> QED
        BY <4>1, <4>2
    <3> QED
      BY <3>1
  <2>7. \E q \in [U(n + 1) -> Int] : \A T \in U(n + 1) : E(q, T)
    <3> HIDE DEF h, U, E
    <3> QED
      BY <2>5, <2>6
  <2> HIDE DEF E, U
  <2> QED
    BY <2>7
<1>3. Cardinality(S) \in A
  <2> HIDE DEF A
  <2> QED
    BY <1>1, <1>2, <1>c, SetInduction
<1>4. U(Cardinality(S)) = SUBSET S
  BY <1>c
<1> QED
  BY <1>3, <1>4 DEF SumEquation

\* Two functions with the equation of a sum agree.
LEMMA SumUnique ==
  ASSUME NEW S, IsFiniteSet(S), NEW f, NEW g, NEW h, NEW R \in SUBSET S,
         SumEquation(g, f, S), SumEquation(h, f, R)
  PROVE  \A T \in SUBSET R : g[T] = h[T]
<1> DEFINE A == {n \in Nat : \A T \in SUBSET R : Cardinality(T) = n => g[T] = h[T]}
<1>l. \A T \in SUBSET R : T # {} =>
         /\ T \ {Taken(T)} \in SUBSET R
         /\ Cardinality(T) \in Nat /\ Cardinality(T) # 0
         /\ Cardinality(T \ {Taken(T)}) = Cardinality(T) - 1
  BY TakenLeaves
<1>c. \A T \in SUBSET R : Cardinality(T) \in Nat
  BY FS_Subset, FS_CardinalityType
<1>e. \A T \in SUBSET R :
        /\ g[T] = IF T = {} THEN 0 ELSE f[Taken(T)] + g[T \ {Taken(T)}]
        /\ h[T] = IF T = {} THEN 0 ELSE f[Taken(T)] + h[T \ {Taken(T)}]
  BY DEF SumEquation
<1>1. 0 \in A
  BY <1>l, <1>e
<1>2. ASSUME NEW n \in Nat, n \in A PROVE n + 1 \in A
  <2> SUFFICES ASSUME NEW T \in SUBSET R, Cardinality(T) = n + 1 PROVE g[T] = h[T]
    OBVIOUS
  <2>1. CASE T = {}
    BY <1>e, <2>1
  <2>2. CASE T # {}
    <3>1. g[T \ {Taken(T)}] = h[T \ {Taken(T)}]
      BY <1>2, <1>l, <2>2
    <3> QED
      BY <1>e, <2>2, <3>1
  <2> QED
    BY <2>1, <2>2
<1>3. Nat \subseteq A
  <2> HIDE DEF A
  <2> QED
    BY <1>1, <1>2, SetInduction
<1> QED
  BY <1>3, <1>c

\* The sums over the subsets of S.
AreSums(g, f, S) ==
  /\ g \in [SUBSET S -> Int]
  /\ SumEquation(g, f, S)
  /\ \A R \in SUBSET S : SumOf(f, R) = g[R]

\* SumOf obeys the equation on the subsets of a finite set.
LEMMA SumUnfolds ==
  ASSUME NEW S, IsFiniteSet(S), NEW f, \A x \in S : f[x] \in Int
  PROVE  \E g : AreSums(g, f, S)
<1>1. PICK g \in [SUBSET S -> Int] : SumEquation(g, f, S)
  BY SumExists
<1>2. ASSUME NEW R \in SUBSET S PROVE SumOf(f, R) = g[R]
  <2> DEFINE F(h) == h = [T \in SUBSET R |->
                            IF T = {} THEN 0
                            ELSE LET i == CHOOSE x \in T : TRUE IN f[i] + h[T \ {i}]]
             c == CHOOSE h : F(h)
  <2>1. IsFiniteSet(R)
    BY FS_Subset
  <2>2. PICK h \in [SUBSET R -> Int] : SumEquation(h, f, R)
    BY <2>1, SumExists
  <2>3. F(h)
    BY <2>2 DEF SumEquation, Taken
  <2>4. F(c)
    <3> HIDE DEF F
    <3> QED
      BY <2>3, Zenon
  <2>5. SumOf(f, R) = c[R]
    BY Zenon DEF SumOf
  <2> HIDE DEF c
  <2>6. SumEquation(c, f, R)
    BY <2>4 DEF SumEquation, Taken
  <2>7. g[R] = c[R]
    BY <1>1, <2>6, SumUnique
  <2> QED
    BY <2>5, <2>7
<1> QED
  BY <1>1, <1>2 DEF AreSums

\* The sum of nothing.
LEMMA SumEmpty == ASSUME NEW f PROVE SumOf(f, {}) = 0
<1>1. IsFiniteSet({}) /\ \A x \in {} : f[x] \in Int
  BY FS_EmptySet
<1>2. PICK g : AreSums(g, f, {})
  BY <1>1, SumUnfolds
<1> QED
  BY <1>2 DEF AreSums, SumEquation

\* A sum of integers is one, and so are those over the subsets.
LEMMA SumType ==
  ASSUME NEW S, IsFiniteSet(S), NEW f, \A x \in S : f[x] \in Int
  PROVE  \A R \in SUBSET S : SumOf(f, R) \in Int
<1>0. PICK g : AreSums(g, f, S)
  BY SumUnfolds
<1>1. g \in [SUBSET S -> Int] /\ SumEquation(g, f, S) /\ \A R \in SUBSET S : SumOf(f, R) = g[R]
  BY <1>0 DEF AreSums
<1> QED
  BY <1>1

\* Any element may be taken first.
LEMMA SumRemove ==
  ASSUME NEW S, IsFiniteSet(S), NEW f, \A x \in S : f[x] \in Int
  PROVE  \A R \in SUBSET S : \A x \in R : SumOf(f, R) = f[x] + SumOf(f, R \ {x})
<1>0. PICK g : AreSums(g, f, S)
  BY SumUnfolds
<1>1. g \in [SUBSET S -> Int] /\ SumEquation(g, f, S) /\ \A R \in SUBSET S : SumOf(f, R) = g[R]
  BY <1>0 DEF AreSums
<1> DEFINE A == {n \in Nat : \A R \in SUBSET S : Cardinality(R) = n =>
                               \A x \in R : g[R] = f[x] + g[R \ {x}]}
<1>c. \A R \in SUBSET S : IsFiniteSet(R) /\ Cardinality(R) \in Nat
  BY FS_Subset, FS_CardinalityType
<1>e. \A R \in SUBSET S : R # {} => g[R] = f[Taken(R)] + g[R \ {Taken(R)}]
  BY <1>1 DEF SumEquation
<1>2. 0 \in A
  BY <1>c, FS_EmptySet
<1>3. ASSUME NEW n \in Nat, n \in A PROVE n + 1 \in A
  <2> SUFFICES ASSUME NEW R \in SUBSET S, Cardinality(R) = n + 1, NEW x \in R
               PROVE  g[R] = f[x] + g[R \ {x}]
    OBVIOUS
  <2>p. PICK p : p = Taken(R)
    OBVIOUS
  <2>1. p \in R /\ g[R] = f[p] + g[R \ {p}]
    BY <1>e, <2>p, TakenLeaves
  <2>2. CASE x = p
    BY <2>1, <2>2
  <2>3. CASE x # p
    <3>1. \A q \in R : Cardinality(R \ {q}) = n
      <4> SUFFICES ASSUME NEW q \in R PROVE Cardinality(R \ {q}) = n
        OBVIOUS
      <4>1. IsFiniteSet(R)
        BY <1>c
      <4>2. Cardinality(R \ {q}) = Cardinality(R) - 1
        BY <4>1, FS_RemoveElement, Zenon
      <4> QED
        BY <4>2
    <3>2. g[R \ {p}] = f[x] + g[(R \ {p}) \ {x}]
      BY <1>3, <2>1, <2>3, <3>1
    <3>3. g[R \ {x}] = f[p] + g[(R \ {x}) \ {p}]
      BY <1>3, <2>1, <2>3, <3>1
    <3>4. (R \ {x}) \ {p} = (R \ {p}) \ {x}
      OBVIOUS
    <3>5. f[x] \in Int /\ f[p] \in Int /\ g[(R \ {p}) \ {x}] \in Int
      BY <1>1, <2>1
    <3>6. g[R \ {x}] = f[p] + g[(R \ {p}) \ {x}]
      BY <3>3, <3>4
    <3>7. PICK a, b, c \in Int : a = f[x] /\ b = f[p] /\ c = g[(R \ {p}) \ {x}]
      BY <3>5
    <3>8. g[R] = b + (a + c) /\ g[R \ {x}] = b + c
      BY <2>1, <3>2, <3>6, <3>7, Zenon
    <3>9. b + (a + c) = a + (b + c)
      OBVIOUS
    <3> QED
      BY <3>7, <3>8, <3>9, Zenon
  <2> QED
    BY <2>2, <2>3
<1>4. Nat \subseteq A
  <2> HIDE DEF A
  <2> QED
    BY <1>2, <1>3, SetInduction
<1>5. \A R \in SUBSET S : \A x \in R : g[R] = f[x] + g[R \ {x}]
  BY <1>4, <1>c
<1> QED
  BY <1>1, <1>5

\* A sum of differences, zero outside of T, is the difference of the sums over T.
LEMMA SumOfDifferences ==
  ASSUME NEW S, IsFiniteSet(S), NEW T \in SUBSET S, NEW f, NEW g, NEW h,
         \A x \in T : f[x] \in Int /\ g[x] \in Int /\ h[x] = f[x] - g[x],
         \A x \in S \ T : h[x] = 0
  PROVE  SumOf(h, S) = SumOf(f, T) - SumOf(g, T)
<1>h. \A x \in S : h[x] \in Int
  OBVIOUS
<1>t. IsFiniteSet(T)
  BY FS_Subset
<1> DEFINE C == {R \in SUBSET S : SumOf(h, R) = SumOf(f, R \cap T) - SumOf(g, R \cap T)}
<1>1. {} \in C
  <2>1. {} \cap T = {}
    OBVIOUS
  <2> QED
    BY <2>1, SumEmpty
<1>2. ASSUME NEW R \in SUBSET S, NEW x \in S \ R, R \in C PROVE R \union {x} \in C
  <2>p. PICK Q : Q = R \union {x}
    OBVIOUS
  <2>0. Q \in SUBSET S /\ x \in Q /\ Q \ {x} = R
    BY <2>p
  <2>1. SumOf(h, Q) = h[x] + SumOf(h, R)
    BY <1>h, <2>0, SumRemove
  <2>2. SumOf(h, R) = SumOf(f, R \cap T) - SumOf(g, R \cap T)
    BY <1>2
  <2>3. SumOf(f, R \cap T) \in Int /\ SumOf(g, R \cap T) \in Int
    <3>1. R \cap T \in SUBSET T
      OBVIOUS
    <3> QED
      BY <1>t, <3>1, SumType
  <2>4. CASE x \in T
    <3>1. Q \cap T \in SUBSET T /\ x \in Q \cap T /\ (Q \cap T) \ {x} = R \cap T
      BY <2>0, <2>4
    <3>2. SumOf(f, Q \cap T) = f[x] + SumOf(f, R \cap T)
      BY <1>t, <3>1, SumRemove
    <3>3. SumOf(g, Q \cap T) = g[x] + SumOf(g, R \cap T)
      BY <1>t, <3>1, SumRemove
    <3>4. f[x] \in Int /\ g[x] \in Int /\ h[x] = f[x] - g[x]
      BY <2>4
    <3>5. SumOf(h, Q) = SumOf(f, Q \cap T) - SumOf(g, Q \cap T)
      BY <2>1, <2>2, <2>3, <3>2, <3>3, <3>4
    <3> QED
      BY <2>0, <2>p, <3>5
  <2>5. CASE x \notin T
    <3>1. Q \cap T = R \cap T
      BY <2>0, <2>5
    <3>2. h[x] = 0
      BY <2>5
    <3>a. SumOf(h, Q) = SumOf(h, R)
      <4>1. PICK a, b \in Int : a = SumOf(f, R \cap T) /\ b = SumOf(g, R \cap T)
        BY <2>3
      <4>2. SumOf(h, R) = a - b /\ SumOf(h, Q) = 0 + SumOf(h, R)
        BY <2>1, <2>2, <3>2, <4>1
      <4> QED
        BY <4>1, <4>2
    <3>3. SumOf(h, Q) = SumOf(f, Q \cap T) - SumOf(g, Q \cap T)
      BY <2>2, <3>1, <3>a
    <3> QED
      BY <2>0, <2>p, <3>3
  <2> QED
    BY <2>4, <2>5
<1>3. S \in C
  <2> HIDE DEF C
  <2> QED
    BY <1>1, <1>2, ElementInduction
<1>4. S \cap T = T
  OBVIOUS
<1> QED
  BY <1>3, <1>4
=============================================================================

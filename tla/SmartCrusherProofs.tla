-------------------------- MODULE SmartCrusherProofs --------------------------
(***************************************************************************)
(* Proofs about SmartCrusher, for documents of any size, any values, any   *)
(* callers and any limits.                                                 *)
(*                                                                         *)
(* First how many items an array may keep is shown to be a number, then    *)
(* what each of the loops that fill a set of positions keeps and where it  *)
(* stops, and from these the properties of a result: it is made in one step*)
(* from a document that is well-formed.                                    *)
(***************************************************************************)
EXTENDS SmartCrusher, DataLemmas

-----------------------------------------------------------------------------
(* How many *)

\* The smaller and the greater of two numbers.
LEMMA Bounds ==
  ASSUME NEW n \in Int, NEW m \in Int
  PROVE  /\ AtMost(n, m) \in Int /\ AtMost(n, m) <= n /\ AtMost(n, m) <= m
         /\ AtLeast(n, m) \in Int /\ n <= AtLeast(n, m) /\ m <= AtLeast(n, m)
         /\ AtMost(n, m) \in {n, m} /\ AtLeast(n, m) \in {n, m}
  BY DEF AtMost, AtLeast

\* A finite list of numbers has a first greatest one.
LEMMA FirstGreatest ==
  ASSUME NEW n \in Nat \ {0}, NEW g \in [1 .. n -> Int]
  PROVE  \E i \in 1 .. n : \A j \in 1 .. n : g[j] <= g[i] /\ (j < i => g[j] < g[i])
<1> DEFINE S == {k \in 0 .. n : k # 0 => \E i \in 1 .. k : \A j \in 1 .. k :
                                   g[j] <= g[i] /\ (j < i => g[j] < g[i])}
<1>1. 0 \in S
  OBVIOUS
<1>2. ASSUME NEW k \in 1 .. n, k - 1 \in S PROVE k \in S
  <2>1. CASE k = 1
    BY <2>1
  <2>2. CASE k # 1
    <3>1. PICK i \in 1 .. k - 1 : \A j \in 1 .. k - 1 : g[j] <= g[i] /\ (j < i => g[j] < g[i])
      BY <1>2, <2>2
    <3>2. g[i] \in Int /\ g[k] \in Int /\ \A j \in 1 .. k : g[j] \in Int
      BY <3>1
    <3>3. CASE g[k] <= g[i]
      <4>1. \A j \in 1 .. k : g[j] <= g[i] /\ (j < i => g[j] < g[i])
        BY <3>1, <3>3
      <4> QED
        BY <4>1
    <3>4. CASE g[i] < g[k]
      <4>1. \A j \in 1 .. k : g[j] <= g[k] /\ (j < k => g[j] < g[k])
        <5> SUFFICES ASSUME NEW j \in 1 .. k, j < k PROVE g[j] < g[k]
          BY <3>2
        <5>1. g[j] <= g[i]
          BY <3>1
        <5> QED
          BY <3>2, <3>4, <5>1
      <4> QED
        BY <4>1
    <3> QED
      BY <3>2, <3>3, <3>4
  <2> QED
    BY <2>1, <2>2
<1> HIDE DEF S
<1>3. 0 .. n \subseteq S
  BY <1>1, <1>2, TurnInduction
<1>4. n \in S
  BY <1>3
<1> QED
  BY <1>4 DEF S

\* What the adaptive sizer is given: items whose word pairs are finitely many.
Sizable(items) ==
  /\ Len(items) \in Nat
  /\ \A i \in 1 .. Len(items) : IsFiniteSet(items[i].bigrams)

\* The knee of a curve of numbers is a number.
LEMMA KneeIsNumber ==
  ASSUME NEW n \in Nat, NEW curve, Len(curve) = n, \A i \in 1 .. n : curve[i] \in Int
  PROVE  FindKnee(curve) \in Nat
<1>1. CASE n < 3
  BY <1>1 DEF FindKnee
<1>2. CASE n >= 3
  <2> DEFINE range == curve[n] - curve[1]
             above(i) == (curve[i] - curve[1]) * (n - 1) - (i - 1) * range
             knee == CHOOSE i \in 1 .. n : \A j \in 1 .. n :
                       above(j) <= above(i) /\ (j < i => above(j) < above(i))
             g == [i \in 1 .. n |-> above(i)]
  <2>1. \A i \in 1 .. n : above(i) \in Int
    <3> SUFFICES ASSUME NEW i \in 1 .. n PROVE above(i) \in Int
      OBVIOUS
    <3>0. curve[i] \in Int /\ curve[1] \in Int /\ curve[n] \in Int
      BY <1>2
    <3>1. PICK a \in Int, b \in Int : a = curve[i] - curve[1] /\ b = range
      BY <3>0
    <3>2. a * (n - 1) - (i - 1) * b \in Int
      OBVIOUS
    <3> QED
      BY <3>1, <3>2
  <2>2. g \in [1 .. n -> Int]
    BY <2>1
  <2>3. \A i \in 1 .. n : g[i] = above(i)
    OBVIOUS
  <2>4. \E i \in 1 .. n : \A j \in 1 .. n : above(j) <= above(i) /\ (j < i => above(j) < above(i))
    <3>1. PICK i \in 1 .. n : \A j \in 1 .. n : g[j] <= g[i] /\ (j < i => g[j] < g[i])
      <4>1. n \in Nat \ {0}
        BY <1>2
      <4> HIDE DEF g
      <4> QED
        BY <2>2, <4>1, FirstGreatest
    <3> HIDE DEF above, g
    <3> QED
      BY <2>3, <3>1
  <2>5. knee \in 1 .. n
    <3> HIDE DEF above
    <3> QED
      BY <2>4
  <2>6. FindKnee(curve) \in {0, 1, knee}
    BY Zenon DEF FindKnee
  <2> HIDE DEF knee
  <2> QED
    BY <2>5, <2>6
<1> QED
  BY <1>1, <1>2

\* The clusters of the adaptive sizer are finitely many.
LEMMA UniqueIsNumber ==
  ASSUME NEW n \in Nat, NEW items, Len(items) = n, NEW threshold
  PROVE  CountUniqueSimhash(items, threshold) \in Nat
<1> DEFINE E == {items[k].hash : k \in 1 .. n}
           D == SUBSET E
           Near(p, k) == \E r \in p : HammingDistance(r, items[k].hash) <= threshold
           G(p, k) == IF Near(p, k) THEN p ELSE p \union {items[k].hash}
           step == [k \in 1 .. n |-> [p \in D |-> G(p, k)]]
           F(s) == s = [i \in 0 .. Len(items) |-> IF i = 0 THEN {} ELSE G(s[i - 1], i)]
<1>0. PICK base \in D : base = {}
  OBVIOUS
<1>s. step \in [1 .. n -> [D -> D]] /\ \A k \in 1 .. n : \A p \in D : step[k][p] = G(p, k)
  <2> HIDE DEF Near
  <2> QED
    OBVIOUS
<1>1. step \in [1 .. n -> [D -> D]]
  BY <1>s
<1> HIDE DEF step, D, G
<1>2. PICK f \in [0 .. n -> D] : f[0] = base /\ \A k \in 1 .. n : f[k] = step[k][f[k - 1]]
  BY <1>1, LoopExists
<1>3. ASSUME NEW k \in 1 .. n PROVE f[k] = G(f[k - 1], k)
  <2>1. f[k - 1] \in D
    OBVIOUS
  <2> QED
    BY <1>s, <1>2, <2>1
<1>4. F(f)
  BY <1>0, <1>2, <1>3
<1> DEFINE t == CHOOSE s : F(s)
<1>5. F(t)
  <2> HIDE DEF F
  <2> QED
    BY <1>4, Zenon
<1>6. CountUniqueSimhash(items, threshold) = Cardinality(t[n])
  BY Zenon DEF CountUniqueSimhash, G
<1> HIDE DEF t
<1>7. t[0] = {} /\ \A k \in 1 .. n : t[k] = G(t[k - 1], k)
  <2>1. \A k \in 0 .. n : t[k] = IF k = 0 THEN {} ELSE G(t[k - 1], k)
    BY <1>5
  <2> QED
    BY <2>1
<1>8. Grows(t, n, E)
  <2> SUFFICES ASSUME NEW k \in 1 .. n
               PROVE  t[k] = t[k - 1] \/ \E e \in E : t[k] = t[k - 1] \union {e}
    BY DEF Grows
  <2>1. t[k] = t[k - 1] \/ t[k] = t[k - 1] \union {items[k].hash}
    BY <1>7 DEF G
  <2> QED
    BY <2>1
<1>9. IsFiniteSet(t[n])
  <2>1. IsFiniteSet(t[0]) /\ n \in 0 .. n
    BY <1>7, FS_EmptySet
  <2> HIDE DEF E
  <2> QED
    BY <1>8, <2>1, GrowthKeeps
<1> QED
  BY <1>6, <1>9, FS_CardinalityType

\* The curve of word pairs is one of numbers.
LEMMA CurveIsNumbers ==
  ASSUME NEW items, Sizable(items), DOMAIN items = 1 .. Len(items)
  PROVE  /\ Len(ComputeUniqueBigramCurve(items)) = Len(items)
         /\ \A i \in 1 .. Len(items) : ComputeUniqueBigramCurve(items)[i] \in Int
<1> DEFINE c == ComputeUniqueBigramCurve(items)
<1>1. PICK n \in Nat : n = Len(items)
  BY DEF Sizable
<1>2. ASSUME NEW i \in 1 .. n PROVE Cardinality(UNION {items[j].bigrams : j \in 1 .. i}) \in Int
  <2>1. PICK b : b = [j \in 1 .. i |-> items[j].bigrams]
    OBVIOUS
  <2>2. IsFiniteSet(1 .. i)
    BY FS_Interval
  <2>3. IsFiniteSet({b[j] : j \in 1 .. i})
    BY <2>2, ImageFinite
  <2>4. {b[j] : j \in 1 .. i} = {items[j].bigrams : j \in 1 .. i}
    BY <2>1
  <2>5. \A T \in {items[j].bigrams : j \in 1 .. i} : IsFiniteSet(T)
    BY <1>1 DEF Sizable
  <2>6. IsFiniteSet(UNION {items[j].bigrams : j \in 1 .. i})
    BY <2>3, <2>4, <2>5, FS_UNION
  <2> QED
    BY <2>6, FS_CardinalityType
<1>3. c \in [1 .. n -> Int]
  BY <1>1, <1>2 DEF ComputeUniqueBigramCurve
<1>4. Len(c) = n
  <2> HIDE DEF c
  <2> QED
    BY <1>3, LazySeq
<1> QED
  BY <1>1, <1>3, <1>4

\* How many items are kept is a number, and with many items not fewer than the
\* least, nor more than the most and the least.
LEMMA OptimalIsNumber ==
  ASSUME NEW items, Sizable(items), DOMAIN items = 1 .. Len(items),
         NEW bias \in Nat, NEW minK \in Nat, NEW maxK \in Nat,
         NEW k \in ComputeOptimalK(items, bias, minK, maxK)
  PROVE  k \in Nat /\ (Len(items) <= FewItems \/ k >= AtMost(minK, maxK))
<1>1. PICK n \in Nat : n = Len(items)
  BY DEF Sizable
<1>2. PICK u \in Nat : u = CountUniqueSimhash(items, FewGroups)
  BY <1>1, UniqueIsNumber
<1>3. FewItems \in Nat /\ FewGroups \in Nat
  BY SizerAssumption
<1>4. FindKnee(ComputeUniqueBigramCurve(items)) \in Nat
  BY <1>1, CurveIsNumbers, KneeIsNumber
<1>5. PICK kn \in Nat : kn = KneeOf(items, u, minK)
  <2>1. PICK knee \in Nat : knee = FindKnee(ComputeUniqueBigramCurve(items))
    BY <1>4
  <2>2. Diverse(n, u) \in Nat
    BY DEF Diverse
  <2>3. PICK floor \in Nat : floor = AtLeast(minK, Diverse(n, u))
    BY <2>2 DEF AtLeast
  <2>4. KneeOf(items, u, minK) \in {floor, knee, AtLeast(knee, floor)}
    BY <1>1, <2>1, <2>3 DEF KneeOf
  <2>5. AtLeast(knee, floor) \in Nat
    BY DEF AtLeast
  <2> QED
    BY <2>4, <2>5
<1>6. PICK scaled \in Nat : scaled = AtLeast(minK, (kn * bias) \div 100)
  <2>1. PICK p \in Nat : p = kn * bias
    OBVIOUS
  <2>2. p \div 100 \in Nat
    OBVIOUS
  <2>3. AtLeast(minK, p \div 100) \in Nat
    BY <2>2 DEF AtLeast
  <2> QED
    BY <2>1, <2>3
<1>7. ComputeOptimalK(items, bias, minK, maxK)
        = IF n <= FewItems THEN {n}
          ELSE IF u <= FewGroups THEN {AtMost(AtLeast(minK, u), maxK)}
          ELSE {AtLeast(minK, AtMost(q, maxK)) : q \in ValidateWithZlib(n, AtMost(scaled, maxK), maxK)}
  BY <1>1, <1>2, <1>5, <1>6, Zenon DEF ComputeOptimalK
<1>8. CASE n <= FewItems
  BY <1>1, <1>7, <1>8
<1>9. CASE n > FewItems /\ u <= FewGroups
  <2>1. k = AtMost(AtLeast(minK, u), maxK)
    BY <1>3, <1>7, <1>9
  <2> QED
    BY <2>1 DEF AtMost, AtLeast
<1>10. CASE n > FewItems /\ u > FewGroups
  <2>1. PICK q \in ValidateWithZlib(n, AtMost(scaled, maxK), maxK) : k = AtLeast(minK, AtMost(q, maxK))
    BY <1>3, <1>7, <1>10
  <2>2. PICK a \in Nat : a = AtMost(scaled, maxK)
    BY DEF AtMost
  <2>3. q = a \/ q = AtMost((12 * a) \div 10, maxK)
    BY <2>1, <2>2 DEF ValidateWithZlib
  <2>4. q \in Nat
    BY <2>3 DEF AtMost
  <2> QED
    BY <2>1, <2>4 DEF AtMost, AtLeast
<1> QED
  BY <1>3, <1>8, <1>9, <1>10

-----------------------------------------------------------------------------
(* Loops that fill a set *)

\* What a loop makes of a set S that it adds elements of E to, up to max.
Filled(R, S, E, max) ==
  /\ IsFiniteSet(R)
  /\ S \subseteq R /\ R \subseteq S \union E
  /\ R = S \/ Cardinality(R) <= max

\* A loop that grows a set and stops when it is full fills it.
LEMMA GrowthFills ==
  ASSUME NEW m \in Nat, NEW s, NEW S, NEW E, s[0] = S, IsFiniteSet(S), NEW max \in Int,
         \A k \in 1 .. m : s[k] = s[k - 1]
           \/ (Cardinality(s[k - 1]) < max /\ \E e \in E : s[k] = s[k - 1] \union {e})
  PROVE  Filled(s[m], S, E, max)
<1>1. Grows(s, m, E) /\ IsFiniteSet(s[0])
  BY DEF Grows
<1>2. m \in 0 .. m
  OBVIOUS
<1>3. IsFiniteSet(s[m]) /\ s[0] \subseteq s[m] /\ s[m] \subseteq s[0] \union E
  BY <1>1, <1>2, GrowthKeeps
<1>4. \A k \in 1 .. m : Cardinality(s[k - 1]) < max \/ s[k] = s[k - 1]
  OBVIOUS
<1>5. s[m] = s[0] \/ Cardinality(s[m]) <= max
  BY <1>1, <1>2, <1>4, GrowthStops
<1> QED
  BY <1>3, <1>5 DEF Filled

\* TopUp fills a set with elements of a sequence.
LEMMA TopUpFills ==
  ASSUME NEW S, IsFiniteSet(S), NEW m \in Nat, NEW next, Len(next) = m, NEW max \in Int
  PROVE  Filled(TopUp(S, next, max), S, {next[k] : k \in 1 .. m}, max)
<1> DEFINE E == {next[k] : k \in 1 .. m}
           D == SUBSET (S \union E)
           G(p, k) == IF Cardinality(p) < max THEN p \union {next[k]} ELSE p
           step == [k \in 1 .. m |-> [p \in D |-> G(p, k)]]
           F(s) == s = [k \in 0 .. Len(next) |-> IF k = 0 THEN S ELSE G(s[k - 1], k)]
<1>1. step \in [1 .. m -> [D -> D]]
  OBVIOUS
<1>2. \A k \in 1 .. m : \A p \in D : step[k][p] = G(p, k)
  OBVIOUS
<1>0. S \in D
  OBVIOUS
<1> HIDE DEF step, D, G
<1>3. PICK f \in [0 .. m -> D] : f[0] = S /\ \A k \in 1 .. m : f[k] = step[k][f[k - 1]]
  BY <1>0, <1>1, LoopExists
<1>4. ASSUME NEW k \in 1 .. m PROVE f[k] = G(f[k - 1], k)
  <2>1. f[k - 1] \in D
    OBVIOUS
  <2> QED
    BY <1>2, <1>3, <2>1
<1>5. F(f)
  BY <1>3, <1>4
<1> DEFINE t == CHOOSE s : F(s)
<1>6. F(t)
  <2> HIDE DEF F
  <2> QED
    BY <1>5, Zenon
<1>7. TopUp(S, next, max) = t[m]
  BY Zenon DEF TopUp, G
<1> HIDE DEF t
<1>8. \A k \in 0 .. m : t[k] = IF k = 0 THEN S ELSE G(t[k - 1], k)
  BY <1>6
<1>9. ASSUME NEW k \in 1 .. m
      PROVE  t[k] = t[k - 1]
               \/ (Cardinality(t[k - 1]) < max /\ \E e \in E : t[k] = t[k - 1] \union {e})
  <2>1. t[k] = G(t[k - 1], k)
    BY <1>8
  <2>2. next[k] \in E
    OBVIOUS
  <2> HIDE DEF E
  <2> QED
    BY <2>1, <2>2 DEF G
<1>10. t[0] = S
  BY <1>8
<1> HIDE DEF E, F
<1>11. Filled(t[m], S, E, max)
  BY <1>9, <1>10, GrowthFills
<1> QED
  BY <1>7, <1>11 DEF E

\* StrideFill fills a set with positions.
LEMMA StrideFillFills ==
  ASSUME NEW keep, IsFiniteSet(keep), NEW n \in Nat, NEW k \in Int, NEW cap \in Int, NEW label
  PROVE  Filled(StrideFill(keep, n, k, cap, label), keep, 0 .. n - 1, cap)
<1> DEFINE E == 0 .. n - 1
           D == SUBSET (keep \union E)
           room == k - Cardinality(keep)
           stride == AtLeast(1, (n - 1) \div (room + 1))
           Open(p, i) == (i - 1) % stride = 0 /\ Cardinality(p) < cap
                         /\ \A j \in p : label[j] # label[i - 1]
           G(p, i) == IF Open(p, i) THEN p \union {i - 1} ELSE p
           step == [i \in 1 .. n |-> [p \in D |-> G(p, i)]]
           F(s) == s = [i \in 0 .. n |-> IF i = 0 THEN keep ELSE G(s[i - 1], i)]
<1>1. step \in [1 .. n -> [D -> D]]
  <2> HIDE DEF Open
  <2> QED
    OBVIOUS
<1>0. keep \in D
  OBVIOUS
<1>2. \A i \in 1 .. n : \A p \in D : step[i][p] = G(p, i)
  <2> HIDE DEF Open
  <2> QED
    OBVIOUS
<1> HIDE DEF step, D, G
<1>3. PICK f \in [0 .. n -> D] : f[0] = keep /\ \A i \in 1 .. n : f[i] = step[i][f[i - 1]]
  BY <1>0, <1>1, LoopExists
<1>4. ASSUME NEW i \in 1 .. n PROVE f[i] = G(f[i - 1], i)
  <2>1. f[i - 1] \in D
    OBVIOUS
  <2> QED
    BY <1>2, <1>3, <2>1
<1>5. F(f)
  BY <1>3, <1>4
<1> DEFINE t == CHOOSE s : F(s)
<1>6. F(t)
  <2> HIDE DEF F
  <2> QED
    BY <1>5, Zenon
<1>7. StrideFill(keep, n, k, cap, label) \in {keep, t[n]}
  BY Zenon DEF StrideFill, G
<1> HIDE DEF t
<1>8. \A i \in 0 .. n : t[i] = IF i = 0 THEN keep ELSE G(t[i - 1], i)
  BY <1>6
<1>9. ASSUME NEW i \in 1 .. n
      PROVE  t[i] = t[i - 1]
               \/ (Cardinality(t[i - 1]) < cap /\ \E e \in E : t[i] = t[i - 1] \union {e})
  <2>1. t[i] = t[i - 1] \/ (t[i] = t[i - 1] \union {i - 1} /\ Open(t[i - 1], i))
    <3>1. t[i] = G(t[i - 1], i)
      BY <1>8
    <3> HIDE DEF Open
    <3> QED
      BY <3>1, Zenon DEF G
  <2>2. i - 1 \in E
    OBVIOUS
  <2>3. Open(t[i - 1], i) => Cardinality(t[i - 1]) < cap
    OBVIOUS
  <2> HIDE DEF E, Open
  <2> QED
    BY <2>1, <2>2, <2>3
<1>10. t[0] = keep
  BY <1>8
<1> HIDE DEF E, F
<1>11. Filled(t[n], keep, E, cap)
  BY <1>9, <1>10, GrowthFills
<1>12. Filled(keep, keep, E, cap)
  BY DEF Filled
<1> QED
  BY <1>7, <1>11, <1>12 DEF E

\* The numbers below n.
LEMMA PlacesFinite ==
  ASSUME NEW n \in Nat
  PROVE  IsFiniteSet(0 .. n - 1) /\ Cardinality(0 .. n - 1) = n
<1>1. IsFiniteSet(0 .. n - 1) /\ Cardinality(0 .. n - 1) = IF 0 > n - 1 THEN 0 ELSE (n - 1) - 0 + 1
  BY FS_Interval
<1> QED
  BY <1>1

\* The positions of an array.
LEMMA PositionsFinite ==
  ASSUME NEW s, Len(s) \in Nat
  PROVE  IsFiniteSet(Positions(s)) /\ Cardinality(Positions(s)) = Len(s) /\ Positions(s) \subseteq Nat
<1>1. PICK n \in Nat : n = Len(s)
  OBVIOUS
<1>2. IsFiniteSet(0 .. n - 1) /\ Cardinality(0 .. n - 1) = n
  BY PlacesFinite
<1> QED
  BY <1>1, <1>2 DEF Positions

\* The strides list the positions that are not kept.
LEMMA StridesLength ==
  ASSUME NEW rows, Len(rows) \in Nat, NEW keep, NEW step
  PROVE  Len(Strides(keep, rows, step)) \in Nat
<1> DEFINE free == InOrder(Positions(rows) \ keep)
           ring(k) == (k - 1) % step
           ks == [k \in DOMAIN free |-> k]
           order == StableSort(ks, LAMBDA k, l : ring(k) < ring(l))
           f == [k \in DOMAIN order |-> free[order[k]]]
<1>1. PICK n \in Nat : DOMAIN free = 1 .. n
  <2>1. IsFiniteSet(Positions(rows) \ keep) /\ Positions(rows) \ keep \subseteq Int
    <3>1. PICK P : P = Positions(rows) /\ IsFiniteSet(P) /\ P \subseteq Nat
      BY PositionsFinite
    <3>2. IsFiniteSet(P \ keep)
      BY <3>1, FS_Difference
    <3> QED
      BY <3>1, <3>2
  <2> QED
    BY <2>1, InOrderLists
<1>2. DOMAIN order = 1 .. n
  <2> HIDE DEF free
  <2>1. DOMAIN ks = 1 .. n
    BY <1>1
  <2> HIDE DEF ks
  <2> QED
    BY <2>1, SortedLength
<1>3. Len(<< >> \o f) \in Nat
  <2> DEFINE T == {f[k] : k \in 1 .. n}
  <2> HIDE DEF order, free
  <2>1. f \in [1 .. n -> T]
    BY <1>2
  <2> HIDE DEF f, T
  <2> QED
    BY <2>1, LazySeq
<1> QED
  BY <1>3, Zenon DEF Strides

\* The free places are filled with other rows, no more than there are.
LEMMA SlotsFilled ==
  ASSUME NEW rows, Len(rows) \in Nat, NEW keep, IsFiniteSet(keep), NEW max \in Int
  PROVE  \E E : Filled(FillRemainingSlots(keep, rows, max), keep, E, max)
<1> DEFINE room == max - Cardinality(keep)
           stride == AtLeast(1, (Len(rows) - Cardinality(keep)) \div (room + 1))
           next == Strides(keep, rows, stride)
<1>a. PICK m \in Nat : m = Len(next)
  BY StridesLength
<1> HIDE DEF next
<1> DEFINE E == {next[k] : k \in 1 .. m}
           D == SUBSET (keep \union E)
           Open(p, k) == Cardinality(p) < max /\ \A j \in p : At(rows, j) # At(rows, next[k])
           G(p, k) == IF Open(p, k) THEN p \union {next[k]} ELSE p
           step == [k \in 1 .. m |-> [p \in D |-> G(p, k)]]
           F(s) == s = [k \in 0 .. Len(next) |-> IF k = 0 THEN keep ELSE G(s[k - 1], k)]
<1>1. step \in [1 .. m -> [D -> D]]
  <2> HIDE DEF Open
  <2> QED
    OBVIOUS
<1>0. keep \in D
  OBVIOUS
<1>2. \A k \in 1 .. m : \A p \in D : step[k][p] = G(p, k)
  <2> HIDE DEF Open
  <2> QED
    OBVIOUS
<1> HIDE DEF step, D, G
<1>3. PICK f \in [0 .. m -> D] : f[0] = keep /\ \A k \in 1 .. m : f[k] = step[k][f[k - 1]]
  <2>1. PICK d : d = D
    OBVIOUS
  <2>2. PICK st \in [1 .. m -> [d -> d]] : st = step
    BY <1>1, <2>1
  <2>3. keep \in d
    BY <1>0, <2>1
  <2>4. PICK f \in [0 .. m -> d] : f[0] = keep /\ \A k \in 1 .. m : f[k] = st[k][f[k - 1]]
    BY <2>3, LoopExists
  <2> QED
    BY <2>1, <2>2, <2>4
<1>4. ASSUME NEW k \in 1 .. m PROVE f[k] = G(f[k - 1], k)
  <2>1. f[k - 1] \in D
    OBVIOUS
  <2> QED
    BY <1>2, <1>3, <2>1
<1>5. F(f)
  BY <1>3, <1>4, <1>a
<1> DEFINE t == CHOOSE s : F(s)
<1>6. F(t)
  <2> HIDE DEF F
  <2> QED
    BY <1>5, Zenon
<1>7. FillRemainingSlots(keep, rows, max) \in {keep, t[Len(next)]}
  BY Zenon DEF FillRemainingSlots, G, next
<1> HIDE DEF t
<1>8. \A k \in 0 .. m : t[k] = IF k = 0 THEN keep ELSE G(t[k - 1], k)
  BY <1>6, <1>a
<1>9. ASSUME NEW k \in 1 .. m
      PROVE  t[k] = t[k - 1]
               \/ (Cardinality(t[k - 1]) < max /\ \E e \in E : t[k] = t[k - 1] \union {e})
  <2>1. t[k] = t[k - 1] \/ (t[k] = t[k - 1] \union {next[k]} /\ Open(t[k - 1], k))
    <3>1. t[k] = G(t[k - 1], k)
      BY <1>8
    <3> HIDE DEF Open
    <3> QED
      BY <3>1, Zenon DEF G
  <2>2. next[k] \in E
    OBVIOUS
  <2>3. Open(t[k - 1], k) => Cardinality(t[k - 1]) < max
    OBVIOUS
  <2> HIDE DEF E, Open
  <2> QED
    BY <2>1, <2>2, <2>3
<1>10. t[0] = keep
  BY <1>8
<1> HIDE DEF E, F
<1>11. Filled(t[m], keep, E, max)
  BY <1>9, <1>10, GrowthFills
<1>12. Filled(keep, keep, E, max)
  BY DEF Filled
<1> QED
  BY <1>7, <1>11, <1>12, <1>a

\* The ends of an array: no more positions than asked for.
LEMMA EndsBound ==
  ASSUME NEW n \in Nat, NEW first \in Nat, NEW last \in Nat
  PROVE  /\ IsFiniteSet(Ends(n, first, last))
         /\ Ends(n, first, last) \subseteq 0 .. n - 1
         /\ Cardinality(Ends(n, first, last)) <= first + last
<1> DEFINE A == 0 .. AtMost(first, n) - 1
           B == AtLeast(n - last, 0) .. n - 1
<1>1. PICK a \in Nat : a = AtMost(first, n) /\ a <= first /\ a <= n
  BY DEF AtMost
<1>2. PICK b \in Nat : b = AtLeast(n - last, 0) /\ n - last <= b
  BY DEF AtLeast
<1>3. IsFiniteSet(A) /\ Cardinality(A) <= first
  <2>1. IsFiniteSet(0 .. a - 1) /\ Cardinality(0 .. a - 1) = IF 0 > a - 1 THEN 0 ELSE (a - 1) - 0 + 1
    BY FS_Interval
  <2> QED
    BY <1>1, <2>1
<1>4. IsFiniteSet(B) /\ Cardinality(B) <= last
  <2>1. IsFiniteSet(b .. n - 1) /\ Cardinality(b .. n - 1) = IF b > n - 1 THEN 0 ELSE (n - 1) - b + 1
    BY FS_Interval
  <2> QED
    BY <1>2, <2>1
<1>5. IsFiniteSet(A \union B)
      /\ Cardinality(A \union B) = Cardinality(A) + Cardinality(B) - Cardinality(A \intersect B)
  BY <1>3, <1>4, FS_Union
<1>6. IsFiniteSet(A \intersect B)
  BY <1>3, FS_Intersection
<1>7. Cardinality(A) \in Nat /\ Cardinality(B) \in Nat /\ Cardinality(A \intersect B) \in Nat
  BY <1>3, <1>4, <1>6, FS_CardinalityType
<1>8. A \union B \subseteq 0 .. n - 1
  BY <1>1, <1>2
<1>9. Ends(n, first, last) = A \union B
  BY DEF Ends
<1>10. Cardinality(A \union B) <= first + last
  <2> HIDE DEF A, B
  <2> QED
    BY <1>3, <1>4, <1>5, <1>7
<1> HIDE DEF A, B
<1> QED
  BY <1>5, <1>8, <1>9, <1>10

\* A union has no more elements than its parts together.
LEMMA UnionBound ==
  ASSUME NEW S, NEW T, IsFiniteSet(S), IsFiniteSet(T)
  PROVE  /\ IsFiniteSet(S \union T)
         /\ Cardinality(S \union T) <= Cardinality(S) + Cardinality(T)
         /\ Cardinality(S) \in Nat /\ Cardinality(T) \in Nat /\ Cardinality(S \union T) \in Nat
<1>1. IsFiniteSet(S \union T)
      /\ Cardinality(S \union T) = Cardinality(S) + Cardinality(T) - Cardinality(S \intersect T)
  BY FS_Union
<1>2. IsFiniteSet(S \intersect T)
  BY FS_Intersection
<1>3. Cardinality(S) \in Nat /\ Cardinality(T) \in Nat /\ Cardinality(S \intersect T) \in Nat
      /\ Cardinality(S \union T) \in Nat
  BY <1>1, <1>2, FS_CardinalityType
<1> QED
  BY <1>1, <1>3

\* A percentage rounds to a number within half of one of it.
LEMMA RoundedIsNear ==
  ASSUME NEW n \in Nat, NEW pct \in Nat
  PROVE  RoundedPct(n, pct) \in Nat /\ 100 * RoundedPct(n, pct) <= n * pct + 50
<1>1. PICK p \in Nat : p = n * pct
  OBVIOUS
<1>2. PICK q \in Nat : q = p \div 100
  OBVIOUS
<1>3. PICK r \in 0 .. 99 : r = p % 100
  OBVIOUS
<1>4. p = 100 * q + r
  BY <1>2, <1>3
<1>5. RoundedPct(n, pct) = IF 2 * r > 100 \/ (2 * r = 100 /\ q % 2 = 1) THEN q + 1 ELSE q
  BY <1>1, <1>2, <1>3, Zenon DEF RoundedPct
<1> QED
  BY <1>1, <1>4, <1>5

\* The first and the last items are together no more than k.
LEMMA SplitFits ==
  ASSUME NEW k \in Nat
  PROVE  /\ ComputeKSplit(k).first \in Nat /\ ComputeKSplit(k).last \in Nat
         /\ ComputeKSplit(k).first + ComputeKSplit(k).last <= k
<1>1. FirstPct \in Nat /\ LastPct \in Nat
  BY CrusherAssumption
<1>2. PICK a \in Nat, b \in Nat : a = RoundedPct(k, FirstPct) /\ b = RoundedPct(k, LastPct)
  BY <1>1, RoundedIsNear
<1>3. PICK f \in Nat : f = AtMost(k, AtLeast(1, a)) /\ f <= k
  BY DEF AtMost, AtLeast
<1>4. PICK l \in Nat : l = AtMost(k - f, AtLeast(1, b)) /\ l <= k - f
  BY <1>3 DEF AtMost, AtLeast
<1>5. ComputeKSplit(k) = [first |-> f, last |-> l]
  BY <1>2, <1>3, <1>4, Zenon DEF ComputeKSplit
<1> QED
  BY <1>3, <1>4, <1>5

-----------------------------------------------------------------------------
(* Scores *)

\* The items of which arrays are made, and the rows among them.
Given == UNION {{chunk[i] : i \in DOMAIN chunk} : chunk \in Chunks}
Rows  == {g[2] : g \in {h \in Given : h[1] = "dict"}}

\* Rows have finitely many fields, and their texts a length.
LEMMA RowsAreFinite == \A row \in Rows : IsFiniteSet(DOMAIN row) /\ LengthOf(row) \in Nat
<1> SUFFICES ASSUME NEW g \in Given, g[1] = "dict"
             PROVE  IsFiniteSet(DOMAIN g[2]) /\ LengthOf(g[2]) \in Nat
  BY DEF Rows
<1>1. IsValue(g) /\ LengthOf(g[2]) \in Nat
  <2>1. PICK chunk \in Chunks : \E i \in DOMAIN chunk : g = chunk[i]
    BY DEF Given
  <2>2. PICK i \in DOMAIN chunk : g = chunk[i]
    BY <2>1
  <2>3. IsValue(chunk[i]) /\ (chunk[i][1] = "dict" => LengthOf(chunk[i][2]) \in Nat)
    BY CrusherAssumption, Zenon
  <2> QED
    BY <2>2, <2>3
<1>2. ~ IsLeaf(g)
  BY DEF IsLeaf, Leaf, Null
<1>3. IsObject(g, IsInner)
  BY <1>1, <1>2 DEF IsValue
<1> QED
  BY <1>1, <1>3 DEF IsObject

\* Division by a positive number gives a number.
LEMMA Quotient == ASSUME NEW a \in Int, NEW b \in Nat \ {0} PROVE a \div b \in Int
  OBVIOUS

\* How rare the values of an object are.
LEMMA RarityIsNumber ==
  ASSUME NEW region, Len(region) \in Nat, NEW item, IsFiniteSet(DOMAIN item)
  PROVE  calculateValueUniqueness(item, region) \in Int
<1> DEFINE n == Len(region)
           D == DOMAIN item
           same(f) == Cardinality({j \in 1 .. n : f \in DOMAIN region[j] /\ region[j][f] = item[f]})
           g == [f \in D |-> n - same(f)]
<1>1. PICK c \in Nat : c = Cardinality(D)
  BY FS_CardinalityType
<1>2. ASSUME NEW f PROVE same(f) \in Nat
  <2>1. IsFiniteSet(1 .. n)
    BY FS_Interval
  <2>2. IsFiniteSet({j \in 1 .. n : f \in DOMAIN region[j] /\ region[j][f] = item[f]})
    BY <2>1, FS_Subset
  <2> QED
    BY <2>2, FS_CardinalityType
<1>3. \A f \in D : g[f] \in Int
  <2> HIDE DEF same
  <2> QED
    BY <1>2
<1>4. calculateValueUniqueness(item, region)
        = IF n < 2 \/ D = {} THEN 5000 ELSE (10000 * SumOf(g, D)) \div (n * Cardinality(D))
  BY DEF calculateValueUniqueness
<1> HIDE DEF n, g
<1>n. n \in Nat
  BY DEF n
<1>5. PICK s \in Int : s = SumOf(g, D)
  BY <1>3, SumType
<1>6. CASE n < 2 \/ D = {}
  BY <1>4, <1>6
<1>7. CASE ~ (n < 2 \/ D = {})
  <2>1. c # 0
    BY <1>1, <1>7, FS_EmptySet
  <2>2. PICK d \in Nat \ {0} : d = n * c
    <3>1. n * c \in Nat /\ n * c # 0
      BY <1>n, <1>7, <2>1
    <3> QED
      BY <3>1
  <2>3. PICK a \in Int : a = 10000 * s
    OBVIOUS
  <2>4. a \div d \in Int
    BY Quotient
  <2>5. calculateValueUniqueness(item, region) = a \div d
    BY <1>1, <1>4, <1>5, <1>7, <2>2, <2>3
  <2> QED
    BY <2>4, <2>5
<1> QED
  BY <1>6, <1>7

\* How long the text of an object is among others.
LEMMA LengthIsNumber ==
  ASSUME NEW region, Len(region) \in Nat \ {0}, DOMAIN region = 1 .. Len(region),
         \A j \in DOMAIN region : LengthOf(region[j]) \in Nat, NEW item, LengthOf(item) \in Nat
  PROVE  calculateLengthScore(item, region) \in Int
<1> DEFINE n == Len(region)
           lengths == {LengthOf(region[j]) : j \in DOMAIN region}
           least == CHOOSE l \in lengths : \A k \in lengths : l <= k
           most == CHOOSE l \in lengths : \A k \in lengths : k <= l
<1>1. lengths \subseteq Nat /\ lengths # {} /\ IsFiniteSet(lengths)
  <2> DEFINE f == [j \in 1 .. n |-> LengthOf(region[j])]
  <2>1. IsFiniteSet(1 .. n)
    BY FS_Interval
  <2>2. IsFiniteSet({f[j] : j \in 1 .. n})
    <3> HIDE DEF f
    <3> QED
      BY <2>1, ImageFinite
  <2>3. {f[j] : j \in 1 .. n} = lengths
    OBVIOUS
  <2>4. LengthOf(region[1]) \in lengths
    OBVIOUS
  <2> QED
    BY <2>2, <2>3, <2>4
<1> HIDE DEF lengths
<1>2. least \in lengths /\ \A k \in lengths : least <= k
  <2>1. \E l \in lengths : \A k \in lengths : l <= k
    BY <1>1, LeastElement
  <2> QED
    BY <2>1
<1>3. most \in lengths /\ \A k \in lengths : k <= most
  <2>1. \E l \in lengths : \A k \in lengths : k <= l
    <3>1. lengths \subseteq Int
      BY <1>1
    <3> QED
      BY <1>1, <3>1, GreatestElement
  <2> QED
    BY <2>1
<1>4. calculateLengthScore(item, region)
        = IF n < 2 \/ least = most THEN 5000 ELSE (10000 * (LengthOf(item) - least)) \div (most - least)
  BY DEF calculateLengthScore, lengths
<1> HIDE DEF n, least, most
<1>5. PICK l \in Nat, m \in Nat, x \in Nat : l = least /\ m = most /\ x = LengthOf(item) /\ l <= m
  BY <1>1, <1>2, <1>3
<1>6. CASE n < 2 \/ l = m
  BY <1>4, <1>5, <1>6
<1>7. CASE ~ (n < 2 \/ l = m)
  <2>1. PICK a \in Int : a = 10000 * (x - l)
    OBVIOUS
  <2>2. PICK b \in Nat \ {0} : b = m - l
    BY <1>5, <1>7
  <2>3. a \div b \in Int
    BY Quotient
  <2> QED
    BY <1>4, <1>5, <1>7, <2>1, <2>2, <2>3
<1> QED
  BY <1>6, <1>7

\* How unusual the fields of an object are.
LEMMA StructureIsNumber ==
  ASSUME NEW region, Len(region) \in Nat,
         \A j \in 1 .. Len(region) : IsFiniteSet(DOMAIN region[j]), NEW item
  PROVE  calculateStructuralUniqueness(item, region) \in Int
<1> DEFINE n == Len(region)
           fields == UNION {DOMAIN region[j] : j \in 1 .. n}
           count(f) == Cardinality({j \in 1 .. n : f \in DOMAIN region[j]})
           common == {f \in fields : 100 * count(f) >= 80 * n}
           rare == {f \in fields : 100 * count(f) < 20 * n}
           share(S, of) == IF of = {} THEN 0 ELSE (5000 * Cardinality(S)) \div Cardinality(of)
<1>1. IsFiniteSet(fields)
  <2> DEFINE f == [j \in 1 .. n |-> DOMAIN region[j]]
  <2>1. IsFiniteSet(1 .. n)
    BY FS_Interval
  <2>2. IsFiniteSet({f[j] : j \in 1 .. n})
    <3> HIDE DEF f
    <3> QED
      BY <2>1, ImageFinite
  <2>3. {f[j] : j \in 1 .. n} = {DOMAIN region[j] : j \in 1 .. n}
    OBVIOUS
  <2>4. \A T \in {DOMAIN region[j] : j \in 1 .. n} : IsFiniteSet(T)
    OBVIOUS
  <2> QED
    BY <2>2, <2>3, <2>4, FS_UNION
<1>2. ASSUME NEW S, NEW of, IsFiniteSet(of), S \subseteq of PROVE share(S, of) \in Int
  <2>1. CASE of = {}
    BY <2>1
  <2>2. CASE of # {}
    <3>1. PICK a \in Nat, b \in Nat : a = Cardinality(S) /\ b = Cardinality(of)
      BY <1>2, FS_Subset, FS_CardinalityType
    <3>2. b # 0
      BY <1>2, <2>2, <3>1, FS_EmptySet
    <3>3. (5000 * a) \div b \in Int
      <4>1. PICK x \in Int : x = 5000 * a
        OBVIOUS
      <4>2. b \in Nat \ {0}
        BY <3>2
      <4> QED
        BY <4>1, <4>2, Quotient
    <3> QED
      BY <2>2, <3>1, <3>3
  <2> QED
    BY <2>1, <2>2
<1>3. IsFiniteSet(common) /\ IsFiniteSet(rare)
  <2>1. common \subseteq fields /\ rare \subseteq fields
    <3> HIDE DEF fields
    <3> QED
      OBVIOUS
  <2> HIDE DEF common, rare, fields
  <2> QED
    BY <1>1, <2>1, FS_Subset
<1>4. calculateStructuralUniqueness(item, region)
        = IF n < 2 THEN 5000
          ELSE share(rare \intersect DOMAIN item, rare) + share(common \ DOMAIN item, common)
  BY DEF calculateStructuralUniqueness
<1> HIDE DEF common, rare, share
<1>5. share(rare \intersect DOMAIN item, rare) \in Int /\ share(common \ DOMAIN item, common) \in Int
  <2>1. rare \intersect DOMAIN item \subseteq rare /\ common \ DOMAIN item \subseteq common
    OBVIOUS
  <2> QED
    BY <1>2, <1>3, <2>1
<1> QED
  BY <1>4, <1>5

\* So the score of an object in a region of objects is a number.
LEMMA ScoreIsNumber ==
  ASSUME NEW region \in Seq(Rows), region # << >>, NEW item \in Rows
  PROVE  CalculateInformationScore(item, region) \in Int
<1>1. PICK n \in Nat \ {0} : n = Len(region) /\ DOMAIN region = 1 .. n
                              /\ \A j \in 1 .. n : region[j] \in Rows
  BY EmptySeq, LenProperties, ElementOfSeq
<1>2. PICK a \in Int : a = calculateValueUniqueness(item, region)
  BY <1>1, RowsAreFinite, RarityIsNumber
<1>3. PICK b \in Int : b = calculateLengthScore(item, region)
  BY <1>1, RowsAreFinite, LengthIsNumber
<1>4. PICK c \in Int : c = calculateStructuralUniqueness(item, region)
  BY <1>1, RowsAreFinite, StructureIsNumber
<1>5. CalculateInformationScore(item, region) = (40 * a + 30 * b + 30 * c) \div 100
  BY <1>2, <1>3, <1>4 DEF CalculateInformationScore
<1> QED
  BY <1>5

-----------------------------------------------------------------------------
(* Anchors *)

\* The anchors that are taken: positions, at most max, and, when duplicates are
\* left out, of different objects, all of which are remembered.
AnchorState(items, s, max) ==
  /\ s.taken \subseteq Positions(items)
  /\ IsFiniteSet(s.taken) /\ Cardinality(s.taken) <= max
  /\ DedupAnchors =>
       /\ \A i \in s.taken : items[i + 1] \in s.seen
       /\ \A i, j \in s.taken : i # j => items[i + 1] # items[j + 1]

\* The state of a region's loop is a record of two sets.
IsState(s) == s = [taken |-> s.taken, seen |-> s.seen]

\* One more anchor, a new one.
LEMMA AnchorTaken ==
  ASSUME NEW items, NEW s, NEW max \in Int, AnchorState(items, s, max),
         NEW at \in Positions(items), Include(items, s.seen, at), Cardinality(s.taken) < max
  PROVE  AnchorState(items, [taken |-> s.taken \union {at}, seen |-> s.seen \union {items[at + 1]}], max)
<1>1. IsFiniteSet(s.taken \union {at})
      /\ Cardinality(s.taken \union {at})
           = IF at \in s.taken THEN Cardinality(s.taken) ELSE Cardinality(s.taken) + 1
  BY FS_AddElement DEF AnchorState
<1>2. Cardinality(s.taken) \in Nat
  BY FS_CardinalityType DEF AnchorState
<1>3. Cardinality(s.taken \union {at}) <= max
  BY <1>1, <1>2
<1>4. ASSUME DedupAnchors
      PROVE  /\ \A i \in s.taken \union {at} : items[i + 1] \in s.seen \union {items[at + 1]}
             /\ \A i, j \in s.taken \union {at} : i # j => items[i + 1] # items[j + 1]
  BY <1>4 DEF AnchorState, Include
<1> QED
  BY <1>1, <1>3, <1>4 DEF AnchorState

\* A list of positions of a region.
Inside(list, from, to) ==
  DOMAIN list \subseteq Nat /\ \A n \in DOMAIN list : list[n] \in from .. to - 1

\* Of the tries of a region one more anchor at most for each slot is taken.
LEMMA TakeAnchors ==
  ASSUME NEW items, NEW s, IsState(s), NEW c \in Nat, AnchorState(items, s, c),
         NEW slots \in Nat, NEW m \in Nat, NEW tries, Len(tries) = m,
         NEW from \in Nat, NEW to \in Nat, from .. to - 1 \subseteq Positions(items),
         \A k \in 1 .. m : Inside(tries[k], from, to)
  PROVE  /\ IsState(Take(items, s, tries, slots))
         /\ AnchorState(items, Take(items, s, tries, slots), c + slots)
<1> DEFINE room == Cardinality(s.taken) + slots
           Fresh(p, k) == {n \in DOMAIN tries[k] : Include(items, p.seen, tries[k][n])}
           At1(p, k) == tries[k][CHOOSE n \in Fresh(p, k) : \A i \in Fresh(p, k) : n <= i]
           Full(p, k) == Fresh(p, k) = {} \/ Cardinality(p.taken) >= room
           G(p, k) == IF Full(p, k) THEN p
                      ELSE [taken |-> p.taken \union {At1(p, k)},
                            seen  |-> p.seen \union {items[At1(p, k) + 1]}]
           T == s.taken \union UNION {{tries[k][n] : n \in Nat} : k \in 1 .. m}
           V == s.seen \union {items[i + 1] : i \in T}
           D == [taken : SUBSET T, seen : SUBSET V]
           step == [k \in 1 .. m |-> [p \in D |-> G(p, k)]]
           F(f) == f = [k \in 0 .. Len(tries) |-> IF k = 0 THEN s ELSE G(f[k - 1], k)]
<1>1. ASSUME NEW k \in 1 .. m, NEW p, Fresh(p, k) # {}
      PROVE  \E n \in Nat : /\ At1(p, k) = tries[k][n] /\ Include(items, p.seen, tries[k][n])
                           /\ At1(p, k) \in Positions(items)
  <2>1. Fresh(p, k) \subseteq Nat /\ Fresh(p, k) \subseteq DOMAIN tries[k]
    BY DEF Inside
  <2>2. \E n \in Fresh(p, k) : \A i \in Fresh(p, k) : n <= i
    <3> HIDE DEF Fresh
    <3> QED
      BY <1>1, <2>1, LeastElement
  <2>3. PICK n : n \in Fresh(p, k) /\ n = CHOOSE q \in Fresh(p, k) : \A i \in Fresh(p, k) : q <= i
    <3> HIDE DEF Fresh
    <3> QED
      BY <2>2
  <2>4. At1(p, k) = tries[k][n]
    BY <2>3
  <2>5. n \in Nat /\ Include(items, p.seen, tries[k][n])
    BY <2>1, <2>3
  <2>6. tries[k][n] \in Positions(items)
    BY <2>1, <2>3 DEF Inside
  <2> HIDE DEF At1
  <2> QED
    BY <2>4, <2>5, <2>6
<1> HIDE DEF Fresh, At1
<1>2. s \in D
  BY DEF IsState
<1>3. ASSUME NEW k \in 1 .. m, NEW p \in D PROVE G(p, k) \in D
  <2>1. CASE Full(p, k)
    BY <2>1
  <2>2. CASE ~ Full(p, k)
    <3>1. PICK n \in Nat : At1(p, k) = tries[k][n]
      BY <1>1, <2>2
    <3>2. PICK at \in T : at = At1(p, k)
      BY <3>1
    <3>3. PICK v \in V : v = items[at + 1]
      OBVIOUS
    <3>4. G(p, k) = [taken |-> p.taken \union {at}, seen |-> p.seen \union {v}]
      BY <2>2, <3>2, <3>3
    <3> HIDE DEF G, T, V
    <3> QED
      BY <3>4
  <2> QED
    BY <2>1, <2>2
<1>4. step \in [1 .. m -> [D -> D]]
  <2> HIDE DEF G, D
  <2> QED
    BY <1>3
<1>5. \A k \in 1 .. m : \A p \in D : step[k][p] = G(p, k)
  <2> HIDE DEF G, D
  <2> QED
    OBVIOUS
<1> HIDE DEF step, D, G
<1>6. PICK f \in [0 .. m -> D] : f[0] = s /\ \A k \in 1 .. m : f[k] = step[k][f[k - 1]]
  BY <1>2, <1>4, LoopExists
<1>7. ASSUME NEW k \in 1 .. m PROVE f[k] = G(f[k - 1], k)
  <2>1. f[k - 1] \in D
    OBVIOUS
  <2> QED
    BY <1>5, <1>6, <2>1
<1>8. F(f)
  BY <1>6, <1>7
<1> DEFINE t == CHOOSE f1 : F(f1)
<1>9. F(t)
  <2> HIDE DEF F
  <2> QED
    BY <1>8, Zenon
<1>10. Take(items, s, tries, slots) = t[m]
  BY Zenon DEF Take, G, Fresh, At1
<1> HIDE DEF t
<1>11. \A k \in 0 .. m : t[k] = IF k = 0 THEN s ELSE G(t[k - 1], k)
  BY <1>9
<1>12. PICK max \in Nat : max = c + slots /\ room <= max /\ room \in Nat
  <2>1. Cardinality(s.taken) \in Nat /\ Cardinality(s.taken) <= c
    BY FS_CardinalityType DEF AnchorState
  <2> QED
    BY <2>1
<1> DEFINE Z == {k \in 0 .. m : IsState(t[k]) /\ AnchorState(items, t[k], max)}
<1>13. 0 \in Z
  <2>1. t[0] = s
    BY <1>11
  <2>2. AnchorState(items, s, max)
    <3>1. Cardinality(s.taken) \in Nat
      BY FS_CardinalityType DEF AnchorState
    <3> QED
      BY <1>12, <3>1 DEF AnchorState
  <2> QED
    BY <2>1, <2>2
<1>14. ASSUME NEW k \in 1 .. m, k - 1 \in Z PROVE k \in Z
  <2>1. PICK p : p = t[k - 1]
    OBVIOUS
  <2>2. t[k] = G(p, k) /\ IsState(p) /\ AnchorState(items, p, max)
    BY <1>11, <1>14, <2>1
  <2>3. CASE Full(p, k)
    BY <2>2, <2>3 DEF G
  <2>4. CASE ~ Full(p, k)
    <3>1. PICK at \in Positions(items) : at = At1(p, k) /\ Include(items, p.seen, at)
      BY <1>1, <2>4
    <3>2. t[k] = [taken |-> p.taken \union {at}, seen |-> p.seen \union {items[at + 1]}]
      BY <2>2, <2>4, <3>1 DEF G
    <3>3. Cardinality(p.taken) < max
      <4>1. Cardinality(p.taken) \in Nat
        BY <2>2, FS_CardinalityType DEF AnchorState
      <4> QED
        BY <1>12, <2>4, <4>1
    <3>4. AnchorState(items, t[k], max)
      BY <2>2, <3>1, <3>2, <3>3, AnchorTaken
    <3> QED
      BY <3>2, <3>4 DEF IsState
  <2> QED
    BY <2>3, <2>4
<1> HIDE DEF Z
<1>15. 0 .. m \subseteq Z
  BY <1>13, <1>14, TurnInduction
<1>16. IsState(t[m]) /\ AnchorState(items, t[m], max)
  BY <1>15 DEF Z
<1> QED
  BY <1>10, <1>12, <1>16

\* What divides a region lies in it.
LEMMA ProbeInside ==
  ASSUME NEW from \in Int, NEW to \in Int, from < to, NEW k \in Nat, NEW i \in 1 .. k
  PROVE  Probe(from, to, k, i) \in from .. to - 1
<1>1. PICK a \in Nat : a = i * (to - from)
  <2>1. PICK d \in Nat : d = to - from
    OBVIOUS
  <2>2. i * d \in Nat
    OBVIOUS
  <2> QED
    BY <2>1, <2>2
<1>2. PICK b \in Nat \ {0} : b = k + 1
  OBVIOUS
<1>3. PICK q \in Nat : q = a \div b
  OBVIOUS
<1>4. Probe(from, to, k, i) = AtMost(from + q, to - 1)
  BY <1>1, <1>2, <1>3, Zenon DEF Probe
<1> QED
  BY <1>4 DEF AtMost

\* The candidates of a region of rows are in a line by their scores, and of those
\* that are equal by their places: each of the tries is one of them.
LEMMA DensestInside ==
  ASSUME NEW items \in Seq(Rows), NEW from \in Nat, NEW to \in 1 .. Len(items), from < to,
         NEW slots \in Nat
  PROVE  LET tries == ByDensity(items, from, to, slots)
         IN Len(tries) \in Nat /\ \A k \in 1 .. Len(tries) : Inside(tries[k], from, to)
<1> DEFINE k == AtMost(slots * CandidateMultiplier, to - from)
           region == SubSeq(items, from + 1, to)
           probes == {Probe(from, to, k, i) : i \in 1 .. k}
           score == [j \in probes |-> CalculateInformationScore(items[j + 1], region)]
           better(p, j) == score[p] > score[j] \/ (score[p] = score[j] /\ p < j)
           place(j) == Cardinality({p \in probes : better(p, j)})
           R == {q \in probes \X probes : better(q[1], q[2])}
           n == Cardinality(probes)
           f == [r \in 1 .. n |-> <<CHOOSE j \in probes : place(j) = r - 1>>]
           T == {<<j>> : j \in from .. to - 1}
<1>1. PICK m \in Nat : m = k
  <2>1. PICK x \in Nat : x = slots * CandidateMultiplier
    <3>1. CandidateMultiplier \in Nat
      BY AnchorAssumption
    <3>2. slots * CandidateMultiplier \in Nat
      BY <3>1
    <3> QED
      BY <3>2
  <2> QED
    BY <2>1 DEF AtMost
<1>2. IsFiniteSet(probes)
  <2> DEFINE g == [i \in 1 .. m |-> Probe(from, to, m, i)]
  <2>1. IsFiniteSet(1 .. m)
    BY FS_Interval
  <2>2. IsFiniteSet({g[i] : i \in 1 .. m})
    <3> HIDE DEF g
    <3> QED
      BY <2>1, ImageFinite
  <2>3. {g[i] : i \in 1 .. m} = probes
    BY <1>1
  <2> QED
    BY <2>2, <2>3
<1>3. probes \subseteq from .. to - 1
  <2>1. ASSUME NEW i \in 1 .. m PROVE Probe(from, to, m, i) \in from .. to - 1
    BY ProbeInside
  <2> QED
    BY <1>1, <2>1
<1>4. n \in Nat
  BY <1>2, FS_CardinalityType
<1>5. region \in Seq(Rows) /\ region # << >>
  <2>1. from + 1 \in 1 .. Len(items) /\ \A i \in from + 1 .. to : items[i] \in Rows
    BY ElementOfSeq
  <2>2. region \in Seq(Rows) /\ Len(region) = to - from
    BY <2>1, SubSeqProperties
  <2> QED
    BY <2>2, EmptySeq
<1> HIDE DEF region, probes, k
<1>6. \A j \in probes : score[j] \in Int
  <2> SUFFICES ASSUME NEW j \in probes PROVE CalculateInformationScore(items[j + 1], region) \in Int
    OBVIOUS
  <2>1. j + 1 \in 1 .. Len(items)
    BY <1>3
  <2>2. items[j + 1] \in Rows
    BY <2>1, ElementOfSeq
  <2> QED
    BY <1>5, <2>2, ScoreIsNumber
<1> HIDE DEF score
<1>7. Lines(R, probes)
  <2>1. probes \subseteq Int
    BY <1>3
  <2> QED
    BY <1>6, <2>1 DEF Lines
<1>8. \A j \in probes : Ahead(R, probes, j) = {p \in probes : better(p, j)}
  <2> HIDE DEF better
  <2> QED
    BY DEF Ahead
<1> HIDE DEF R, better
<1>9. ASSUME NEW r \in 1 .. n PROVE f[r] \in T
  <2>1. r - 1 \in 0 .. n - 1
    BY <1>4
  <2>2. PICK j \in probes : Cardinality(Ahead(R, probes, j)) = r - 1
    BY <1>2, <1>7, <2>1, PlaceExists
  <2>3. place(j) = r - 1
    BY <1>8, <2>2
  <2> HIDE DEF place
  <2>4. (CHOOSE i \in probes : place(i) = r - 1) \in probes
    BY <2>3
  <2> QED
    BY <1>3, <2>4
<1>10. f \in [1 .. n -> T]
  <2>1. \A r \in 1 .. n : f[r] \in T
    BY <1>9
  <2> HIDE DEF T, place
  <2> QED
    BY <2>1
<1>11. ByDensity(items, from, to, slots) = << >> \o f
  BY Zenon DEF ByDensity, f, place, better, score, probes, region, k
<1>12. \A x \in T : Inside(x, from, to)
  BY DEF Inside
<1> HIDE DEF f, T, n
<1>13. << >> \o f = f /\ Len(f) = n
  BY <1>4, <1>10, LazySeq
<1> QED
  BY <1>4, <1>10, <1>11, <1>12, <1>13

\* The tries of a region are finitely many lists of positions in it.
LEMMA TriesAreLists ==
  ASSUME NEW items \in Seq(Rows), NEW from \in Nat, NEW to \in 1 .. Len(items), from < to,
         NEW slots \in Nat, NEW dense \in BOOLEAN
  PROVE  LET tries == Tries(items, from, to, slots, dense)
         IN Len(tries) \in Nat /\ \A k \in 1 .. Len(tries) : Inside(tries[k], from, to)
<1> DEFINE Lists(tries) == Len(tries) \in Nat /\ \A k \in 1 .. Len(tries) : Inside(tries[k], from, to)
<1>1. Lists(ByDensity(items, from, to, slots))
  BY DensestInside
<1>2. Lists([i \in 1 .. to - from |-> <<from + i - 1>>])
  <2> DEFINE n == to - from
             f == [i \in 1 .. n |-> <<from + i - 1>>]
             T == {<<j>> : j \in from .. to - 1}
  <2>1. n \in Nat /\ f \in [1 .. n -> T]
    OBVIOUS
  <2>2. \A x \in T : Inside(x, from, to)
    BY DEF Inside
  <2>3. Len(f) = n
    <3> HIDE DEF f, n, T
    <3> QED
      BY <2>1, LazySeq
  <2>4. Lists(f)
    <3> HIDE DEF f, n, T
    <3> QED
      BY <2>1, <2>2, <2>3
  <2> QED
    BY <2>4
<1>3. Lists([i \in 1 .. slots |-> Around(from, to, Probe(from, to, slots, i))])
  <2> DEFINE f == [i \in 1 .. slots |-> Around(from, to, Probe(from, to, slots, i))]
             T == {Around(from, to, at) : at \in from .. to - 1}
  <2>1. ASSUME NEW i \in 1 .. slots PROVE f[i] \in T
    <3>1. Probe(from, to, slots, i) \in from .. to - 1
      BY ProbeInside
    <3> QED
      BY <3>1
  <2>2. \A x \in T : Inside(x, from, to)
    <3> SUFFICES ASSUME NEW at \in from .. to - 1 PROVE Inside(Around(from, to, at), from, to)
      OBVIOUS
    <3> DEFINE places == <<at, at + 1, at - 1, at + 2, at - 2>>
               S == {m \in DOMAIN places : from <= places[m] /\ places[m] < to}
    <3>1. Around(from, to, at) = [n \in S |-> places[n]]
      <4> HIDE DEF S
      <4> QED
        BY Zenon DEF Around, S
    <3>2. DOMAIN places \subseteq Nat /\ \A m \in DOMAIN places : places[m] \in Int
      OBVIOUS
    <3> HIDE DEF places
    <3> QED
      BY <3>1, <3>2 DEF Inside
  <2>3. f \in [1 .. slots -> T]
    <3>1. f = [i \in 1 .. slots |-> f[i]] /\ \A i \in 1 .. slots : f[i] \in T
      BY <2>1
    <3> HIDE DEF f, T
    <3> QED
      BY <3>1
  <2>4. Len(f) = slots
    <3> HIDE DEF f, T
    <3> QED
      BY <2>3, LazySeq
  <2>5. Lists(f)
    <3> HIDE DEF f, T
    <3> QED
      BY <2>2, <2>3, <2>4
  <2> QED
    BY <2>5
<1>4. Tries(items, from, to, slots, dense)
        \in {ByDensity(items, from, to, slots), [i \in 1 .. to - from |-> <<from + i - 1>>],
             [i \in 1 .. slots |-> Around(from, to, Probe(from, to, slots, i))]}
  BY Zenon DEF Tries
<1> HIDE DEF Lists
<1>5. Lists(Tries(items, from, to, slots, dense))
  BY <1>1, <1>2, <1>3, <1>4
<1> QED
  BY <1>5 DEF Lists

\* A region adds no more anchors than it has slots.
LEMMA RegionAnchors ==
  ASSUME NEW items \in Seq(Rows), NEW s, IsState(s), NEW c \in Nat, AnchorState(items, s, c),
         NEW slots \in Nat, NEW from \in Nat, NEW to \in Int, to <= Len(items), NEW dense \in BOOLEAN
  PROVE  /\ IsState(selectRegion(items, s, from, to, slots, dense))
         /\ AnchorState(items, selectRegion(items, s, from, to, slots, dense), c + slots)
<1>1. CASE from >= to \/ slots = 0
  <2>1. selectRegion(items, s, from, to, slots, dense) = s
    BY <1>1, Zenon DEF selectRegion
  <2>2. AnchorState(items, s, c + slots)
    <3>1. Cardinality(s.taken) \in Nat
      BY FS_CardinalityType DEF AnchorState
    <3> QED
      BY <3>1 DEF AnchorState
  <2> QED
    BY <2>1, <2>2
<1>2. CASE from < to /\ slots # 0
  <2>1. PICK tries : tries = Tries(items, from, to, slots, dense)
    OBVIOUS
  <2>l. Len(items) \in Nat
    BY LenProperties
  <2>t. to \in 1 .. Len(items) /\ to \in Nat /\ from .. to - 1 \subseteq Positions(items)
    BY <1>2, <2>l DEF Positions
  <2>2. PICK m \in Nat : m = Len(tries) /\ \A k \in 1 .. m : Inside(tries[k], from, to)
    <3>1. Len(tries) \in Nat /\ \A k \in 1 .. Len(tries) : Inside(tries[k], from, to)
      BY <1>2, <2>1, <2>t, TriesAreLists
    <3> QED
      BY <3>1
  <2>3. selectRegion(items, s, from, to, slots, dense) = Take(items, s, tries, slots)
    <3>1. ~ (from >= to)
      BY <1>2
    <3> QED
      BY <1>2, <2>1, <3>1, Zenon DEF selectRegion
  <2>4. PICK end \in Nat : end = to
    BY <2>t
  <2>5. from .. end - 1 \subseteq Positions(items) /\ \A k \in 1 .. m : Inside(tries[k], from, end)
    BY <2>2, <2>4, <2>t
  <2>6. LET s1 == Take(items, s, tries, slots)
        IN IsState(s1) /\ AnchorState(items, s1, c + slots)
    <3>1. Len(tries) = m
      BY <2>2
    <3> QED
      BY <2>5, <3>1, TakeAnchors
  <2> QED
    BY <2>3, <2>6
<1> QED
  BY <1>1, <1>2

\* The three regions together take no more anchors than they have slots.
LEMMA RegionsAnchors ==
  ASSUME NEW items \in Seq(Rows), NEW slots,
         slots.front \in Nat, slots.middle \in Nat, slots.back \in Nat
  PROVE  \E s : /\ InRegions(items, slots) = s.taken
                /\ AnchorState(items, s, slots.front + slots.back + slots.middle)
<1>1. PICK n \in Nat : n = Len(items)
  BY LenProperties
<1>2. PICK a \in Nat, b \in Nat, c \in Nat : a = slots.front /\ b = slots.back /\ c = slots.middle
  OBVIOUS
<1>3. PICK none : none = [taken |-> {}, seen |-> {}]
  OBVIOUS
<1>4. IsState(none) /\ AnchorState(items, none, 0)
  BY <1>3, FS_EmptySet DEF IsState, AnchorState, Positions
<1>5. PICK front : front = FrontRegion(items, slots)
  OBVIOUS
<1>6. IsState(front) /\ AnchorState(items, front, a)
  <2>1. PICK to \in Int : to = AtMost(2 * a, n \div 3) /\ to <= n
    BY DEF AtMost
  <2>2. front = selectRegion(items, none, 0, to, a, FALSE)
    BY <1>1, <1>2, <1>3, <1>5, <2>1, Zenon DEF FrontRegion
  <2>3. PICK zero \in Nat : zero = 0
    OBVIOUS
  <2>f. PICK from \in Nat : from = 0
    OBVIOUS
  <2>n. PICK no \in BOOLEAN : no = FALSE
    OBVIOUS
  <2>4. front = selectRegion(items, none, from, to, a, no) /\ AnchorState(items, none, zero)
    BY <1>4, <2>2, <2>3, <2>f, <2>n, Zenon
  <2>5. IsState(front) /\ AnchorState(items, front, zero + a)
    BY <1>1, <1>4, <2>1, <2>4, RegionAnchors
  <2>6. zero + a = a
    BY <2>3
  <2> QED
    BY <2>5, <2>6
<1>7. PICK back : back = BackRegion(items, front, slots)
  OBVIOUS
<1>8. IsState(back) /\ AnchorState(items, back, a + b)
  <2>1. PICK from \in Nat : from = AtLeast(n - 2 * b, (2 * n) \div 3)
    <3>1. PICK x \in Nat, y \in Int : x = (2 * n) \div 3 /\ y = n - 2 * b
      OBVIOUS
    <3>2. AtLeast(y, x) \in Nat
      BY DEF AtLeast
    <3> QED
      BY <3>1, <3>2
  <2>2. back = selectRegion(items, front, from, n, b, FALSE)
    BY <1>1, <1>2, <1>7, <2>1, Zenon DEF BackRegion
  <2>3. PICK no \in BOOLEAN : no = FALSE
    OBVIOUS
  <2>4. back = selectRegion(items, front, from, n, b, no)
    BY <2>2, <2>3, Zenon
  <2> QED
    BY <1>1, <1>6, <2>4, RegionAnchors, SMTT(30)
<1>9. PICK s : s = MiddleRegion(items, front, back, slots)
  OBVIOUS
<1>10. AnchorState(items, s, (a + b) + c)
  <2>1. PICK from \in Nat : from = Cardinality(front.taken)
    BY <1>6, FS_CardinalityType DEF AnchorState
  <2>2. PICK to \in Int : to = n - Cardinality(back.taken \ front.taken) /\ to <= n
    <3>1. Cardinality(back.taken \ front.taken) \in Nat
      BY <1>8, FS_Difference, FS_CardinalityType DEF AnchorState
    <3> QED
      BY <3>1
  <2>3. s = selectRegion(items, back, from, to, c, UseInformationDensity)
    BY <1>1, <1>2, <1>9, <2>1, <2>2, Zenon DEF MiddleRegion
  <2>4. UseInformationDensity \in BOOLEAN
    BY AnchorAssumption
  <2>5. a + b \in Nat
    OBVIOUS
  <2> QED
    BY <1>1, <1>8, <2>2, <2>3, <2>4, <2>5, RegionAnchors
<1>11. InRegions(items, slots) = s.taken
  BY <1>5, <1>7, <1>9, Zenon DEF InRegions
<1> QED
  BY <1>2, <1>10, <1>11

\* The slots are numbers, and, of a budget of two or more, as many as it says.
LEMMA SlotsFit ==
  ASSUME NEW budget \in Nat, NEW p \in Patterns, NEW query
  PROVE  LET slots == Slots(budget, AdjustWeightsForQuery(BaseWeights[p], query))
         IN /\ slots.front \in Nat /\ slots.middle \in Nat /\ slots.back \in Nat
            /\ budget >= 2 => slots.front + slots.back + slots.middle = budget
<1> DEFINE w == AdjustWeightsForQuery(BaseWeights[p], query)
<1>1. w.front \in 0 .. 80 /\ w.middle = 10 /\ w.back = 90 - w.front
  <2>1. PICK base : base = BaseWeights[p]
    OBVIOUS
  <2>2. PICK x \in {75, 15, 45, 50} : base = [front |-> x, middle |-> 10, back |-> 90 - x]
    BY <2>1 DEF BaseWeights, Patterns
  <2>3. w \in {base,
               [base EXCEPT !.front = AtLeast(10, base.front - 15), !.back = AtMost(80, base.back + 15)],
               [base EXCEPT !.front = AtMost(80, base.front + 15), !.back = AtLeast(10, base.back - 15)]}
    BY <2>1, Zenon DEF AdjustWeightsForQuery
  <2>4. PICK v : v = w
    OBVIOUS
  <2>5. CASE v = base
    BY <2>2, <2>4, <2>5
  <2>6. CASE v = [base EXCEPT !.front = AtLeast(10, base.front - 15), !.back = AtMost(80, base.back + 15)]
    BY <2>2, <2>4, <2>6 DEF AtLeast, AtMost
  <2>7. CASE v = [base EXCEPT !.front = AtMost(80, base.front + 15), !.back = AtLeast(10, base.back - 15)]
    BY <2>2, <2>4, <2>7 DEF AtLeast, AtMost
  <2> HIDE DEF w
  <2> QED
    BY <2>3, <2>4, <2>5, <2>6, <2>7
<1> HIDE DEF w
<1>2. PICK f \in 0 .. 80, r \in Nat : f = w.front /\ r = w.back /\ r = 90 - f
  BY <1>1
<1>3. PICK q \in Nat : q = (budget * f) \div 100 /\ (budget >= 1 => q < budget)
  <2>1. PICK x \in Nat : x = budget * f /\ x <= 80 * budget
    BY <1>2
  <2>2. x \div 100 \in Nat /\ (budget >= 1 => x \div 100 < budget)
    BY <2>1
  <2> QED
    BY <2>1, <2>2
<1>4. PICK u \in Nat : u = (budget * r) \div 100
  <2>1. PICK x \in Nat : x = budget * r
    BY <1>2
  <2> QED
    BY <2>1
<1>5. PICK front \in Nat, back \in Nat : front = AtLeast(1, q) /\ back = AtLeast(1, u)
  BY DEF AtLeast
<1>6. w.front + w.middle + w.back = 100
  BY <1>1
<1>7. Slots(budget, w) = [front |-> front, middle |-> AtLeast(0, budget - front - back),
                          back |-> AtLeast(1, AtMost(back, budget - front))]
  BY <1>2, <1>3, <1>4, <1>5, <1>6, Zenon DEF Slots
<1>8. PICK m \in Nat, b \in Nat : m = AtLeast(0, budget - front - back)
                                  /\ b = AtLeast(1, AtMost(back, budget - front))
  <2>1. AtLeast(0, budget - front - back) \in Nat
    BY DEF AtLeast
  <2>2. PICK x \in Int : x = AtMost(back, budget - front)
    BY DEF AtMost
  <2>3. AtLeast(1, x) \in Nat
    BY DEF AtLeast
  <2> QED
    BY <2>1, <2>2, <2>3
<1>9. budget >= 2 => front + b + m = budget
  BY <1>3, <1>5, <1>8 DEF AtLeast, AtMost
<1> QED
  BY <1>7, <1>8, <1>9 DEF w

\* Anchors are positions, as many as their budget, if that is at least two, and no
\* two of them are the same object when duplicates are left out.
LEMMA AnchorsAreFew ==
  ASSUME NEW rows \in Seq(Rows), NEW max \in Nat, max < Len(rows),
         NEW p \in Patterns, NEW query
  PROVE  LET anchors == SelectAnchors(rows, max, p, query)
             budget  == CalculateAnchorBudget(Len(rows), max)
         IN /\ anchors \subseteq Positions(rows) /\ IsFiniteSet(anchors)
            /\ budget >= 2 => Cardinality(anchors) <= budget
            /\ DedupAnchors => \A i, j \in anchors : i # j => At(rows, i) # At(rows, j)
<1>1. PICK n \in Nat : n = Len(rows)
  BY LenProperties
<1>2. PICK budget \in Nat : budget = CalculateAnchorBudget(Len(rows), max)
  <2>1. MinAnchorSlots \in Nat /\ MaxAnchorSlots \in Nat /\ AnchorBudgetPct \in Nat
    BY AnchorAssumption
  <2>2. PICK x \in Nat : x = (max * AnchorBudgetPct) \div 100
    <3>1. PICK y \in Nat : y = max * AnchorBudgetPct
      BY <2>1
    <3> QED
      BY <3>1
  <2>3. PICK y \in Nat : y = AtMost(n, AtMost(MaxAnchorSlots, AtLeast(MinAnchorSlots, x)))
    BY <2>1 DEF AtMost, AtLeast
  <2>4. CalculateAnchorBudget(n, max) \in {0, y}
    BY <2>2, <2>3, Zenon DEF CalculateAnchorBudget
  <2> QED
    BY <1>1, <2>3, <2>4
<1>3. PICK slots : slots = Slots(budget, AdjustWeightsForQuery(BaseWeights[p], query))
  OBVIOUS
<1>4. slots.front \in Nat /\ slots.middle \in Nat /\ slots.back \in Nat
      /\ (budget >= 2 => slots.front + slots.back + slots.middle = budget)
  BY <1>3, SlotsFit
<1>5. PICK s : InRegions(rows, slots) = s.taken
               /\ AnchorState(rows, s, slots.front + slots.back + slots.middle)
  BY <1>4, RegionsAnchors
<1>6. SelectAnchors(rows, max, p, query) \in {{}, s.taken}
  <2>1. ~ (Len(rows) <= max)
    BY <1>1
  <2> QED
    BY <1>2, <1>3, <1>5, <2>1, Zenon DEF SelectAnchors
<1>7. CASE SelectAnchors(rows, max, p, query) = {}
  BY <1>2, <1>7, FS_EmptySet
<1>8. CASE SelectAnchors(rows, max, p, query) = s.taken
  BY <1>2, <1>4, <1>5, <1>8 DEF AnchorState, At
<1> QED
  BY <1>6, <1>7, <1>8

-----------------------------------------------------------------------------
(* Documents *)

\* Documents are arrays of such items, or objects whose values are of a kind.
Documents ==
  \/ /\ doc[1] = "array" /\ doc = <<"array", Items>>
     /\ Items \in Seq(Given)
  \/ /\ doc[1] = "dict" /\ doc = <<"dict", Items>>
     /\ IsFiniteSet(DOMAIN Items) /\ DOMAIN Items \subseteq DOMAIN Text
     /\ \A f \in DOMAIN Items : IsInner(Items[f])

\* Who asks is one of the callers, and what is asked about is well-formed.
WellFormed == caller \in Callers /\ Documents

\* Every step leaves a document that is well-formed.
LEMMA WellFormedInvariant == Spec => []WellFormed
<1>1. Init => WellFormed
  <2> SUFFICES ASSUME Init PROVE WellFormed
    OBVIOUS
  <2>1. << >> \in Seq(Given)
    BY EmptySeq
  <2>2. CASE doc = <<"array", << >>>>
    BY <2>1, <2>2 DEF Init, WellFormed, Documents, Items
  <2>3. CASE doc = <<"dict", << >>>>
    <3>1. DOMAIN << >> = {}
      OBVIOUS
    <3>2. Items = << >> /\ doc = <<"dict", Items>> /\ doc[1] = "dict"
      BY <2>3 DEF Items
    <3> QED
      BY <3>1, <3>2, FS_EmptySet DEF Init, WellFormed, Documents
  <2> QED
    BY <2>2, <2>3 DEF Init
<1>2. WellFormed /\ [Next]_vars => WellFormed'
  <2> SUFFICES ASSUME WellFormed, [Next]_vars PROVE WellFormed'
    OBVIOUS
  <2>1. CASE Receive
    <3>1. PICK chunk \in Chunks : doc' = <<"array", Items \o chunk>>
      BY <2>1 DEF Receive
    <3>2. chunk \in Seq(Given)
      <4>1. chunk \in Seq({chunk[i] : i \in DOMAIN chunk})
        BY CrusherAssumption
      <4>2. {chunk[i] : i \in DOMAIN chunk} \subseteq Given
        BY DEF Given
      <4> DEFINE T == {chunk[i] : i \in DOMAIN chunk}
      <4> HIDE DEF T
      <4> QED
        BY <4>1, <4>2, SeqMonotonic DEF T
    <3>3. Items \in Seq(Given)
      BY <2>1 DEF Receive, WellFormed, Documents
    <3>4. Items \o chunk \in Seq(Given)
      BY <3>2, <3>3
    <3>5. Items' = Items \o chunk /\ doc'[1] = "array" /\ doc' = <<"array", Items'>>
      BY <3>1 DEF Items
    <3>6. caller' = caller
      BY <2>1 DEF Receive
    <3> QED
      BY <3>4, <3>5, <3>6 DEF WellFormed, Documents, Given
  <2>2. CASE ReceiveMember
    <3> DEFINE Row(m) == [f \in DOMAIN Items \union {m[1]} |-> IF f = m[1] THEN m[2] ELSE Items[f]]
    <3>1. PICK m \in Members : doc' = <<"dict", Row(m)>>
      BY <2>2 DEF ReceiveMember, Items
    <3>2. m[1] \in DOMAIN Text /\ IsInner(m[2])
      BY CrusherAssumption
    <3>3. IsFiniteSet(DOMAIN Items) /\ DOMAIN Items \subseteq DOMAIN Text
          /\ \A f \in DOMAIN Items : IsInner(Items[f])
      BY <2>2 DEF ReceiveMember, WellFormed, Documents
    <3>4. PICK row : row = Row(m)
      OBVIOUS
    <3>5. DOMAIN row = DOMAIN Items \union {m[1]}
      BY <3>4
    <3>6. IsFiniteSet(DOMAIN row) /\ DOMAIN row \subseteq DOMAIN Text
      BY <3>2, <3>3, <3>5, FS_AddElement
    <3>7. \A f \in DOMAIN row : IsInner(row[f])
      BY <3>2, <3>3, <3>4
    <3>8. Items' = row /\ doc'[1] = "dict" /\ doc' = <<"dict", Items'>>
      BY <3>1, <3>4 DEF Items
    <3>9. caller' = caller
      BY <2>2 DEF ReceiveMember
    <3> QED
      BY <3>6, <3>7, <3>8, <3>9 DEF WellFormed, Documents
  <2>3. ASSUME UNCHANGED <<caller, doc>> PROVE WellFormed'
    BY <2>3 DEF WellFormed, Documents, Items, Given
  <2>4. ASSUME NEW outcomes, Finish(outcomes) PROVE WellFormed'
    BY <2>3, <2>4 DEF Finish
  <2>5. CASE PassSmall
    BY <2>4, <2>5 DEF PassSmall
  <2>6. CASE CrushDicts
    BY <2>4, <2>6 DEF CrushDicts
  <2>7. CASE CrushStrings
    BY <2>4, <2>7 DEF CrushStrings
  <2>8. CASE CrushNumbers
    BY <2>4, <2>8 DEF CrushNumbers
  <2>9. CASE CrushMixed
    BY <2>4, <2>9 DEF CrushMixed
  <2>10. CASE CrushKeys
    BY <2>4, <2>10 DEF CrushKeys
  <2>11. CASE UNCHANGED vars
    BY <2>3, <2>11 DEF vars
  <2> QED
    BY <2>1, <2>2, <2>5, <2>6, <2>7, <2>8, <2>9, <2>10, <2>11 DEF Next
<1> QED
  BY <1>1, <1>2, PTL DEF Spec

\* The names of fields have texts.
LEMMA FieldsAreTexts == FieldNames \subseteq DOMAIN Text
<1>1. PICK m \in Nat : DOMAIN FieldOrder = 1 .. m /\ Len(FieldOrder) = m
  BY AnalyzerAssumption
<1>2. \A n \in 1 .. m : FieldOrder[n] \in DOMAIN Text
  BY <1>1, AnalyzerAssumption, ElementOfSeq
<1> QED
  BY <1>1, <1>2 DEF FieldNames

\* The fields in a set are listed, each of them and nothing else.
LEMMA FieldsAreListed ==
  ASSUME NEW S
  PROVE  /\ Len(FieldsIn(S)) \in Nat
         /\ FieldsIn(S) \in Seq({f \in FieldNames : f \in S})
         /\ \A f \in FieldNames : f \in S => \E k \in 1 .. Len(FieldsIn(S)) : FieldsIn(S)[k] = f
<1> DEFINE P == {n \in DOMAIN FieldOrder : FieldOrder[n] \in S}
           T == {f \in FieldNames : f \in S}
<1>1. PICK m \in Nat : DOMAIN FieldOrder = 1 .. m
  BY AnalyzerAssumption
<1>2. IsFiniteSet(P) /\ P \subseteq Int
  <2>1. IsFiniteSet(1 .. m)
    BY FS_Interval
  <2> QED
    BY <1>1, <2>1, FS_Subset
<1>3. \A n \in P : FieldOrder[n] \in T
  BY DEF FieldNames
<1>4. FieldsIn(S) = Picked(FieldOrder, P)
  BY DEF FieldsIn
<1>5. \A f \in T : \E n \in P : FieldOrder[n] = f
  BY DEF FieldNames
<1> HIDE DEF P, T
<1>6. PICK n \in Nat : n = Cardinality(P)
  BY <1>2, FS_CardinalityType
<1>7. /\ FieldsIn(S) \in Seq(T) /\ Len(FieldsIn(S)) = n
      /\ \A k \in 1 .. n : FieldsIn(S)[k] = FieldOrder[InOrder(P)[k]]
  <2>1. /\ Picked(FieldOrder, P) \in Seq(T) /\ Len(Picked(FieldOrder, P)) = Cardinality(P)
        /\ \A k \in 1 .. Cardinality(P) : Picked(FieldOrder, P)[k] = FieldOrder[InOrder(P)[k]]
    BY <1>2, <1>3, PickedElements
  <2> QED
    BY <1>4, <1>6, <2>1
<1>8. \A i \in P : \E k \in 1 .. n : InOrder(P)[k] = i
  BY <1>2, <1>6, InOrderLists
<1>9. ASSUME NEW f \in FieldNames, f \in S PROVE \E k \in 1 .. n : FieldsIn(S)[k] = f
  <2>1. PICK i \in P : FieldOrder[i] = f
    BY <1>5, <1>9 DEF T
  <2>2. PICK k \in 1 .. n : InOrder(P)[k] = i
    BY <1>8
  <2> QED
    BY <1>7, <2>1, <2>2
<1> QED
  BY <1>6, <1>7, <1>9 DEF T

\* What a value is, from the word in front of it.
LEMMA Kinds ==
  ASSUME NEW v
  PROVE  /\ IsLeaf(v) => \/ v[1] \in {"str", "list"} /\ v[2] \in DOMAIN Text
                         \/ v[1] \in {"number", "bool", "null"}
         /\ IsLeaf(v) /\ v[1] = "number" => v[2] \in Int
         /\ IsObject(v, IsLeaf) \/ IsObject(v, IsInner) => v[1] = "dict"
  BY DEF IsLeaf, Leaf, IsObject, Null

\* An object is written with its tag.
LEMMA ObjectsAreDicts ==
  ASSUME NEW v, IsObject(v, IsInner) \/ IsObject(v, IsLeaf)
  PROVE  v = <<"dict", v[2]>>
<1>1. v = <<"dict", [f \in DOMAIN v[2] |-> v[2][f]]>>
  BY DEF IsObject
<1>2. PICK w : w = [f \in DOMAIN v[2] |-> v[2][f]]
  OBVIOUS
<1>3. v = <<"dict", w>>
  BY <1>1, <1>2
<1>4. v[2] = w
  BY <1>3
<1> QED
  BY <1>3, <1>4

\* The text of a value has finitely many word pairs.
LEMMA PrintsAreFinite == \A v : IsValue(v) => IsFiniteSet(PrintOf(v))
<1> SUFFICES ASSUME NEW v, IsValue(v) PROVE IsFiniteSet(PrintOf(v))
  OBVIOUS
<1>0. \A s \in DOMAIN Text : IsFiniteSet(Text[s].print)
  BY CrusherAssumption
<1>1. CASE v[1] \in {"str", "list"} /\ v[2] \in DOMAIN Text
  <2>1. PrintOf(v) = Text[v[2]].print
    BY <1>1 DEF PrintOf
  <2> QED
    BY <1>0, <1>1, <2>1
<1>2. CASE v[1] \in {"number", "bool", "null"}
  <2>1. PICK x : PrintOf(v) = {x} \/ PrintOf(v) = {}
    BY <1>2 DEF PrintOf
  <2>2. IsFiniteSet({}) /\ IsFiniteSet({x})
    BY FS_EmptySet, FS_Singleton
  <2> QED
    BY <2>1, <2>2
<1>3. CASE v[1] = "dict" /\ IsObject(v, IsInner)
  <2> DEFINE row == v[2]
             Own(f) == IF row[f][1] \in {"str", "list"} THEN Text[row[f][2]].print
                       ELSE IF row[f][1] = "number" THEN {row[f][2]} ELSE {}
             part == [f \in DOMAIN row |-> Text[f].print \union Own(f)]
  <2>1. IsFiniteSet(DOMAIN row) /\ DOMAIN row \subseteq DOMAIN Text
        /\ \A f \in DOMAIN row : IsInner(row[f])
    BY <1>3, FieldsAreTexts DEF IsObject
  <2>2. ASSUME NEW f \in DOMAIN row PROVE IsFiniteSet(Own(f))
    <3>1. PICK w : w = row[f] /\ IsInner(w)
      BY <2>1
    <3>2. w[1] \in {"str", "list"} => w[2] \in DOMAIN Text
      BY <3>1, Kinds DEF IsInner
    <3>3. CASE w[1] \in {"str", "list"}
      BY <1>0, <3>1, <3>2, <3>3
    <3>4. CASE w[1] \notin {"str", "list"}
      <4>1. PICK x : Own(f) = {x} \/ Own(f) = {}
        BY <3>1, <3>4
      <4>2. IsFiniteSet({}) /\ IsFiniteSet({x})
        BY FS_EmptySet, FS_Singleton
      <4> HIDE DEF Own
      <4> QED
        BY <4>1, <4>2
    <3> QED
      BY <3>3, <3>4
  <2>3. \A f \in DOMAIN row : IsFiniteSet(part[f])
    <3> SUFFICES ASSUME NEW f \in DOMAIN row PROVE IsFiniteSet(Text[f].print \union Own(f))
      OBVIOUS
    <3>1. IsFiniteSet(Text[f].print)
      BY <1>0, <2>1
    <3> HIDE DEF Own
    <3> QED
      BY <2>2, <3>1, FS_Union
  <2>4. PrintOf(v) = UNION {part[f] : f \in DOMAIN row}
    <3>1. PrintOf(v) = UNION {Text[f].print \union Own(f) : f \in DOMAIN row}
      BY <1>3 DEF PrintOf
    <3> HIDE DEF Own
    <3> QED
      BY <3>1
  <2> HIDE DEF part, row
  <2>5. IsFiniteSet({part[f] : f \in DOMAIN row})
    BY <2>1, ImageFinite
  <2> QED
    BY <2>3, <2>4, <2>5, FS_UNION
<1> QED
  BY <1>1, <1>2, <1>3, Kinds DEF IsValue

\* How many of some values are kept is a number, and with many values not fewer
\* than the least.
LEMMA TotalsAreNumbers ==
  ASSUME NEW n \in Nat, NEW items, Len(items) = n, DOMAIN items = 1 .. n,
         \A i \in 1 .. n : IsValue(items[i]), NEW bias \in Nat, NEW k \in Totals(items, bias)
  PROVE  k \in Nat /\ (n <= FewItems \/ k >= AtMost(MinItemsKept, MaxItemsAfterCrush))
<1> DEFINE Sized(i) == [hash |-> PrintOf(items[i]), bigrams |-> PrintOf(items[i])]
           f == [i \in DOMAIN items |-> Sized(i)]
           T == {Sized(i) : i \in 1 .. n}
<1>1. f \in [1 .. n -> T]
  OBVIOUS
<1>2. \A i \in 1 .. n : f[i].bigrams = PrintOf(items[i])
  OBVIOUS
<1>3. k \in ComputeOptimalK(f, bias, MinItemsKept, MaxItemsAfterCrush)
  BY Zenon DEF Totals
<1> HIDE DEF f, T
<1>4. Len(f) = n /\ DOMAIN f = 1 .. n
  BY <1>1, LazySeq
<1>5. Sizable(f)
  BY <1>2, <1>4, PrintsAreFinite DEF Sizable
<1>6. MinItemsKept \in Nat /\ MaxItemsAfterCrush \in Nat
  BY CrusherAssumption
<1> QED
  BY <1>3, <1>4, <1>5, <1>6, OptimalIsNumber

\* An array of values as a sequence, and what is left of it without the words in
\* front.
LEMMA ItemsAreValues ==
  ASSUME NEW items \in Seq(Given)
  PROVE  /\ Len(items) \in Nat /\ DOMAIN items = 1 .. Len(items)
         /\ \A i \in 1 .. Len(items) : IsValue(items[i])
         /\ Len(Bare(items)) = Len(items) /\ DOMAIN Bare(items) = 1 .. Len(items)
         /\ \A i \in 1 .. Len(items) : Bare(items)[i] = items[i][2]
<1>1. PICK n \in Nat : items \in [1 .. n -> Given] /\ Len(items) = n
  BY SeqDef
<1>2. \A g \in Given : IsValue(g)
  BY CrusherAssumption DEF Given
<1> DEFINE f == [i \in DOMAIN items |-> items[i][2]]
           T == {g[2] : g \in Given}
<1>3. f \in [1 .. n -> T] /\ \A i \in 1 .. n : f[i] = items[i][2]
  BY <1>1
<1>4. Bare(items) = << >> \o f
  BY DEF Bare
<1> HIDE DEF f, T
<1>5. Bare(items) = f /\ Len(f) = n
  BY <1>3, <1>4, LazySeq
<1> QED
  BY <1>1, <1>2, <1>3, <1>5

\* What may become of rows: all of them, a table, or a plan for more rows than may
\* be kept.
LEMMA RowsOutcomes ==
  ASSUME NEW n \in Nat, NEW rows, Len(rows) = n, NEW table, NEW an, NEW c,
         NEW sizes, sizes \subseteq Nat, NEW r \in CrushRows(rows, table, an, c, sizes)
  PROVE  \E k \in sizes :
           \/ /\ r = Kept("at_limit", Positions(rows), k, Positions(rows))
              /\ n <= k
           \/ r = [Kept("lossless", Positions(rows), k, Positions(rows)) EXCEPT !.table = FormatCompaction(table)]
           \/ /\ k < n
              /\ \E S \in CreatePlan(rows, an, k, c) : r = Kept(an.strategy, S, k, MustOf(rows, an, c))
<1> DEFINE all == Positions(rows)
           Small(k) == Kept("at_limit", all, k, all)
           Table(k) == [Kept("lossless", all, k, all) EXCEPT !.table = FormatCompaction(table)]
           Plans(k) == {Kept(an.strategy, S, k, MustOf(rows, an, c)) : S \in CreatePlan(rows, an, k, c)}
           Saves == Len(rows) >= MinItemsToAnalyze /\ SavesEnough(rows, table, LosslessMinSavingsPct)
           Of(k) == IF Len(rows) <= k THEN {Small(k)} ELSE IF Saves THEN {Table(k)} ELSE Plans(k)
<1>1. CrushRows(rows, table, an, c, sizes) = UNION {Of(k) : k \in sizes}
  BY Zenon DEF CrushRows
<1> HIDE DEF all, Small, Table, Plans, Saves
<1>2. PICK k \in sizes : r \in Of(k)
  <2> HIDE DEF Of
  <2> QED
    BY <1>1
<1>3. k \in Nat
  OBVIOUS
<1>4. (r = Small(k) /\ n <= k) \/ r = Table(k) \/ (r \in Plans(k) /\ k < n)
  BY <1>2, <1>3
<1>5. (r = Small(k) /\ n <= k) \/ r = Table(k)
      \/ (k < n /\ \E S \in CreatePlan(rows, an, k, c) : r = Kept(an.strategy, S, k, MustOf(rows, an, c)))
  BY <1>4, Zenon DEF Plans
<1> QED
  BY <1>5, Zenon DEF Small, Table, all

-----------------------------------------------------------------------------
(* Budgets *)

\* The strategies with priorities.
Prioritised == {"smart_sample", "time_series", "cluster"}

\* What WithinBudget says of an outcome.
Fits(r) ==
  r.how # "mixed" =>
    \/ Cardinality(r.kept) <= r.size
    \/ r.how \in Prioritised /\ Cardinality(r.kept) <= Cardinality(r.must)
    \/ r.how \notin Prioritised /\ Cardinality(r.kept) <= r.size + Cardinality(r.must)

\* An outcome without priorities fits when it exceeds its budget by what must be
\* kept at most.
LEMMA FitsWithMust ==
  ASSUME NEW how, how \notin Prioritised, NEW kept, NEW size, NEW must,
         Cardinality(kept) <= size + Cardinality(must)
  PROVE  Kept(how, kept, size, must).how = how /\ Fits(Kept(how, kept, size, must))
  BY DEF Fits, Kept

\* A subset of the positions of an array is finite.
LEMMA SomePositions ==
  ASSUME NEW s, Len(s) \in Nat, NEW S, S \subseteq Positions(s)
  PROVE  IsFiniteSet(S) /\ Cardinality(S) \in Nat /\ Cardinality(S) <= Len(s)
  BY PositionsFinite, FS_Subset, FS_CardinalityType

\* A fill from the ends and what must be kept is no larger than both together.
LEMMA FillFits ==
  ASSUME NEW n \in Nat, NEW k \in Nat, NEW extra \in Nat, NEW first \in Nat, NEW last \in Nat,
         first + last <= k, NEW S, IsFiniteSet(S), NEW must \in Nat, Cardinality(S) <= must,
         extra <= must, NEW label
  PROVE  LET R == StrideFill(Ends(n, first, last) \union S, n, k, k + extra, label)
         IN IsFiniteSet(R) /\ Cardinality(R) <= k + must /\ S \subseteq R /\ R \subseteq S \union (0 .. n - 1)
<1>1. PICK E : E = Ends(n, first, last) /\ IsFiniteSet(E) /\ E \subseteq 0 .. n - 1
                 /\ Cardinality(E) <= first + last
  BY EndsBound
<1>2. PICK A : A = E \union S
  OBVIOUS
<1>3. IsFiniteSet(A) /\ Cardinality(A) <= Cardinality(E) + Cardinality(S)
      /\ Cardinality(E) \in Nat /\ Cardinality(S) \in Nat /\ Cardinality(A) \in Nat
  BY <1>1, <1>2, UnionBound
<1>4. PICK R : R = StrideFill(A, n, k, k + extra, label)
  OBVIOUS
<1>5. Filled(R, A, 0 .. n - 1, k + extra)
  <2>1. PICK cap \in Int : cap = k + extra
    OBVIOUS
  <2> QED
    BY <1>3, <1>4, <2>1, StrideFillFills
<1>6. Cardinality(R) <= k + must
  BY <1>1, <1>3, <1>5, FS_CardinalityType DEF Filled
<1>7. S \subseteq R /\ R \subseteq S \union (0 .. n - 1)
  BY <1>1, <1>2, <1>5 DEF Filled
<1> QED
  BY <1>1, <1>2, <1>4, <1>5, <1>6, <1>7 DEF Filled

\* Texts keep their budget and one place more for each error and each odd one, and
\* all errors.
LEMMA StringsFit ==
  ASSUME NEW items \in Seq(Given), NEW c, c.bias \in Nat, NEW r \in CrushStringArray(items, c)
  PROVE  /\ r.how \in {"passthrough", "strings"} /\ Fits(r)
         /\ \A i \in Positions(items) : Text[At(Bare(items), i)].alarm => i \in r.kept
<1> DEFINE n == Len(items)
           texts == Bare(items)
           lengths == << >> \o [i \in 1 .. n |-> Text[texts[i]].length]
           errors == {i \in Positions(items) : Text[At(texts, i)].alarm}
           odd == {i \in Positions(items) : Far(At(lengths, i), lengths)}
           must == ({"error"} \X errors) \union ({"odd"} \X odd)
           label == [i \in Positions(items) |-> At(texts, i)]
           fill(k) == StrideFill(Ends(n, ComputeKSplit(k).first, ComputeKSplit(k).last)
                                   \union errors \union odd, n, k,
                                 k + Cardinality(errors) + Cardinality(odd), label)
           pass == Kept("passthrough", Positions(items), n, {})
           Strings(k) == Kept("strings", fill(k), k, must)
<1>1. n \in Nat /\ DOMAIN items = 1 .. n /\ \A i \in 1 .. n : IsValue(items[i])
  BY ItemsAreValues
<1>2. CrushStringArray(items, c)
        = IF n <= FewItems THEN {pass} ELSE {Strings(k) : k \in Totals(items, c.bias)}
  BY Zenon DEF CrushStringArray
<1>e. errors \subseteq Positions(items) /\ odd \subseteq Positions(items)
  OBVIOUS
<1>x. ASSUME errors \subseteq r.kept
      PROVE  \A i \in Positions(items) : Text[At(Bare(items), i)].alarm => i \in r.kept
  BY <1>x
<1> HIDE DEF errors, odd, label
<1>3. PICK e \in Nat, o \in Nat : e = Cardinality(errors) /\ o = Cardinality(odd)
  BY <1>1, <1>e, SomePositions
<1>4. IsFiniteSet(errors \union odd) /\ Cardinality(errors \union odd) <= e + o
  BY <1>1, <1>3, <1>e, SomePositions, UnionBound
<1>5. Cardinality(must) = e + o
  <2> DEFINE A == {"error"} \X errors
             B == {"odd"} \X odd
  <2>1. IsFiniteSet({"error"}) /\ Cardinality({"error"}) = 1
        /\ IsFiniteSet({"odd"}) /\ Cardinality({"odd"}) = 1
    BY FS_Singleton
  <2>2. IsFiniteSet(errors) /\ IsFiniteSet(odd)
    BY <1>1, <1>e, SomePositions
  <2>3. IsFiniteSet(A) /\ Cardinality(A) = 1 * e
    BY <1>3, <2>1, <2>2, FS_Product
  <2>4. IsFiniteSet(B) /\ Cardinality(B) = 1 * o
    BY <1>3, <2>1, <2>2, FS_Product
  <2>5. A \intersect B = {}
    OBVIOUS
  <2> HIDE DEF A, B
  <2>6. Cardinality(A \union B) = Cardinality(A) + Cardinality(B) - Cardinality(A \intersect B)
    BY <2>3, <2>4, FS_Union
  <2>7. Cardinality(A \intersect B) = 0
    BY <2>5, FS_EmptySet
  <2> QED
    BY <2>3, <2>4, <2>6, <2>7 DEF A, B
<1>6. CASE r = pass
  <2>1. Cardinality(Positions(items)) = n
    BY <1>1, PositionsFinite
  <2>2. r.kept = Positions(items) /\ r.size = n /\ r.how = "passthrough"
    BY <1>6 DEF Kept
  <2> QED
    BY <1>1, <1>e, <1>x, <2>1, <2>2 DEF Fits
<1>7. CASE \E k \in Totals(items, c.bias) : r = Strings(k)
  <2>1. PICK k \in Totals(items, c.bias) : r = Strings(k)
    BY <1>7
  <2>2. k \in Nat
    BY <1>1, TotalsAreNumbers
  <2>3. PICK first \in Nat, last \in Nat :
          first = ComputeKSplit(k).first /\ last = ComputeKSplit(k).last /\ first + last <= k
    BY <2>2, SplitFits
  <2>s. PICK S : S = errors \union odd
    OBVIOUS
  <2>4. PICK m \in Nat : m = e + o
    OBVIOUS
  <2>5. fill(k) = StrideFill(Ends(n, first, last) \union S, n, k, k + m, label)
    <3>1. k + m = k + Cardinality(errors) + Cardinality(odd)
      BY <1>3, <2>2, <2>4
    <3>2. Ends(n, first, last) \union S = Ends(n, first, last) \union errors \union odd
      BY <2>s
    <3> QED
      BY <2>3, <3>1, <3>2
  <2>6. Cardinality(fill(k)) <= k + m /\ errors \subseteq fill(k)
    <3>1. IsFiniteSet(S) /\ Cardinality(S) <= m /\ m <= m
      BY <1>4, <2>s, <2>4
    <3>2. LET R == StrideFill(Ends(n, first, last) \union S, n, k, k + m, label)
          IN Cardinality(R) <= k + m /\ S \subseteq R
      <4> HIDE DEF n
      <4> QED
        BY <1>1, <2>2, <2>3, <3>1, FillFits
    <3> HIDE DEF fill
    <3> QED
      BY <2>s, <2>5, <3>2
  <2>7. Cardinality(fill(k)) <= k + Cardinality(must)
    BY <1>5, <2>4, <2>6
  <2> HIDE DEF fill, must
  <2>8. r.kept = fill(k)
    BY <2>1 DEF Kept
  <2>9. \A i \in Positions(items) : Text[At(Bare(items), i)].alarm => i \in r.kept
    BY <1>x, <2>6, <2>8
  <2> QED
    BY <2>1, <2>7, <2>9, FitsWithMust DEF Prioritised
<1> QED
  BY <1>2, <1>6, <1>7

\* As many positions at most have equal content as are chosen.
LEMMA SameContentIsFew ==
  ASSUME NEW items, Len(items) \in Nat, NEW chosen, IsFiniteSet(chosen), chosen \subseteq Int
  PROVE  Cardinality(SameContent(items, chosen)) <= Cardinality(chosen)
<1> DEFINE S == SameContent(items, chosen)
           Of(i) == {j \in chosen : At(items, j) = At(items, i)}
           Before(i) == {j \in Positions(items) : j < i /\ At(items, j) = At(items, i)}
           f == [i \in S |-> CHOOSE x \in Of(i) : Cardinality({y \in Of(i) : y < x}) = Cardinality(Before(i))]
<1>0. IsFiniteSet(Positions(items)) /\ Positions(items) \subseteq Int
  BY PositionsFinite
<1>1. ASSUME NEW i \in S
      PROVE  f[i] \in Of(i) /\ Cardinality({y \in Of(i) : y < f[i]}) = Cardinality(Before(i))
  <2>1. PICK T : T = Of(i) /\ IsFiniteSet(T) /\ T \subseteq Int
    BY FS_Subset
  <2>2. PICK B : B = Before(i) /\ IsFiniteSet(B)
    BY <1>0, FS_Subset
  <2>3. Cardinality(B) < Cardinality(T)
    BY <2>1, <2>2 DEF SameContent
  <2>n. Cardinality(B) \in Nat /\ Cardinality(T) \in Nat
    BY <2>1, <2>2, FS_CardinalityType
  <2>4. PICK q \in 0 .. Cardinality(T) - 1 : q = Cardinality(B)
    BY <2>n, <2>3
  <2>5. \E x \in T : Cardinality({y \in T : y < x}) = q
    BY <2>1, RankExists
  <2>6. f[i] = CHOOSE x \in T : Cardinality({y \in T : y < x}) = q
    BY <2>1, <2>2, <2>4
  <2>7. f[i] \in T /\ Cardinality({y \in T : y < f[i]}) = q
    BY <2>5, <2>6
  <2> HIDE DEF Of, Before
  <2> QED
    BY <2>1, <2>2, <2>4, <2>7
<1>2. f \in [S -> chosen]
  <2>1. \A i \in S : f[i] \in chosen
    BY <1>1
  <2> QED
    BY <2>1
<1>3. ASSUME NEW i \in S, NEW j \in S, f[i] = f[j] PROVE i = j
  <2>1. PICK v : v = At(items, i) /\ v = At(items, j)
    BY <1>1, <1>3
  <2>2. Of(i) = Of(j)
    BY <2>1
  <2>3. Cardinality(Before(i)) = Cardinality(Before(j))
    BY <1>1, <1>3, <2>2
  <2> DEFINE Q == {q \in Positions(items) : At(items, q) = v}
  <2>4. IsFiniteSet(Q) /\ Q \subseteq Int /\ i \in Q /\ j \in Q
    <3>1. i \in Positions(items) /\ j \in Positions(items)
      BY DEF SameContent
    <3> QED
      BY <1>0, <2>1, <3>1, FS_Subset
  <2>5. Before(i) = {z \in Q : z < i} /\ Before(j) = {z \in Q : z < j}
    BY <2>1
  <2> HIDE DEF Q, Before
  <2>n. Cardinality(Before(i)) \in Nat
    <3>1. {z \in Q : z < i} \subseteq Q
      OBVIOUS
    <3> QED
      BY <2>4, <2>5, <3>1, FS_Subset, FS_CardinalityType
  <2>6. ASSUME i < j PROVE FALSE
    <3>1. Cardinality({z \in Q : z < i}) < Cardinality({z \in Q : z < j})
      BY <2>4, <2>6, RankGrows
    <3> QED
      BY <2>3, <2>5, <2>n, <3>1
  <2>7. ASSUME j < i PROVE FALSE
    <3>1. Cardinality({z \in Q : z < j}) < Cardinality({z \in Q : z < i})
      BY <2>4, <2>7, RankGrows
    <3> QED
      BY <2>3, <2>5, <2>n, <3>1
  <2> QED
    BY <2>4, <2>6, <2>7
<1>4. f \in Injection(S, chosen)
  <2> HIDE DEF f, S
  <2> QED
    BY <1>2, <1>3 DEF Injection, IsInjective
<1> HIDE DEF f
<1> QED
  BY <1>4, FS_Injection

\* Numbers keep their budget and what is odd or a change.
LEMMA NumbersFit ==
  ASSUME NEW items \in Seq(Given), NEW c, c.bias \in Nat, NEW r \in crushNumberArrayIndices(items, c)
  PROVE  r.how \in {"passthrough", "numbers"} /\ Fits(r)
<1> DEFINE n == Len(items)
           nums == Bare(items)
           outliers == {i \in Positions(items) : Far(At(nums, i), nums)}
           changes == IF PreserveChangePoints /\ n > 2 * ChangeWindow
                      THEN Jumps(nums, ChangeWindow) ELSE {}
           label == [i \in Positions(items) |-> i]
           chosen(k) == StrideFill(Ends(n, ComputeKSplit(k).first, ComputeKSplit(k).last)
                                     \union outliers \union changes, n, k,
                                   k + Cardinality(outliers), label)
           pass == Kept("passthrough", Positions(items), n, {})
           Numbers(k) == Kept("numbers", SameContent(items, NumbersToKeep(items, k).chosen), k,
                              NumbersToKeep(items, k).must)
<1>1. n \in Nat /\ DOMAIN items = 1 .. n /\ Len(nums) = n /\ \A i \in 1 .. n : IsValue(items[i])
  BY ItemsAreValues
<1>2. crushNumberArrayIndices(items, c)
        = IF n <= FewItems THEN {pass} ELSE {Numbers(k) : k \in Totals(items, c.bias)}
  BY Zenon DEF crushNumberArrayIndices
<1>o. outliers \subseteq Positions(items)
  OBVIOUS
<1>c. changes \subseteq Positions(items)
  <2>1. PICK w \in Nat, m \in Nat : w = ChangeWindow /\ m = n
    BY <1>1, AnalyzerAssumption
  <2>2. Jumps(nums, w) \subseteq w .. m - w - 1
    BY <1>1, <2>1 DEF Jumps
  <2>3. w .. m - w - 1 \subseteq Positions(items)
    BY <2>1 DEF Positions
  <2>4. changes \in {Jumps(nums, w), {}}
    BY <2>1, Zenon
  <2> QED
    BY <2>2, <2>3, <2>4
<1>3. ASSUME NEW k
      PROVE  NumbersToKeep(items, k) = [must |-> outliers \union changes, chosen |-> chosen(k)]
  BY Zenon DEF NumbersToKeep
<1> HIDE DEF outliers, changes, label
<1>4. PICK S : S = outliers \union changes
  OBVIOUS
<1>5. IsFiniteSet(S) /\ S \subseteq Positions(items)
  BY <1>1, <1>o, <1>c, <1>4, SomePositions
<1>6. PICK e \in Nat : e = Cardinality(outliers)
  BY <1>1, <1>o, SomePositions
<1>7. PICK a \in Nat : a = Cardinality(S)
  BY <1>5, FS_CardinalityType
<1>8. e <= a
  BY <1>4, <1>5, <1>6, <1>7, FS_Subset
<1>9. CASE r = pass
  <2>1. Cardinality(Positions(items)) = n
    BY <1>1, PositionsFinite
  <2>2. r.kept = Positions(items) /\ r.size = n /\ r.how = "passthrough"
    BY <1>9 DEF Kept
  <2> QED
    BY <1>1, <2>1, <2>2 DEF Fits
<1>10. CASE \E k \in Totals(items, c.bias) : r = Numbers(k)
  <2>1. PICK k \in Totals(items, c.bias) : r = Numbers(k)
    BY <1>10
  <2>2. k \in Nat
    BY <1>1, TotalsAreNumbers
  <2>3. PICK first \in Nat, last \in Nat :
          first = ComputeKSplit(k).first /\ last = ComputeKSplit(k).last /\ first + last <= k
    BY <2>2, SplitFits
  <2>f. LET R == StrideFill(Ends(n, first, last) \union S, n, k, k + e, label)
        IN IsFiniteSet(R) /\ Cardinality(R) <= k + a /\ R \subseteq S \union (0 .. n - 1)
    <3>1. IsFiniteSet(S) /\ Cardinality(S) <= a /\ e <= a
      BY <1>5, <1>7, <1>8
    <3> HIDE DEF n
    <3> QED
      BY <1>1, <2>2, <2>3, <3>1, FillFits
  <2>4. PICK R : R = StrideFill(Ends(n, first, last) \union S, n, k, k + e, label)
    OBVIOUS
  <2>5. IsFiniteSet(R) /\ Cardinality(R) <= k + a /\ R \subseteq S \union (0 .. n - 1)
    BY <2>4, <2>f
  <2>6. chosen(k) = R
    <3>1. Ends(n, first, last) \union S = Ends(n, first, last) \union outliers \union changes
      BY <1>4
    <3> QED
      BY <1>6, <2>3, <2>4, <3>1
  <2>7. r = Kept("numbers", SameContent(items, R), k, S)
    <3> HIDE DEF chosen
    <3>1. NumbersToKeep(items, k).chosen = R /\ NumbersToKeep(items, k).must = S
      BY <1>3, <1>4, <2>6
    <3> QED
      BY <2>1, <3>1
  <2>8. Cardinality(SameContent(items, R)) <= Cardinality(R)
    <3>1. R \subseteq Int
      BY <1>1, <1>5, <2>5 DEF Positions
    <3> QED
      BY <1>1, <2>5, <3>1, SameContentIsFew
  <2>9. Cardinality(SameContent(items, R)) <= k + Cardinality(S)
    <3>1. IsFiniteSet(SameContent(items, R))
      <4>1. SameContent(items, R) \subseteq Positions(items)
        BY DEF SameContent
      <4> QED
        BY <1>1, <4>1, SomePositions
    <3>2. Cardinality(SameContent(items, R)) \in Nat /\ Cardinality(R) \in Nat
      BY <2>5, <3>1, FS_CardinalityType
    <3> QED
      BY <1>7, <2>2, <2>5, <2>8, <3>2
  <2> QED
    BY <2>7, <2>9, FitsWithMust DEF Prioritised
<1> QED
  BY <1>2, <1>9, <1>10

\* The keys of an object are those of its fields that have a place in the order.
LEMMA KeysAreFields ==
  ASSUME NEW row
  PROVE  /\ Len(KeysOf(row)) \in Nat
         /\ KeysOf(row) \in Seq(DOMAIN row)
         /\ IsFiniteSet(DOMAIN row) => Len(KeysOf(row)) <= Cardinality(DOMAIN row)
<1> DEFINE S == {n \in DOMAIN FieldOrder : FieldOrder[n] \in DOMAIN row}
<1>1. PICK m \in Nat : DOMAIN FieldOrder = 1 .. m
  BY AnalyzerAssumption
<1>2. IsFiniteSet(S) /\ S \subseteq Int
  <2>1. IsFiniteSet(1 .. m)
    BY FS_Interval
  <2> QED
    BY <1>1, <2>1, FS_Subset
<1>3. \A i \in S : FieldOrder[i] \in DOMAIN row
  OBVIOUS
<1>4. KeysOf(row) = Picked(FieldOrder, S)
  BY DEF KeysOf, FieldsIn
<1>6. ASSUME IsFiniteSet(DOMAIN row) PROVE Cardinality(S) <= Cardinality(DOMAIN row)
  <2> DEFINE f == [i \in S |-> FieldOrder[i]]
  <2>1. f \in [S -> DOMAIN row]
    OBVIOUS
  <2>2. ASSUME NEW i \in S, NEW j \in S, f[i] = f[j] PROVE i = j
    BY <2>2, AnalyzerAssumption
  <2> HIDE DEF f, S
  <2>3. f \in Injection(S, DOMAIN row)
    BY <2>1, <2>2 DEF Injection, IsInjective
  <2> QED
    BY <1>6, <2>3, FS_Injection
<1> HIDE DEF S
<1>5. Picked(FieldOrder, S) \in Seq(DOMAIN row) /\ Len(Picked(FieldOrder, S)) = Cardinality(S)
  BY <1>2, <1>3, PickedElements
<1> QED
  BY <1>2, <1>4, <1>5, <1>6, FS_CardinalityType

\* The keys of an object have a place in the order of names.
LEMMA KeysAreNamed ==
  ASSUME NEW row
  PROVE  \A i \in 1 .. Len(KeysOf(row)) : KeysOf(row)[i] \in FieldNames
<1>1. FieldsIn(DOMAIN row) \in Seq({f \in FieldNames : f \in DOMAIN row})
  BY FieldsAreListed
<1> QED
  BY <1>1, ElementOfSeq DEF KeysOf

\* The ends of an object are no more keys than its budget, when that is two or more
\* and the ends are half of it at most.
LEMMA KeySplitFits ==
  ASSUME NEW k \in Nat, k >= 2, FirstPct + LastPct <= 50
  PROVE  \E first \in Nat, last \in Nat :
           /\ first = AtLeast(1, RoundedPct(k, FirstPct)) /\ last = AtLeast(1, RoundedPct(k, LastPct))
           /\ first + last <= k
<1>1. PICK fp \in Nat, lp \in Nat : fp = FirstPct /\ lp = LastPct /\ fp + lp <= 50
  BY CrusherAssumption
<1>2. PICK a \in Nat, b \in Nat : a = RoundedPct(k, fp) /\ b = RoundedPct(k, lp)
                                  /\ 100 * a <= k * fp + 50 /\ 100 * b <= k * lp + 50
  BY RoundedIsNear
<1>3. PICK p \in Nat, q \in Nat : p = k * fp /\ q = k * lp
  OBVIOUS
<1>4. p + q <= 50 * k
  <2>1. p + q = k * (fp + lp)
    BY <1>3
  <2>2. PICK h \in Nat : fp + lp + h = 50
    <3>1. 50 - (fp + lp) \in Nat /\ fp + lp + (50 - (fp + lp)) = 50
      BY <1>1
    <3> QED
      BY <3>1
  <2>3. k * 50 = k * (fp + lp) + k * h
    BY <2>2
  <2>4. k * h \in Nat
    OBVIOUS
  <2>5. PICK y \in Nat : y = k * h
    BY <2>4
  <2> QED
    BY <2>1, <2>3, <2>5
<1>5. 100 * a <= p + 50 /\ 100 * b <= q + 50
  BY <1>2, <1>3
<1>6. PICK first \in Nat, last \in Nat : first = AtLeast(1, a) /\ last = AtLeast(1, b)
  BY DEF AtLeast
<1>7. first + last <= k
  BY <1>4, <1>5, <1>6 DEF AtLeast
<1> QED
  BY <1>1, <1>2, <1>6, <1>7

\* Objects keep their budget and what is small or an error, and all errors.
LEMMA ObjectFits ==
  ASSUME NEW row, DOMAIN row \subseteq DOMAIN Text, \A f \in DOMAIN row : IsInner(row[f]),
         NEW c, c.bias \in Nat, NEW r \in CrushObject(row, c)
  PROVE  /\ r.how \in {"passthrough", "object"}
         /\ FirstPct + LastPct <= 50 /\ MinItemsKept >= 2 /\ MaxItemsAfterCrush >= 2 => Fits(r)
         /\ \A i \in 0 .. Len(KeysOf(row)) - 1 : Alarming(row[KeysOf(row)[i + 1]]) => i \in r.kept
<1> DEFINE keys == KeysOf(row)
           n == Len(keys)
           tokens(i) == JsonLength(row[keys[i]]) \div 4 + Text[keys[i]].length \div 4 + 2
           Member(i) == <<"dict", [f \in {keys[i]} |-> row[f]]>>
           members == [i \in 1 .. n |-> Member(i)]
           values == << >> \o members
           errors == {i \in 0 .. n - 1 : Alarming(row[keys[i + 1]])}
           small == {i \in 0 .. n - 1 : tokens(i + 1) <= SmallTokens}
           label == [i \in 0 .. n - 1 |-> i]
           fill(k) == StrideFill(errors \union small
                                   \union Ends(n, AtLeast(1, RoundedPct(k, FirstPct)),
                                                  AtLeast(1, RoundedPct(k, LastPct))),
                                 n, k, k + Cardinality(errors), label)
           pass == Kept("passthrough", 0 .. n - 1, n, {})
           Object(k) == IF k >= n THEN pass ELSE Kept("object", fill(k), k, errors \union small)
           little == SumOf([i \in 1 .. n |-> tokens(i)], 1 .. n) < MinTokensToCrush
<1>1. n \in Nat /\ keys \in Seq(DOMAIN row) /\ \A i \in 1 .. n : keys[i] \in DOMAIN row
  BY KeysAreFields
<1>k. \A i \in 1 .. n : keys[i] \in FieldNames
  BY KeysAreNamed
<1>2. CrushObject(row, c)
        = IF n <= FewItems \/ little THEN {pass} ELSE {Object(k) : k \in Totals(values, c.bias)}
  BY Zenon DEF CrushObject
<1>e. errors \subseteq 0 .. n - 1 /\ small \subseteq 0 .. n - 1
  OBVIOUS
<1>v. Len(values) = n /\ DOMAIN values = 1 .. n /\ \A i \in 1 .. n : IsValue(values[i])
  <2>1. ASSUME NEW i \in 1 .. n PROVE IsValue(Member(i))
    <3>1. PICK f : f = keys[i] /\ f \in DOMAIN row
      BY <1>1
    <3>2. PICK one : one = [g \in {f} |-> row[g]]
      OBVIOUS
    <3>3. DOMAIN one = {f} /\ one[f] = row[f]
      BY <3>2
    <3>4. IsFiniteSet(DOMAIN one) /\ \A g \in DOMAIN one : IsInner(one[g])
      BY <3>1, <3>3, FS_Singleton
    <3>f. DOMAIN one \subseteq FieldNames
      BY <1>k, <3>1, <3>3
    <3>5. PICK v : v = <<"dict", one>>
      OBVIOUS
    <3>6. v[2] = one /\ v = <<"dict", [g \in DOMAIN one |-> one[g]]>>
      BY <3>2, <3>3, <3>5
    <3>7. IsObject(v, IsInner)
      BY <3>4, <3>f, <3>6 DEF IsObject
    <3> QED
      BY <3>1, <3>2, <3>5, <3>7 DEF IsValue
  <2> DEFINE T == {Member(i) : i \in 1 .. n}
  <2>2. members \in [1 .. n -> T] /\ \A i \in 1 .. n : members[i] = Member(i)
    OBVIOUS
  <2> HIDE DEF Member, members, T, n
  <2>3. values = members /\ Len(members) = n
    BY <1>1, <2>2, LazySeq
  <2> QED
    BY <2>1, <2>2, <2>3
<1>x. ASSUME errors \subseteq r.kept
      PROVE  \A i \in 0 .. Len(KeysOf(row)) - 1 : Alarming(row[KeysOf(row)[i + 1]]) => i \in r.kept
  BY <1>x
<1> HIDE DEF errors, small, label, values, little, n
<1>3. IsFiniteSet(0 .. n - 1) /\ Cardinality(0 .. n - 1) = n
  BY <1>1, PlacesFinite
<1>4. PICK S : S = errors \union small /\ IsFiniteSet(S)
  <2>1. errors \union small \subseteq 0 .. n - 1
    BY <1>e
  <2> QED
    BY <1>3, <2>1, FS_Subset
<1>5. PICK e \in Nat, a \in Nat : e = Cardinality(errors) /\ a = Cardinality(S) /\ e <= a
  <2>1. errors \in SUBSET S
    BY <1>4
  <2> QED
    BY <1>4, <2>1, FS_Subset, FS_CardinalityType
<1>6. CASE r = pass
  <2>1. r.kept = 0 .. n - 1 /\ r.size = n /\ r.how = "passthrough"
    BY <1>6 DEF Kept
  <2> QED
    BY <1>1, <1>3, <1>e, <1>x, <2>1 DEF Fits
<1>7. CASE n > FewItems /\ \E k \in Totals(values, c.bias) : r = Object(k)
  <2>1. PICK k \in Totals(values, c.bias) : r = Object(k)
    BY <1>7
  <2>2. k \in Nat
    BY <1>1, <1>v, TotalsAreNumbers
  <2>p. FirstPct \in Nat /\ LastPct \in Nat
    BY CrusherAssumption
  <2>3. PICK first \in Nat, last \in Nat :
           first = AtLeast(1, RoundedPct(k, FirstPct)) /\ last = AtLeast(1, RoundedPct(k, LastPct))
    <3>1. PICK a1 \in Nat, b1 \in Nat : a1 = RoundedPct(k, FirstPct) /\ b1 = RoundedPct(k, LastPct)
      BY <2>2, <2>p, RoundedIsNear
    <3>2. AtLeast(1, a1) \in Nat /\ AtLeast(1, b1) \in Nat
      BY DEF AtLeast
    <3> QED
      BY <3>1, <3>2
  <2>4. PICK R : R = StrideFill(Ends(n, first, last) \union S, n, k, k + e, label)
    OBVIOUS
  <2>5. ASSUME FirstPct + LastPct <= 50, MinItemsKept >= 2, MaxItemsAfterCrush >= 2
        PROVE  Cardinality(R) <= k + a
    <3>1. k >= 2
      <4>1. MinItemsKept \in Nat /\ MaxItemsAfterCrush \in Nat /\ FewItems \in Nat
        BY CrusherAssumption, SizerAssumption
      <4>2. k \in Nat /\ (n <= FewItems \/ k >= AtMost(MinItemsKept, MaxItemsAfterCrush))
        BY <1>1, <1>v, TotalsAreNumbers
      <4> QED
        BY <1>1, <1>7, <2>5, <4>1, <4>2 DEF AtMost
    <3>2. first + last <= k
      <4>1. \E f1 \in Nat, l1 \in Nat :
              /\ f1 = AtLeast(1, RoundedPct(k, FirstPct)) /\ l1 = AtLeast(1, RoundedPct(k, LastPct))
              /\ f1 + l1 <= k
        BY <2>2, <2>5, <3>1, KeySplitFits
      <4> QED
        BY <2>3, <4>1
    <3>3. IsFiniteSet(S) /\ Cardinality(S) <= a /\ e <= a
      BY <1>4, <1>5
    <3>4. Cardinality(StrideFill(Ends(n, first, last) \union S, n, k, k + e, label)) <= k + a
      BY <1>1, <2>2, <3>2, <3>3, FillFits
    <3> QED
      BY <2>4, <3>4
  <2>9. errors \subseteq R
    <3>1. IsFiniteSet(Ends(n, first, last))
      BY <1>1, EndsBound
    <3>2. PICK A : A = Ends(n, first, last) \union S /\ IsFiniteSet(A)
      BY <1>4, <3>1, FS_Union
    <3>3. PICK cap \in Int : cap = k + e
      BY <2>2
    <3>4. Filled(R, A, 0 .. n - 1, cap)
      BY <1>1, <2>2, <2>4, <3>2, <3>3, StrideFillFills
    <3> QED
      BY <1>4, <3>2, <3>4 DEF Filled
  <2>6. fill(k) = R
    <3>1. Ends(n, first, last) \union S = errors \union small \union Ends(n, first, last)
      BY <1>4
    <3> QED
      BY <1>5, <2>3, <2>4, <3>1
  <2>7. CASE r = Kept("object", R, k, S)
    <3>1. FirstPct + LastPct <= 50 /\ MinItemsKept >= 2 /\ MaxItemsAfterCrush >= 2 => Fits(r)
      BY <1>5, <2>5, <2>7, FitsWithMust DEF Prioritised
    <3>2. r.how = "object" /\ r.kept = R
      BY <2>7 DEF Kept
    <3> QED
      BY <1>x, <2>9, <3>1, <3>2
  <2>8. r = pass \/ r = Kept("object", R, k, S)
    BY <1>4, <2>1, <2>6, Zenon
  <2> QED
    BY <1>6, <2>7, <2>8
<1> QED
  <2>1. FewItems \in Nat
    BY SizerAssumption
  <2>2. n <= FewItems \/ n > FewItems
    BY <1>1, <2>1
  <2> HIDE DEF Object, pass
  <2>3. r = pass \/ (n > FewItems /\ \E k \in Totals(values, c.bias) : r = Object(k))
    <3>1. CASE n <= FewItems \/ little
      BY <1>2, <3>1
    <3>2. CASE ~ (n <= FewItems \/ little)
      BY <1>2, <2>2, <3>2
    <3> QED
      BY <3>1, <3>2
  <2> QED
    BY <1>6, <1>7, <2>3

-----------------------------------------------------------------------------
(* Plans *)

\* Outliers, errors and anomalies are positions.
LEMMA CriticalPlaces ==
  ASSUME NEW rows, NEW stats
  PROVE  /\ DetectStructuralOutliers(rows) \subseteq Positions(rows)
         /\ DetectErrorItems(rows) \subseteq Positions(rows)
         /\ Critical(rows, stats) \subseteq Positions(rows)
<1>1. ASSUME NEW f PROVE RareIn(rows, f) \subseteq Positions(rows)
  <2> DEFINE having == {i \in Positions(rows) : f \in DOMAIN At(rows, i)}
             key == [i \in having |-> stringifyValue(At(rows, i)[f])]
             keys == {key[i] : i \in having}
             top == TopValues([k \in keys |-> Cardinality({i \in having : key[i] = k})],
                              Cardinality(having))
             few == Cardinality(keys \ {Null}) \in 2 .. 50 /\ Cardinality(top) <= 5
  <2>1. RareIn(rows, f) = IF few THEN {i \in having : key[i] \notin top} ELSE {}
    BY Zenon DEF RareIn
  <2>2. {i \in having : key[i] \notin top} \subseteq Positions(rows)
    <3> HIDE DEF key, top
    <3> QED
      OBVIOUS
  <2> HIDE DEF having, key, keys, top, few
  <2> QED
    BY <2>1, <2>2
<1>2. DetectStructuralOutliers(rows) \subseteq Positions(rows)
  <2> DEFINE n == Len(rows)
             used == UNION {DOMAIN rows[i] : i \in DOMAIN rows}
             count(f) == Cardinality({i \in DOMAIN rows : f \in DOMAIN rows[i]})
             rare == {f \in used : 100 * count(f) < 20 * n}
             common == {f \in used : 100 * count(f) >= 80 * n}
             A == {i \in Positions(rows) : DOMAIN At(rows, i) \intersect rare # {}}
             B == UNION {RareIn(rows, f) : f \in common}
  <2>1. DetectStructuralOutliers(rows) = IF n < 5 THEN {} ELSE A \union B
    BY Zenon DEF DetectStructuralOutliers
  <2>2. A \subseteq Positions(rows) /\ B \subseteq Positions(rows)
    <3> HIDE DEF rare, common
    <3> QED
      BY <1>1
  <2> HIDE DEF A, B
  <2> QED
    BY <2>1, <2>2
<1>3. DetectErrorItems(rows) \subseteq Positions(rows) /\ Anomalies(rows, stats) \subseteq Positions(rows)
  BY DEF DetectErrorItems, Anomalies
<1> QED
  BY <1>2, <1>3 DEF Critical

\* What is listed in order is as many as there are.
LEMMA InOrderLength ==
  ASSUME NEW S, IsFiniteSet(S)
  PROVE  \E T : InOrder(S) \in Seq(T)
<1> DEFINE Place(k) == CHOOSE i \in S : Cardinality({j \in S : j < i}) = k - 1
           f == [k \in 1 .. Cardinality(S) |-> Place(k)]
           T == {Place(k) : k \in 1 .. Cardinality(S)}
<1>1. PICK n \in Nat : n = Cardinality(S)
  BY FS_CardinalityType
<1>2. f \in [1 .. n -> T]
  <2> HIDE DEF Place
  <2> QED
    BY <1>1
<1>3. InOrder(S) = << >> \o f
  BY Zenon DEF InOrder
<1> HIDE DEF f, T
<1> QED
  BY <1>2, <1>3, LazySeq

\* Two lists one after the other are a list.
LEMMA ListsJoin ==
  ASSUME NEW S, NEW T, NEW s \in Seq(S), NEW t \in Seq(T)
  PROVE  s \o t \in Seq(S \union T) /\ Len(s \o t) \in Nat
<1>1. s \in Seq(S \union T) /\ t \in Seq(S \union T)
  BY SeqMonotonic
<1>2. PICK U : U = S \union T /\ s \in Seq(U) /\ t \in Seq(U)
  BY <1>1
<1>3. s \o t \in Seq(U)
  BY <1>2, ConcatProperties
<1> QED
  BY <1>2, <1>3, LenProperties

\* The ends of an array in order.
LEMMA TipsAreListed == ASSUME NEW n \in Nat PROVE \E T : Tips(n) \in Seq(T)
<1>1. PICK A, B : A = 0 .. AtMost(3, n) - 1 /\ B = AtLeast(n - 2, 0) .. n - 1
  OBVIOUS
<1>2. IsFiniteSet(A) /\ IsFiniteSet(B)
  <2>1. PICK a \in Int, b \in Int : a = AtMost(3, n) /\ b = AtLeast(n - 2, 0)
    <3>1. AtMost(3, n) \in Int /\ AtLeast(n - 2, 0) \in Int
      BY Bounds
    <3> QED
      BY <3>1
  <2>2. IsFiniteSet(0 .. a - 1) /\ IsFiniteSet(b .. n - 1)
    <3>1. a - 1 \in Int /\ n - 1 \in Int
      OBVIOUS
    <3> QED
      BY <3>1, FS_Interval
  <2> QED
    BY <1>1, <2>1, <2>2
<1>3. PICK S, T : InOrder(A) \in Seq(S) /\ InOrder(B) \in Seq(T)
  BY <1>2, InOrderLength
<1>4. Tips(n) = InOrder(A) \o InOrder(B)
  BY <1>1, Zenon DEF Tips
<1>5. Tips(n) \in Seq(S \union T)
  BY <1>3, <1>4, ListsJoin
<1> QED
  BY <1>5

\* With priorities no more is kept than the budget, or than what is critical, all of
\* which is kept.
LEMMA PrioritiesFit ==
  ASSUME NEW current, IsFiniteSet(current), NEW critical, IsFiniteSet(critical), NEW n \in Nat, NEW max \in Int
  PROVE  LET R == WithPriorities(current, critical, n, max)
         IN /\ IsFiniteSet(R)
            /\ Cardinality(R) <= max \/ Cardinality(R) <= Cardinality(critical)
            /\ R = current \/ critical \subseteq R
<1>n. PICK next : next = Tips(n) \o InOrder(current)
  OBVIOUS
<1>m. PICK m \in Nat : m = Len(next)
  <2>1. PICK S : Tips(n) \in Seq(S)
    BY TipsAreListed
  <2>2. PICK T : InOrder(current) \in Seq(T)
    BY InOrderLength
  <2> QED
    BY <1>n, <2>1, <2>2, ListsJoin
<1>2. PICK T : T = TopUp(critical, next, max)
  OBVIOUS
<1>3. Filled(T, critical, {next[k] : k \in 1 .. m}, max)
  BY <1>m, <1>2, TopUpFills
<1>4. WithPriorities(current, critical, n, max) = IF Cardinality(current) <= max THEN current ELSE T
  BY <1>n, <1>2, Zenon DEF WithPriorities
<1>5. T = critical \/ Cardinality(T) <= max
  BY <1>3 DEF Filled
<1>6. critical \subseteq T /\ IsFiniteSet(T)
  BY <1>3 DEF Filled
<1>7. Cardinality(critical) <= Cardinality(critical)
  BY FS_CardinalityType
<1> QED
  BY <1>4, <1>5, <1>6, <1>7

\* So it is with the indices that a plan keeps.
LEMMA IndicesFit ==
  ASSUME NEW rows, Len(rows) \in Nat, NEW stats, NEW keep, IsFiniteSet(keep),
         NEW max \in Int
  PROVE  LET R == PrioritizeIndices(rows, stats, keep, max)
         IN /\ IsFiniteSet(R)
            /\ Cardinality(R) <= max \/ Cardinality(R) <= Cardinality(Critical(rows, stats))
<1>1. PICK unique : unique = IF DedupIdenticalItems THEN DeduplicateIndicesByContent(keep, rows) ELSE keep
  OBVIOUS
<1>2. unique \subseteq keep /\ IsFiniteSet(unique)
  <2>1. DeduplicateIndicesByContent(keep, rows) \subseteq keep
    BY DEF DeduplicateIndicesByContent
  <2>2. unique \in {DeduplicateIndicesByContent(keep, rows), keep}
    BY <1>1, Zenon
  <2>3. unique \subseteq keep
    BY <2>1, <2>2
  <2> QED
    BY <2>3, FS_Subset
<1>3. PICK current : current = FillRemainingSlots(unique, rows, max)
  OBVIOUS
<1>4. IsFiniteSet(current)
  BY <1>2, <1>3, SlotsFilled DEF Filled
<1>5. PICK critical : critical = Critical(rows, stats) /\ IsFiniteSet(critical)
  BY CriticalPlaces, SomePositions
<1>6. PICK n \in Nat : n = Len(rows)
  OBVIOUS
<1>7. PrioritizeIndices(rows, stats, keep, max) = WithPriorities(current, critical, n, max)
  BY <1>1, <1>3, <1>5, <1>6, Zenon DEF PrioritizeIndices
<1> QED
  BY <1>4, <1>5, <1>7, PrioritiesFit

\* Each of the rows at A is shown by a row of S: it, or an equal of it.
Shown(rows, A, S) ==
  \A i \in A : \E j \in S : j = i \/ (j \in Positions(rows) /\ At(rows, j) = At(rows, i))

\* Of equal rows the first one stays.
LEMMA UniqueShown ==
  ASSUME NEW rows, Len(rows) \in Nat, NEW keep, keep \subseteq Positions(rows)
  PROVE  Shown(rows, keep, DeduplicateIndicesByContent(keep, rows))
<1> SUFFICES ASSUME NEW i \in keep
             PROVE  \E j \in DeduplicateIndicesByContent(keep, rows) :
                      j \in Positions(rows) /\ At(rows, j) = At(rows, i)
  BY DEF Shown
<1> DEFINE T == {j \in keep : At(rows, j) = At(rows, i)}
<1>1. T \subseteq Nat /\ T # {}
  <2>1. keep \subseteq Nat
    BY DEF Positions
  <2>2. i \in T
    OBVIOUS
  <2> QED
    BY <2>1, <2>2
<1>2. PICK x \in T : \A y \in T : x <= y
  <2> HIDE DEF T
  <2> QED
    BY <1>1, LeastElement
<1>3. \A j \in keep : j < x => At(rows, j) # At(rows, x)
  BY <1>1, <1>2
<1> QED
  BY <1>2, <1>3 DEF DeduplicateIndicesByContent

\* What a plan wants to keep and is critical is shown by what it keeps, though it be
\* a duplicate, and whatever the budget.
LEMMA IndicesKeep ==
  ASSUME NEW rows, Len(rows) \in Nat, NEW stats, NEW keep, keep \subseteq Positions(rows),
         NEW max \in Int
  PROVE  Shown(rows, keep \intersect Critical(rows, stats), PrioritizeIndices(rows, stats, keep, max))
<1>1. PICK unique : unique = IF DedupIdenticalItems THEN DeduplicateIndicesByContent(keep, rows) ELSE keep
  OBVIOUS
<1>2. unique \subseteq keep /\ IsFiniteSet(unique) /\ Shown(rows, keep, unique)
  <2>1. DeduplicateIndicesByContent(keep, rows) \subseteq keep
    BY DEF DeduplicateIndicesByContent
  <2>2. unique \in {DeduplicateIndicesByContent(keep, rows), keep}
    BY <1>1, Zenon
  <2>3. unique \subseteq keep
    BY <2>1, <2>2
  <2>4. IsFiniteSet(unique)
    <3>1. unique \subseteq Positions(rows)
      BY <2>3
    <3> QED
      BY <3>1, SomePositions
  <2>5. Shown(rows, keep, DeduplicateIndicesByContent(keep, rows))
    BY UniqueShown
  <2>6. Shown(rows, keep, keep)
    BY DEF Shown
  <2> QED
    BY <2>2, <2>3, <2>4, <2>5, <2>6
<1>3. PICK current : current = FillRemainingSlots(unique, rows, max)
  OBVIOUS
<1>4. IsFiniteSet(current) /\ unique \subseteq current
  <2>1. \E E : Filled(FillRemainingSlots(unique, rows, max), unique, E, max)
    BY <1>2, SlotsFilled
  <2> QED
    BY <1>3, <2>1 DEF Filled
<1>5. PICK critical : critical = Critical(rows, stats) /\ IsFiniteSet(critical)
  BY CriticalPlaces, SomePositions
<1>6. PICK n \in Nat : n = Len(rows)
  OBVIOUS
<1>7. PICK R : R = WithPriorities(current, critical, n, max)
  OBVIOUS
<1>8. PrioritizeIndices(rows, stats, keep, max) = R
  BY <1>1, <1>3, <1>5, <1>6, <1>7, Zenon DEF PrioritizeIndices
<1>9. R = current \/ critical \subseteq R
  BY <1>4, <1>5, <1>7, PrioritiesFit
<1>10. Shown(rows, keep \intersect critical, R)
  <2>1. CASE R = current
    BY <1>2, <1>4, <2>1 DEF Shown
  <2>2. CASE critical \subseteq R
    BY <2>2 DEF Shown
  <2> QED
    BY <1>9, <2>1, <2>2
<1> QED
  BY <1>5, <1>8, <1>10

\* What a plan is asked for: anchors, constraints and the rows of the query.
LEMMA AskedIsFinite ==
  ASSUME NEW rows \in Seq(Rows), NEW max \in Nat, max < Len(rows),
         NEW p \in Patterns, NEW c
  PROVE  /\ IsFiniteSet(Asked(rows, max, p, c)) /\ Asked(rows, max, p, c) \subseteq Positions(rows)
         /\ applyConstraints(rows, c) \subseteq Positions(rows)
         /\ applyConstraints(rows, c) \subseteq Asked(rows, max, p, c)
         /\ applyQuerySignals(rows, c) \subseteq Positions(rows)
<1>1. PICK A : A = SelectAnchors(rows, max, p, c.query) /\ IsFiniteSet(A) /\ A \subseteq Positions(rows)
  <2>1. LET A == SelectAnchors(rows, max, p, c.query) IN A \subseteq Positions(rows) /\ IsFiniteSet(A)
    BY AnchorsAreFew
  <2> QED
    BY <2>1
<1>l. Len(rows) \in Nat
  BY LenProperties
<1>2. PICK B : B = applyConstraints(rows, c)
  OBVIOUS
<1>3. B \subseteq Positions(rows)
  <2>1. B \in {DetectErrorItems(rows) \union DetectStructuralOutliers(rows), {}}
    BY <1>2, Zenon DEF applyConstraints
  <2>2. DetectErrorItems(rows) \subseteq Positions(rows)
        /\ DetectStructuralOutliers(rows) \subseteq Positions(rows)
    BY CriticalPlaces
  <2> QED
    BY <2>1, <2>2
<1>4. PICK C : C = applyQuerySignals(rows, c) /\ C \subseteq Positions(rows)
  BY DEF applyQuerySignals
<1>5. IsFiniteSet(B) /\ IsFiniteSet(C)
  BY <1>l, <1>3, <1>4, SomePositions
<1>6. IsFiniteSet(A \union B \union C) /\ A \union B \union C \subseteq Positions(rows)
  BY <1>1, <1>3, <1>4, <1>5, FS_Union
<1>7. Asked(rows, max, p, c) = A \union B \union C
  BY <1>1, <1>2, <1>4, Zenon DEF Asked
<1> QED
  BY <1>2, <1>3, <1>4, <1>6, <1>7

\* What the constraints ask for is critical.
LEMMA ConstraintsAreCritical ==
  ASSUME NEW rows, NEW stats, NEW c
  PROVE  applyConstraints(rows, c) \subseteq Critical(rows, stats)
<1>1. applyConstraints(rows, c) \in {DetectErrorItems(rows) \union DetectStructuralOutliers(rows), {}}
  BY Zenon DEF applyConstraints
<1> QED
  BY <1>1 DEF Critical

\* A plan for more rows than may be kept fits, and shows what the constraints ask for.
LEMMA PlansFit ==
  ASSUME NEW n \in Nat, NEW rows \in Seq(Rows), Len(rows) = n, NEW an, NEW c, NEW k \in Nat, k < n,
         NEW S \in CreatePlan(rows, an, k, c), NEW r, r = Kept(an.strategy, S, k, MustOf(rows, an, c)),
         an.strategy \notin {"passthrough", "strings", "numbers", "object", "mixed"}
  PROVE  Fits(r) /\ Shown(rows, applyConstraints(rows, c), S)
<1>1. PICK stats : stats = an.stats
  OBVIOUS
<1>2. PICK crit : crit = Critical(rows, stats)
  OBVIOUS
<1>3. IsFiniteSet(crit) /\ Cardinality(crit) \in Nat
  BY <1>2, CriticalPlaces, SomePositions
<1>4. ASSUME NEW p \in Patterns
      PROVE  /\ Asked(rows, k, p, c) \subseteq Positions(rows) /\ IsFiniteSet(Asked(rows, k, p, c))
             /\ applyConstraints(rows, c) \subseteq Asked(rows, k, p, c)
  BY <1>4, AskedIsFinite
<1>5. ASSUME NEW p \in Patterns, NEW B, B \subseteq Positions(rows)
      PROVE  LET R == PrioritizeIndices(rows, stats, Asked(rows, k, p, c) \union B, k)
             IN /\ IsFiniteSet(R) /\ (Cardinality(R) <= k \/ Cardinality(R) <= Cardinality(crit))
                /\ Shown(rows, applyConstraints(rows, c), R)
  <2>1. PICK A : A = Asked(rows, k, p, c) /\ IsFiniteSet(A) /\ A \subseteq Positions(rows)
                 /\ applyConstraints(rows, c) \subseteq A
    BY <1>4
  <2>2. IsFiniteSet(B)
    BY <1>5, SomePositions
  <2>3. IsFiniteSet(A \union B)
    BY <2>1, <2>2, FS_Union
  <2>4. PICK keep : keep = A \union B /\ IsFiniteSet(keep) /\ keep \subseteq Positions(rows)
    BY <1>5, <2>1, <2>3
  <2>5. LET R == PrioritizeIndices(rows, stats, keep, k)
        IN /\ IsFiniteSet(R)
           /\ Cardinality(R) <= k \/ Cardinality(R) <= Cardinality(Critical(rows, stats))
    <3>1. Len(rows) \in Nat /\ k \in Int /\ IsFiniteSet(keep)
      BY <2>4
    <3> QED
      BY <3>1, IndicesFit, Zenon
  <2>6. Shown(rows, keep \intersect Critical(rows, stats), PrioritizeIndices(rows, stats, keep, k))
    <3>1. Len(rows) \in Nat /\ k \in Int
      OBVIOUS
    <3> QED
      BY <2>4, <3>1, IndicesKeep, Zenon
  <2>7. applyConstraints(rows, c) \subseteq keep \intersect Critical(rows, stats)
    BY <2>1, <2>4, ConstraintsAreCritical
  <2>8. Shown(rows, applyConstraints(rows, c), PrioritizeIndices(rows, stats, keep, k))
    BY <2>6, <2>7 DEF Shown
  <2> QED
    BY <1>2, <2>1, <2>4, <2>5, <2>8
<1>n. ASSUME NEW far PROVE NearChanges(rows, stats, far) \subseteq Positions(rows)
  BY DEF NearChanges
<1>6. CASE an.strategy = "time_series"
  <2>1. S = PlanTimeSeries(rows, stats, k, c) /\ MustOf(rows, an, c) = crit
    BY <1>1, <1>2, <1>6 DEF CreatePlan, MustOf
  <2>2. /\ Cardinality(S) <= k \/ Cardinality(S) <= Cardinality(crit)
        /\ Shown(rows, applyConstraints(rows, c), S)
    <3>1. "time_series" \in Patterns
      BY DEF Patterns
    <3> QED
      BY <1>5, <1>n, <2>1, <3>1, Zenon DEF PlanTimeSeries
  <2> QED
    BY <1>6, <2>1, <2>2 DEF Fits, Kept, Prioritised
<1>7. CASE an.strategy = "cluster"
  <2>1. S \in PlanClusterSample(rows, stats, k, c) /\ MustOf(rows, an, c) = crit
    BY <1>1, <1>2, <1>7 DEF CreatePlan, MustOf
  <2>2. PICK f : S = PrioritizeIndices(rows, stats, Asked(rows, k, "logs", c) \union Representatives(rows, f), k)
    BY <2>1, Zenon DEF PlanClusterSample
  <2>3. Representatives(rows, f) \subseteq Positions(rows)
    <3> DEFINE start(i) == IF f \in DOMAIN At(rows, i) /\ At(rows, i)[f][1] = "str"
                           THEN Text[At(rows, i)[f][2]].start ELSE ""
               R == {i \in Positions(rows) :
                       Cardinality({j \in Positions(rows) : j < i /\ start(j) = start(i)}) < 2}
    <3>1. Representatives(rows, f) \in {{}, R}
      BY Zenon DEF Representatives
    <3>2. R \subseteq Positions(rows)
      OBVIOUS
    <3> HIDE DEF R
    <3> QED
      BY <3>1, <3>2
  <2>4. /\ Cardinality(S) <= k \/ Cardinality(S) <= Cardinality(crit)
        /\ Shown(rows, applyConstraints(rows, c), S)
    <3>1. "logs" \in Patterns
      BY DEF Patterns
    <3> QED
      BY <1>5, <2>2, <2>3, <3>1
  <2> QED
    BY <1>7, <2>1, <2>4 DEF Fits, Kept, Prioritised
<1>8. CASE an.strategy = "top_n"
  <2>1. S \in PlanTopN(rows, stats, k, c)
        /\ MustOf(rows, an, c) = applyConstraints(rows, c) \union applyQuerySignals(rows, c)
    BY <1>1, <1>8 DEF CreatePlan, MustOf
  <2>2. PICK T : T \in UNION {Best(rows, f, AtLeast(k - 3, 0)) : f \in ScoreFields(stats)}
                 /\ S = T \union applyConstraints(rows, c) \union applyQuerySignals(rows, c)
    BY <2>1, Zenon DEF PlanTopN
  <2>3. PICK few \in Nat : few = AtLeast(k - 3, 0) /\ few <= k
    BY DEF AtLeast
  <2>4. PICK f : T \in Best(rows, f, few)
    BY <2>2, <2>3
  <2>5. T \subseteq Positions(rows) /\ Cardinality(T) = AtMost(few, n)
    BY <2>4 DEF Best
  <2>6. PICK M : M = applyConstraints(rows, c) \union applyQuerySignals(rows, c)
    OBVIOUS
  <2>7. M \subseteq Positions(rows)
    <3>1. "generic" \in Patterns
      BY DEF Patterns
    <3> QED
      BY <2>6, <3>1, AskedIsFinite
  <2>8. IsFiniteSet(T) /\ IsFiniteSet(M) /\ Cardinality(T) <= k
    BY <2>3, <2>5, <2>7, SomePositions DEF AtMost
  <2>9. S = T \union M
    BY <2>2, <2>6
  <2>10. Cardinality(S) <= k + Cardinality(M)
    BY <2>8, <2>9, UnionBound
  <2>11. r = Kept("top_n", S, k, M)
    BY <1>8, <2>1, <2>6
  <2>12. Shown(rows, applyConstraints(rows, c), S)
    BY <2>6, <2>9 DEF Shown
  <2> QED
    BY <2>10, <2>11, <2>12, FitsWithMust DEF Prioritised
<1>9. CASE an.strategy = "skip"
  <2>1. S = Positions(rows) /\ MustOf(rows, an, c) = Positions(rows)
    BY <1>9 DEF CreatePlan, MustOf
  <2>2. Cardinality(S) = n
    BY <2>1, PositionsFinite
  <2>3. r = Kept("skip", S, k, S) /\ Cardinality(S) <= k + Cardinality(S)
    BY <1>9, <2>1, <2>2
  <2>4. Shown(rows, applyConstraints(rows, c), S)
    <3>1. applyConstraints(rows, c) \subseteq Positions(rows)
      BY ConstraintsAreCritical, CriticalPlaces
    <3> QED
      BY <2>1, <3>1 DEF Shown
  <2> QED
    BY <2>3, <2>4, FitsWithMust DEF Prioritised
<1>10. CASE an.strategy \notin {"time_series", "cluster", "top_n", "skip"}
  <2>1. S = PlanSmartSample(rows, stats, k, c) /\ MustOf(rows, an, c) = crit
    BY <1>1, <1>2, <1>10 DEF CreatePlan, MustOf
  <2>2. PICK B : B = Anomalies(rows, stats)
                       \union (IF PreserveChangePoints THEN NearChanges(rows, stats, 1) ELSE {})
    OBVIOUS
  <2>3. B \subseteq Positions(rows)
    BY <1>n, <2>2 DEF Anomalies
  <2>4. S = PrioritizeIndices(rows, stats, Asked(rows, k, "generic", c) \union B, k)
    <3>1. PICK D : D = IF PreserveChangePoints THEN NearChanges(rows, stats, 1) ELSE {}
      OBVIOUS
    <3>2. S = PrioritizeIndices(rows, stats, Asked(rows, k, "generic", c) \union Anomalies(rows, stats)
                                               \union D, k)
      BY <2>1, <3>1, Zenon DEF PlanSmartSample
    <3>3. Asked(rows, k, "generic", c) \union Anomalies(rows, stats) \union D
            = Asked(rows, k, "generic", c) \union B
      BY <2>2, <3>1
    <3> QED
      BY <3>2, <3>3
  <2>5. /\ IsFiniteSet(S) /\ (Cardinality(S) <= k \/ Cardinality(S) <= Cardinality(crit))
        /\ Shown(rows, applyConstraints(rows, c), S)
    <3>1. "generic" \in Patterns
      BY DEF Patterns
    <3> QED
      BY <1>5, <2>3, <2>4, <3>1
  <2>6. Cardinality(S) <= k \/ Cardinality(S) <= k + Cardinality(crit)
    BY <1>3, <2>5, FS_CardinalityType
  <2> QED
    BY <2>1, <2>5, <2>6 DEF Fits, Kept, Prioritised
<1> QED
  BY <1>6, <1>7, <1>8, <1>9, <1>10

\* An array of objects without the words in front is one of rows.
LEMMA RowsOfDicts ==
  ASSUME NEW items \in Seq(Given), \A i \in DOMAIN items : items[i][1] = "dict"
  PROVE  /\ Bare(items) \in Seq(Rows) /\ Len(Bare(items)) = Len(items)
         /\ \A i \in Positions(items) : At(items, i) = <<"dict", At(Bare(items), i)>>
<1>1. PICK n \in Nat : n = Len(items) /\ DOMAIN items = 1 .. n
  BY ItemsAreValues
<1>2. PICK rows : rows = Bare(items) /\ Len(rows) = n /\ DOMAIN rows = 1 .. n
                  /\ \A i \in 1 .. n : rows[i] = items[i][2]
  <2>1. Len(Bare(items)) = n /\ DOMAIN Bare(items) = 1 .. n
        /\ \A i \in 1 .. n : Bare(items)[i] = items[i][2]
    BY <1>1, ItemsAreValues
  <2> QED
    BY <2>1
<1>3. \A i \in 1 .. n : items[i] \in Given
  BY <1>1, ElementOfSeq
<1>4. ASSUME NEW i \in 1 .. n PROVE items[i] = <<"dict", items[i][2]>>
  <2>1. PICK g \in Given : g = items[i] /\ g[1] = "dict"
    BY <1>1, <1>3
  <2>2. IsValue(g)
    BY <1>1, <2>1, ItemsAreValues
  <2>3. ~ IsLeaf(g)
    BY <2>1 DEF IsLeaf, Leaf, Null
  <2>4. IsObject(g, IsInner)
    BY <2>2, <2>3 DEF IsValue
  <2>5. g = <<"dict", g[2]>>
    BY <2>4, ObjectsAreDicts
  <2> QED
    BY <2>1, <2>5
<1>5. \A i \in 1 .. n : rows[i] \in Rows
  BY <1>1, <1>2, <1>3 DEF Rows
<1>6. rows = [i \in 1 .. n |-> rows[i]]
  <2>1. rows = << >> \o [i \in DOMAIN items |-> items[i][2]]
    BY <1>2 DEF Bare
  <2> DEFINE f == [i \in DOMAIN items |-> items[i][2]]
             T == {items[i][2] : i \in 1 .. n}
  <2>2. f \in [1 .. n -> T]
    BY <1>1
  <2> HIDE DEF f, T
  <2> QED
    BY <2>1, <2>2, LazySeq DEF f
<1>7. rows \in Seq(Rows)
  BY <1>5, <1>6, SeqDef
<1>8. ASSUME NEW i \in Positions(items) PROVE At(items, i) = <<"dict", At(rows, i)>>
  <2>1. i + 1 \in 1 .. n
    BY <1>1 DEF Positions
  <2> QED
    BY <1>2, <1>4, <2>1 DEF At
<1> QED
  BY <1>1, <1>2, <1>7, <1>8

\* An array of objects is crushed by one of the strategies, or by none.
LEMMA StrategiesAreNamed ==
  ASSUME NEW rows
  PROVE  AnalyzeArray(rows).strategy \in {"none", "skip", "time_series", "cluster", "top_n", "smart_sample"}
<1> DEFINE an == AnalyzeArray(rows)
<1>1. PICK stats : an = Verdict(rows, stats)
  BY Zenon DEF AnalyzeArray
<1>2. PICK pattern : an.strategy = SelectStrategy(rows, stats, pattern)
  <2>1. PICK pattern : pattern = DetectPattern(rows, stats)
    OBVIOUS
  <2>2. PICK strategy : strategy = SelectStrategy(rows, stats, pattern)
    OBVIOUS
  <2>3. Verdict(rows, stats) = [stats |-> stats, strategy |-> strategy]
    BY <2>1, <2>2, Zenon DEF Verdict
  <2> HIDE DEF an
  <2> QED
    BY <1>1, <2>2, <2>3
<1>3. SelectStrategy(rows, stats, pattern)
        \in {"none", "skip", "time_series", "cluster", "top_n", "smart_sample"}
  BY Zenon DEF SelectStrategy
<1> QED
  BY <1>2, <1>3

\* What may become of an array of objects.
LEMMA DictsFit ==
  ASSUME NEW items \in Seq(Given), \A i \in DOMAIN items : items[i][1] = "dict",
         NEW c, c.bias \in Nat, NEW r \in CrushArray(items, c)
  PROVE  /\ Fits(r)
         /\ Shown(Bare(items), applyConstraints(Bare(items), c), r.kept)
         /\ r.how \in Prioritised => r.size \in Nat /\ r.size < Len(items)
<1> DEFINE rows == Bare(items)
           an == AnalyzeArray(rows)
           all == Positions(rows)
<1>1. PICK n \in Nat : n = Len(items) /\ DOMAIN items = 1 .. n /\ Len(rows) = n
                       /\ \A i \in 1 .. n : IsValue(items[i])
  BY ItemsAreValues
<1>r. rows \in Seq(Rows)
  BY RowsOfDicts
<1>a. Shown(rows, applyConstraints(rows, c), all)
  BY ConstraintsAreCritical, CriticalPlaces DEF Shown
<1>2. r \in CrushRows(rows, Compact(rows), an, c, Totals(items, c.bias))
  BY Zenon DEF CrushArray
<1>3. Totals(items, c.bias) \subseteq Nat
  BY <1>1, TotalsAreNumbers
<1>s. an.strategy \in {"none", "skip", "time_series", "cluster", "top_n", "smart_sample"}
  BY StrategiesAreNamed
<1> HIDE DEF rows, an
<1>4. PICK k \in Totals(items, c.bias) :
        \/ r = Kept("at_limit", all, k, all) /\ n <= k
        \/ r = [Kept("lossless", all, k, all) EXCEPT !.table = FormatCompaction(Compact(rows))]
        \/ /\ k < n
           /\ \E S \in CreatePlan(rows, an, k, c) : r = Kept(an.strategy, S, k, MustOf(rows, an, c))
  BY <1>1, <1>2, <1>3, RowsOutcomes
<1>5. k \in Nat /\ Cardinality(all) = n
  BY <1>1, <1>3, PositionsFinite
<1>6. CASE r = Kept("at_limit", all, k, all) /\ n <= k
  BY <1>5, <1>6, <1>a DEF Fits, Kept, Prioritised, rows
<1>7. CASE r = [Kept("lossless", all, k, all) EXCEPT !.table = FormatCompaction(Compact(rows))]
  <2>1. r.how = "lossless" /\ r.kept = all /\ r.size = k /\ r.must = all
    BY <1>7 DEF Kept
  <2> QED
    BY <1>5, <1>a, <2>1 DEF Fits, Prioritised, rows
<1>8. CASE k < n /\ \E S \in CreatePlan(rows, an, k, c) : r = Kept(an.strategy, S, k, MustOf(rows, an, c))
  <2>1. PICK S \in CreatePlan(rows, an, k, c) : r = Kept(an.strategy, S, k, MustOf(rows, an, c))
    BY <1>8
  <2>2. an.strategy \notin {"passthrough", "strings", "numbers", "object", "mixed"}
    BY <1>s
  <2>3. Fits(r) /\ Shown(rows, applyConstraints(rows, c), S)
    BY <1>1, <1>r, <1>5, <1>8, <2>1, <2>2, PlansFit
  <2>4. r.size = k /\ r.kept = S
    BY <2>1 DEF Kept
  <2> QED
    BY <1>1, <1>5, <1>8, <2>3, <2>4 DEF rows
<1> QED
  BY <1>4, <1>6, <1>7, <1>8

\* Arrays of several types have no budget of their own.
LEMMA MixedFits ==
  ASSUME NEW items \in Seq(Given), NEW c, NEW r \in crushMixedArrayIndices(items, c)
  PROVE  r.how \in {"passthrough", "mixed"} /\ Fits(r)
<1> DEFINE pass == Kept("passthrough", Positions(items), Len(items), {})
           groups == [k \in {items[i][1] : i \in DOMAIN items} |-> CrushGroup(items, k, c)]
<1>1. r = pass \/ r \in Together(items, groups)
  <2>1. crushMixedArrayIndices(items, c) \in {{pass}, Together(items, groups)}
    BY Zenon DEF crushMixedArrayIndices
  <2> HIDE DEF pass, groups
  <2> QED
    BY <2>1
<1> HIDE DEF groups
<1>2. CASE r = pass
  <2>1. Len(items) \in Nat /\ Cardinality(Positions(items)) = Len(items)
    BY ItemsAreValues, PositionsFinite
  <2> QED
    BY <1>2, <2>1 DEF Fits, Kept
<1>3. CASE r \in Together(items, groups)
  <2>1. PICK p : r = Kept("mixed", UNION {Regroup(items, k, p[k]) : k \in DOMAIN groups}, Len(items), {})
    BY <1>3, Zenon DEF Together
  <2> QED
    BY <2>1 DEF Fits, Kept
<1> QED
  BY <1>1, <1>2, <1>3

-----------------------------------------------------------------------------
(* Results *)

\* A step that does not leave everything as it is leaves the result pending, or
\* makes one of an array or an object that is well-formed.
Outcome(r) ==
  \/ doc[1] = "array" /\ \/ r = Kept("small", Positions(Items), Len(Items), {})
                         \/ LargeArray("dict") /\ r \in CrushArray(Items, caller)
                         \/ LargeArray("str") /\ r \in CrushStringArray(Items, caller)
                         \/ LargeArray("number") /\ r \in crushNumberArrayIndices(Items, caller)
                         \/ LargeArray("mixed") /\ r \in crushMixedArrayIndices(Items, caller)
  \/ doc[1] = "dict" /\ \/ r = Kept("small", 0 .. Cardinality(DOMAIN Items) - 1, Cardinality(DOMAIN Items), {})
                        \/ r \in CrushObject(Items, caller)

\* So every step is one of three.
LEMMA StepsOfResults ==
  ASSUME [Next]_vars
  PROVE  \/ UNCHANGED vars
         \/ result' = Pending
         \/ Outcome(result') /\ UNCHANGED <<caller, doc>>
<1>1. CASE Receive \/ ReceiveMember
  BY <1>1 DEF Receive, ReceiveMember
<1>2. CASE PassSmall
  BY <1>2 DEF PassSmall, Finish, Outcome
<1>3. CASE CrushDicts
  BY <1>3 DEF CrushDicts, Finish, Outcome, LargeArray
<1>4. CASE CrushStrings
  BY <1>4 DEF CrushStrings, Finish, Outcome, LargeArray
<1>5. CASE CrushNumbers
  BY <1>5 DEF CrushNumbers, Finish, Outcome, LargeArray
<1>6. CASE CrushMixed
  BY <1>6 DEF CrushMixed, Finish, Outcome, LargeArray
<1>7. CASE CrushKeys
  BY <1>7 DEF CrushKeys, Finish, Outcome
<1> QED
  BY <1>1, <1>2, <1>3, <1>4, <1>5, <1>6, <1>7 DEF Next

\* An array is of one type when all its items are.
LEMMA OneType ==
  ASSUME NEW items \in Seq(Given), NEW kind, kind \in {"dict", "str", "number"},
         classifyArray(items) = kind
  PROVE  \A i \in DOMAIN items : items[i][1] = kind
<1> DEFINE kinds == {items[i][1] : i \in DOMAIN items}
           one == CHOOSE k \in kinds : TRUE
<1>1. classifyArray(items) = IF Cardinality(kinds) = 1 /\ kinds \subseteq {"dict", "str", "number"}
                             THEN one ELSE "mixed"
  BY Zenon DEF classifyArray
<1>2. IsFiniteSet(kinds)
  <2>1. PICK n \in Nat : DOMAIN items = 1 .. n
    BY ItemsAreValues
  <2> DEFINE f == [i \in 1 .. n |-> items[i][1]]
  <2>2. IsFiniteSet(1 .. n)
    BY FS_Interval
  <2>3. IsFiniteSet({f[i] : i \in 1 .. n})
    <3> HIDE DEF f
    <3> QED
      BY <2>2, ImageFinite
  <2>4. {f[i] : i \in 1 .. n} = kinds
    BY <2>1
  <2> QED
    BY <2>3, <2>4
<1> HIDE DEF kinds
<1>3. Cardinality(kinds) = 1 /\ kind = one
  BY <1>1
<1>4. PICK k : kinds = {k}
  BY <1>2, <1>3, FS_Singleton
<1>5. kind = k
  BY <1>3, <1>4
<1> QED
  BY <1>4, <1>5 DEF kinds

\* What is known of every outcome of a well-formed document.
LEMMA OutcomesFit ==
  ASSUME WellFormed, NEW r, Outcome(r)
  PROVE  /\ FirstPct + LastPct <= 50 /\ MinItemsKept >= 2 /\ MaxItemsAfterCrush >= 2 => Fits(r)
         /\ doc[1] = "array" /\ r.how \in Prioritised =>
              /\ Bare(Items) \in Seq(Rows)
              /\ Len(Items) \in Nat /\ r.size \in Nat /\ r.size < Len(Items)
              /\ Len(Bare(Items)) = Len(Items) /\ Len(Items) >= MinItemsToAnalyze
<1>b. caller.bias \in Nat
  BY CrusherAssumption DEF WellFormed
<1>1. CASE doc[1] = "array"
  <2>1. Items \in Seq(Given) /\ Len(Items) \in Nat /\ Len(Bare(Items)) = Len(Items)
    BY <1>1, ItemsAreValues DEF WellFormed, Documents
  <2>2. CASE r = Kept("small", Positions(Items), Len(Items), {})
    <3>1. Cardinality(Positions(Items)) = Len(Items)
      BY <2>1, PositionsFinite
    <3> QED
      BY <2>1, <2>2, <3>1 DEF Fits, Kept, Prioritised
  <2>3. CASE LargeArray("dict") /\ r \in CrushArray(Items, caller)
    <3>a. \A i \in DOMAIN Items : Items[i][1] = "dict"
      BY <2>1, <2>3, OneType DEF LargeArray
    <3>b. Bare(Items) \in Seq(Rows)
      BY <2>1, <3>a, RowsOfDicts
    <3>1. Fits(r) /\ (r.how \in Prioritised => r.size \in Nat /\ r.size < Len(Items))
      BY <1>b, <2>1, <2>3, <3>a, DictsFit
    <3>2. Len(Items) >= MinItemsToAnalyze
      BY <2>3 DEF LargeArray
    <3> QED
      BY <2>1, <3>b, <3>1, <3>2
  <2>4. CASE r \in CrushStringArray(Items, caller)
    BY <1>b, <2>1, <2>4, StringsFit DEF Prioritised
  <2>5. CASE r \in crushNumberArrayIndices(Items, caller)
    BY <1>b, <2>1, <2>5, NumbersFit DEF Prioritised
  <2>6. CASE r \in crushMixedArrayIndices(Items, caller)
    BY <2>1, <2>6, MixedFits DEF Prioritised
  <2> QED
    BY <1>1, <2>2, <2>3, <2>4, <2>5, <2>6 DEF Outcome
<1>2. CASE doc[1] = "dict"
  <2>1. IsFiniteSet(DOMAIN Items) /\ DOMAIN Items \subseteq DOMAIN Text
        /\ \A f \in DOMAIN Items : IsInner(Items[f])
    BY <1>2 DEF WellFormed, Documents
  <2>2. CASE r = Kept("small", 0 .. Cardinality(DOMAIN Items) - 1, Cardinality(DOMAIN Items), {})
    <3>1. PICK m \in Nat : m = Cardinality(DOMAIN Items)
      BY <2>1, FS_CardinalityType
    <3>2. Cardinality(0 .. m - 1) = m
      BY PlacesFinite
    <3> QED
      BY <1>2, <2>2, <3>1, <3>2 DEF Fits, Kept
  <2>3. CASE r \in CrushObject(Items, caller)
    BY <1>2, <1>b, <2>1, <2>3, ObjectFits
  <2> QED
    BY <1>2, <2>2, <2>3 DEF Outcome
<1> QED
  BY <1>1, <1>2 DEF Outcome

\* Plans exceed their budget only by what may not be dropped.  Of objects this holds
\* when the first and the last keys are together at most half of the budget, and the
\* least and the greatest budget are two or more: they are 30 and 15 %, 3 and 15 in
\* the code.
THEOREM BudgetsHold ==
  ASSUME FirstPct + LastPct <= 50, MinItemsKept >= 2, MaxItemsAfterCrush >= 2
  PROVE  Spec => []WithinBudget
<1>f. ASSUME result = Pending \/ Fits(result) PROVE WithinBudget
  BY <1>f DEF WithinBudget, Fits, Done, Prioritised
<1>g. ASSUME WithinBudget PROVE result = Pending \/ Fits(result)
  BY <1>g DEF WithinBudget, Fits, Done, Prioritised
<1>1. Init => WithinBudget
  BY <1>f DEF Init
<1>2. WellFormed /\ WithinBudget /\ [Next]_vars => WithinBudget'
  <2> SUFFICES ASSUME WellFormed, WithinBudget, [Next]_vars PROVE WithinBudget'
    OBVIOUS
  <2>1. ASSUME result' = Pending \/ Fits(result') PROVE WithinBudget'
    BY <2>1 DEF WithinBudget, Fits, Done, Prioritised, Pending
  <2>2. CASE UNCHANGED vars
    BY <1>g, <2>1, <2>2 DEF vars
  <2>3. CASE Outcome(result')
    BY <2>1, <2>3, OutcomesFit
  <2> QED
    BY <2>1, <2>2, <2>3, StepsOfResults
<1>3. Spec => []WellFormed
  BY WellFormedInvariant
<1> QED
  BY <1>1, <1>2, <1>3, PTL DEF Spec

\* The anchors of an array are as many as their budget says, and no two are the same
\* object, when duplicates are left out and the budget is at least two, one for each
\* end: its limits are 3 and 12, and arrays of less than 5 are left alone.
THEOREM AnchorsAlwaysFit ==
  ASSUME DedupAnchors, MinAnchorSlots >= 2, MaxAnchorSlots >= 2, MinItemsToAnalyze >= 2
  PROVE  Spec => []AnchorsFit
<1>1. Init => AnchorsFit
  BY DEF Init, AnchorsFit, Done
<1>2. WellFormed /\ AnchorsFit /\ [Next]_vars => AnchorsFit'
  <2> SUFFICES ASSUME WellFormed, AnchorsFit, [Next]_vars PROVE AnchorsFit'
    OBVIOUS
  <2>1. ASSUME result' = Pending PROVE AnchorsFit'
    BY <2>1 DEF AnchorsFit, Done, Pending
  <2>2. CASE UNCHANGED vars
    BY <2>2 DEF vars, AnchorsFit, Done, Items
  <2>3. CASE Outcome(result') /\ UNCHANGED <<caller, doc>>
    <3>1. PICK r : r = result'
      OBVIOUS
    <3>2. SUFFICES ASSUME doc[1] = "array", r.how \in Prioritised, NEW p \in Patterns
          PROVE  LET anchors == SelectAnchors(Bare(Items), r.size, p, caller.query)
                 IN /\ Cardinality(anchors) <= CalculateAnchorBudget(Len(Bare(Items)), r.size)
                    /\ \A i, j \in anchors : i # j => At(Bare(Items), i) # At(Bare(Items), j)
      BY <2>3, <3>1 DEF AnchorsFit, Items, Prioritised
    <3>3. Len(Items) \in Nat /\ r.size \in Nat /\ r.size < Len(Items)
          /\ Len(Bare(Items)) = Len(Items) /\ Len(Items) >= MinItemsToAnalyze
      BY <2>3, <3>1, <3>2, OutcomesFit
    <3>4. PICK rows : rows = Bare(Items)
      OBVIOUS
    <3>5. PICK n \in Nat : n = Len(rows) /\ n >= 2 /\ r.size < n
      BY <3>3, <3>4, AnalyzerAssumption
    <3>6. CalculateAnchorBudget(n, r.size) >= 2
      <4>1. PICK x : x = (r.size * AnchorBudgetPct) \div 100
        OBVIOUS
      <4>2. ~ (n <= r.size)
        BY <3>3, <3>5
      <4>3. CalculateAnchorBudget(n, r.size) = AtMost(n, AtMost(MaxAnchorSlots, AtLeast(MinAnchorSlots, x)))
        BY <4>1, <4>2, Zenon DEF CalculateAnchorBudget
      <4>4. MinAnchorSlots \in Nat /\ MaxAnchorSlots \in Nat /\ x \in Int
        <5>1. PICK y \in Int : y = r.size * AnchorBudgetPct
          BY <3>3, AnchorAssumption
        <5> QED
          BY <4>1, <5>1, AnchorAssumption
      <4>5. AtLeast(MinAnchorSlots, x) \in Int /\ AtLeast(MinAnchorSlots, x) >= 2
        BY <4>4 DEF AtLeast
      <4>6. PICK y \in Int : y = AtLeast(MinAnchorSlots, x) /\ y >= 2
        BY <4>5
      <4>7. PICK z \in Int : z = AtMost(MaxAnchorSlots, y) /\ z >= 2
        BY <4>4, <4>6 DEF AtMost
      <4>8. AtMost(n, z) >= 2
        BY <3>5, <4>7 DEF AtMost
      <4> QED
        BY <4>3, <4>6, <4>7, <4>8
    <3>7. LET anchors == SelectAnchors(rows, r.size, p, caller.query)
          IN /\ Cardinality(anchors) <= CalculateAnchorBudget(n, r.size)
             /\ \A i, j \in anchors : i # j => At(rows, i) # At(rows, j)
      <4>1. rows \in Seq(Rows) /\ r.size < Len(rows)
        BY <2>3, <3>1, <3>2, <3>3, <3>4, OutcomesFit
      <4>2. LET anchors == SelectAnchors(rows, r.size, p, caller.query)
                budget  == CalculateAnchorBudget(Len(rows), r.size)
            IN /\ budget >= 2 => Cardinality(anchors) <= budget
               /\ DedupAnchors => \A i, j \in anchors : i # j => At(rows, i) # At(rows, j)
        BY <3>3, <4>1, AnchorsAreFew
      <4> QED
        BY <3>5, <3>6, <4>2
    <3> QED
      BY <3>4, <3>5, <3>7
  <2> QED
    BY <2>1, <2>2, <2>3, StepsOfResults
<1>3. Spec => []WellFormed
  BY WellFormedInvariant
<1> QED
  BY <1>1, <1>2, <1>3, PTL DEF Spec

-----------------------------------------------------------------------------
(* Alarms *)

\* A text is alarming when it is an error, numbers, booleans and nulls never are.
LEMMA AlarmingKinds ==
  ASSUME NEW v
  PROVE  /\ Alarming(v) /\ v[1] = "str" => Text[v[2]].alarm
         /\ Alarming(v) => v[1] \in {"str", "list", "dict"}
  BY DEF Alarming, TextIn

\* The items of one kind: how many come before, and which they are.
OfType(items, kind)    == Picked(items, {i \in DOMAIN items : items[i][1] = kind})
Rank(items, kind, i)   == Cardinality({j \in Positions(items) : j < i /\ At(items, j)[1] = kind})

\* The group of a kind is an array of such items, in which each has its rank.
LEMMA GroupRanks ==
  ASSUME NEW items \in Seq(Given), NEW kind
  PROVE  /\ OfType(items, kind) \in Seq(Given)
         /\ \A q \in DOMAIN OfType(items, kind) : OfType(items, kind)[q][1] = kind
         /\ \A i \in Positions(items) : At(items, i)[1] = kind =>
              /\ Rank(items, kind, i) \in Positions(OfType(items, kind))
              /\ At(OfType(items, kind), Rank(items, kind, i)) = At(items, i)
<1> DEFINE S == {i \in DOMAIN items : items[i][1] = kind}
           T == {g \in Given : g[1] = kind}
<1>1. PICK n \in Nat : n = Len(items) /\ DOMAIN items = 1 .. n /\ \A i \in 1 .. n : items[i] \in Given
  <2>1. Len(items) \in Nat /\ DOMAIN items = 1 .. Len(items)
    BY ItemsAreValues
  <2> QED
    BY <2>1, ElementOfSeq
<1>2. IsFiniteSet(S) /\ S \subseteq Int /\ S \subseteq 1 .. n /\ \A i \in S : items[i] \in T
  <2>1. IsFiniteSet(1 .. n)
    BY FS_Interval
  <2> QED
    BY <1>1, <2>1, FS_Subset
<1>3. PICK group : group = OfType(items, kind)
  OBVIOUS
<1>4. group = Picked(items, S)
  BY <1>3 DEF OfType
<1>m. PICK m \in Nat : m = Cardinality(S)
  BY <1>2, FS_CardinalityType
<1>5. /\ group \in [1 .. m -> T] /\ Len(group) = m
      /\ \A k \in 1 .. m : group[k] = items[InOrder(S)[k]]
  <2> HIDE DEF S, T
  <2>1. /\ Picked(items, S) \in [1 .. Cardinality(S) -> T] /\ Len(Picked(items, S)) = Cardinality(S)
        /\ \A k \in 1 .. Cardinality(S) : Picked(items, S)[k] = items[InOrder(S)[k]]
    BY <1>2, PickedElements
  <2> QED
    BY <1>4, <1>m, <2>1
<1>6. group \in Seq(Given)
  <2>1. group \in [1 .. m -> Given]
    BY <1>5
  <2> QED
    BY <2>1, SeqDef
<1>7. ASSUME NEW i \in Positions(items), At(items, i)[1] = kind
      PROVE  Rank(items, kind, i) \in Positions(group) /\ At(group, Rank(items, kind, i)) = At(items, i)
  <2>1. i \in 0 .. n - 1 /\ i + 1 \in S /\ Positions(items) = 0 .. n - 1
    BY <1>1, <1>7 DEF Positions, At
  <2>2. PICK x \in S : x = i + 1
    BY <2>1
  <2>3. PICK k \in 1 .. m : InOrder(S)[k] = x /\ Cardinality({j \in S : j < x}) = k - 1
    <3> HIDE DEF S
    <3>1. /\ \A k \in 1 .. Cardinality(S) :
               InOrder(S)[k] \in S /\ Cardinality({j \in S : j < InOrder(S)[k]}) = k - 1
          /\ \A y \in S : \E k \in 1 .. Cardinality(S) : InOrder(S)[k] = y
      BY <1>2, InOrderLists
    <3>2. PICK k \in 1 .. m : InOrder(S)[k] = x
      BY <1>m, <3>1
    <3>3. Cardinality({j \in S : j < InOrder(S)[k]}) = k - 1
      BY <1>m, <3>1
    <3> QED
      BY <3>2, <3>3
  <2> DEFINE A == {j \in S : j < x}
             B == {j \in Positions(items) : j < i /\ At(items, j)[1] = kind}
             f == [j \in A |-> j - 1]
             g == [j \in B |-> j + 1]
  <2>4. {f[j] : j \in A} = B /\ {g[j] : j \in B} = A
    <3>1. \A j \in A : j - 1 \in B /\ j = (j - 1) + 1
      BY <1>1, <2>1, <2>2 DEF At
    <3>2. \A j \in B : j + 1 \in A /\ j = (j + 1) - 1
      BY <1>1, <2>1, <2>2 DEF At
    <3> HIDE DEF A, B
    <3> QED
      BY <3>1, <3>2
  <2>5. IsFiniteSet(A)
    BY <1>2, FS_Subset
  <2> HIDE DEF A, f, g, B
  <2>6. IsFiniteSet(B) /\ Cardinality(B) <= Cardinality(A)
    BY <2>4, <2>5, ImageFinite
  <2>7. Cardinality(A) <= Cardinality(B)
    BY <2>4, <2>6, ImageFinite
  <2>8. Cardinality(A) \in Nat /\ Cardinality(B) \in Nat
    BY <2>5, <2>6, FS_CardinalityType
  <2>9. Rank(items, kind, i) = k - 1
    BY <2>3, <2>6, <2>7, <2>8 DEF Rank, A, B
  <2>10. group[k] = items[i + 1]
    BY <1>5, <2>2, <2>3
  <2> QED
    BY <1>5, <2>9, <2>10 DEF Positions, At
<1> QED
  BY <1>3, <1>5, <1>6, <1>7

\* Of the items of one kind all that are alarming are kept, of objects if the
\* constraints ask for them.
LEMMA GroupsKeep ==
  ASSUME NEW items \in Seq(Given), NEW c, c.bias \in Nat, NEW kind,
         NEW G \in CrushGroup(items, kind, c), NEW q \in Positions(OfType(items, kind)),
         Alarming(At(OfType(items, kind), q)), c.alarms \/ kind # "dict"
  PROVE  q \in G
<1> DEFINE group == OfType(items, kind)
           n == Len(group)
           nums == Bare(group)
           outliers == {i \in Positions(group) : Far(At(nums, i), nums)}
           equals(S) == {i \in Positions(group) : \E j \in S : At(group, j) = At(group, i)}
           Dicts == {equals(r.kept) : r \in CrushArray(group, c)}
           Strings == {equals(r.kept) : r \in CrushStringArray(group, c)}
           Numbers == {Ends(n, ComputeKSplit(k).first, ComputeKSplit(k).last)
                         \union outliers : k \in Totals(group, c.bias)}
<1>1. CrushGroup(items, kind, c)
        = IF n < MinItemsToAnalyze THEN {Positions(group)}
          ELSE CASE kind = "dict"   -> Dicts
                 [] kind = "str"    -> Strings
                 [] kind = "number" -> Numbers
                 [] OTHER           -> {Positions(group)}
  BY Zenon DEF CrushGroup, OfType
<1>2. group \in Seq(Given) /\ \A i \in DOMAIN group : group[i][1] = kind
  BY GroupRanks
<1>3. n \in Nat /\ DOMAIN group = 1 .. n
  BY <1>2, ItemsAreValues
<1>4. PICK v : v = At(group, q) /\ Alarming(v) /\ v[1] = kind
  <2>1. q + 1 \in 1 .. n
    BY <1>3 DEF Positions
  <2> QED
    BY <1>2, <1>3, <2>1 DEF At
<1>5. kind \in {"str", "list", "dict"}
  BY <1>4, AlarmingKinds
<1>6. CASE G = Positions(group)
  BY <1>6
<1>7. CASE kind = "dict" /\ G \in Dicts
  <2>1. PICK r \in CrushArray(group, c) : G = equals(r.kept)
    BY <1>7
  <2>2. Shown(Bare(group), applyConstraints(Bare(group), c), r.kept)
    <3> HIDE DEF group
    <3> QED
      BY <1>2, <1>7, DictsFit
  <2>3. /\ Bare(group) \in Seq(Rows) /\ Len(Bare(group)) = n
        /\ \A i \in Positions(group) : At(group, i) = <<"dict", At(Bare(group), i)>>
    <3> HIDE DEF group
    <3> QED
      BY <1>2, <1>7, RowsOfDicts DEF n
  <2>4. q \in applyConstraints(Bare(group), c)
    <3>1. Positions(Bare(group)) = Positions(group)
      BY <2>3 DEF Positions
    <3>2. q \in DetectErrorItems(Bare(group))
      <4>1. PICK row : row = At(Bare(group), q) /\ v = <<"dict", row>>
        BY <1>4, <2>3
      <4>2. HasAlarm(At(Bare(group), q))
        BY <1>4, <4>1, Zenon DEF HasAlarm
      <4>3. q \in Positions(Bare(group))
        BY <3>1
      <4> HIDE DEF group
      <4> QED
        BY <4>2, <4>3 DEF DetectErrorItems
    <3> QED
      BY <1>7, <3>2 DEF applyConstraints
  <2>5. PICK j \in r.kept : j = q \/ (j \in Positions(Bare(group)) /\ At(Bare(group), j) = At(Bare(group), q))
    BY <2>2, <2>4 DEF Shown
  <2>6. j = q \/ (j \in Positions(group) /\ At(group, j) = At(group, q))
    <3>1. Positions(Bare(group)) = Positions(group)
      BY <2>3 DEF Positions
    <3>2. q \in Positions(group)
      OBVIOUS
    <3>3. CASE j \in Positions(Bare(group)) /\ At(Bare(group), j) = At(Bare(group), q)
      <4>1. j \in Positions(group)
        BY <3>1, <3>3
      <4>2. At(group, j) = <<"dict", At(Bare(group), j)>> /\ At(group, q) = <<"dict", At(Bare(group), q)>>
        BY <2>3, <3>2, <4>1
      <4>3. At(group, j) = At(group, q)
        BY <3>3, <4>2, Zenon
      <4> QED
        BY <4>1, <4>3
    <3> HIDE DEF group
    <3> QED
      BY <2>5, <3>3
  <2> HIDE DEF group
  <2> QED
    BY <2>1, <2>5, <2>6 DEF group
<1>8. CASE kind = "str" /\ G \in Strings
  <2>1. PICK r \in CrushStringArray(group, c) : G = equals(r.kept)
    BY <1>8
  <2>2. \A i \in Positions(group) : Text[At(Bare(group), i)].alarm => i \in r.kept
    <3> HIDE DEF group
    <3> QED
      BY <1>2, StringsFit
  <2>3. At(Bare(group), q) = v[2]
    <3>1. q + 1 \in 1 .. n
      BY <1>3 DEF Positions
    <3>2. Bare(group)[q + 1] = group[q + 1][2]
      BY <1>2, <1>3, <3>1, ItemsAreValues
    <3> QED
      BY <1>4, <3>2 DEF At
  <2>4. Text[v[2]].alarm
    BY <1>4, <1>8, AlarmingKinds
  <2>5. q \in r.kept
    BY <2>2, <2>3, <2>4
  <2>6. q \in Positions(group)
    OBVIOUS
  <2> HIDE DEF group
  <2> QED
    BY <2>1, <2>5, <2>6
<1> HIDE DEF n, Dicts, Strings, Numbers
<1>9. G = Positions(group) \/ (kind = "dict" /\ G \in Dicts) \/ (kind = "str" /\ G \in Strings)
  BY <1>1, <1>5
<1> QED
  BY <1>6, <1>7, <1>8, <1>9

\* So of an array of several types all alarming items are kept.
LEMMA MixedKeeps ==
  ASSUME NEW items \in Seq(Given), NEW c, c.bias \in Nat, NEW r \in crushMixedArrayIndices(items, c),
         NEW i \in Positions(items), Alarming(At(items, i)), c.alarms \/ At(items, i)[1] # "dict"
  PROVE  i \in r.kept
<1> DEFINE pass == Kept("passthrough", Positions(items), Len(items), {})
           kinds == {items[j][1] : j \in DOMAIN items}
           groups == [k \in kinds |-> CrushGroup(items, k, c)]
<1>1. r = pass \/ r \in Together(items, groups)
  <2>1. crushMixedArrayIndices(items, c) \in {{pass}, Together(items, groups)}
    BY Zenon DEF crushMixedArrayIndices
  <2> HIDE DEF pass, groups
  <2> QED
    BY <2>1
<1>2. DOMAIN groups = kinds /\ \A k \in kinds : groups[k] = CrushGroup(items, k, c)
  OBVIOUS
<1>3. CASE r = pass
  BY <1>3 DEF Kept
<1>4. CASE r \in Together(items, groups)
  <2> HIDE DEF groups
  <2>1. PICK p : /\ r = Kept("mixed", UNION {Regroup(items, k, p[k]) : k \in DOMAIN groups}, Len(items), {})
                 /\ \A k \in DOMAIN groups : p[k] \in groups[k]
    <3> DEFINE picks == {p \in [DOMAIN groups -> UNION {groups[k] : k \in DOMAIN groups}] :
                           \A k \in DOMAIN groups : p[k] \in groups[k]}
               Of(p) == Kept("mixed", UNION {Regroup(items, k, p[k]) : k \in DOMAIN groups}, Len(items), {})
    <3>1. Together(items, groups) = {Of(p) : p \in picks}
      BY Zenon DEF Together
    <3> HIDE DEF Of
    <3>2. PICK p \in picks : r = Of(p)
      BY <1>4, <3>1
    <3> QED
      BY <3>2 DEF Of
  <2>2. PICK kind : kind = At(items, i)[1]
    OBVIOUS
  <2>3. kind \in kinds
    <3>1. i + 1 \in DOMAIN items
      BY ItemsAreValues DEF Positions
    <3> QED
      BY <2>2, <3>1 DEF At
  <2>4. PICK G : G = p[kind] /\ G \in CrushGroup(items, kind, c)
    BY <1>2, <2>1, <2>3
  <2>5. PICK q : /\ q = Rank(items, kind, i) /\ q \in Positions(OfType(items, kind))
                 /\ At(OfType(items, kind), q) = At(items, i)
    BY <2>2, GroupRanks
  <2>6. q \in G
    <3>1. Alarming(At(OfType(items, kind), q)) /\ (c.alarms \/ kind # "dict")
      BY <2>2, <2>5
    <3> QED
      BY <2>4, <2>5, <3>1, GroupsKeep
  <2>7. i \in Regroup(items, kind, G)
    BY <2>2, <2>5, <2>6 DEF Regroup, Rank
  <2>8. r.kept = UNION {Regroup(items, k, p[k]) : k \in DOMAIN groups}
    BY <2>1 DEF Kept
  <2> QED
    BY <1>2, <2>3, <2>4, <2>7, <2>8
<1> QED
  BY <1>1, <1>3, <1>4

\* What AlarmsSurvive says of an outcome.
Survive(r) == \A i \in Alarms : \E j \in r.kept : SameAs(i, j)

\* Every outcome of a well-formed document shows all alarms.
LEMMA OutcomesSurvive == ASSUME WellFormed, NEW r, Outcome(r) PROVE Survive(r)
<1>b. caller.bias \in Nat
  BY CrusherAssumption DEF WellFormed
<1>0. ASSUME Alarms \subseteq r.kept PROVE Survive(r)
  BY <1>0 DEF Survive, SameAs
<1>1. CASE doc[1] = "array"
  <2> DEFINE own == {i \in Positions(Items) :
                       Alarming(At(Items, i)) /\ (caller.alarms \/ At(Items, i)[1] # "dict")}
  <2>1. Items \in Seq(Given) /\ Len(Items) \in Nat /\ Len(Bare(Items)) = Len(Items)
        /\ DOMAIN Items = 1 .. Len(Items)
    BY <1>1, ItemsAreValues DEF WellFormed, Documents
  <2>2. doc[1] # "dict"
    BY <1>1
  <2>3. /\ classifyArray(Items) # "dict" => Alarms = own
        /\ Alarms \subseteq own \union DetectStructuralOutliers(Bare(Items))
        /\ ~ caller.alarms => Alarms = own
    BY <2>2 DEF Alarms
  <2>4. CASE r = Kept("small", Positions(Items), Len(Items), {})
    <3>1. Positions(Bare(Items)) = Positions(Items)
      BY <2>1 DEF Positions
    <3>2. Alarms \subseteq Positions(Items)
      BY <2>3, <3>1, CriticalPlaces
    <3> QED
      BY <1>0, <2>4, <3>2 DEF Kept
  <2>5. CASE LargeArray("dict") /\ r \in CrushArray(Items, caller)
    <3>a. \A i \in DOMAIN Items : Items[i][1] = "dict"
      BY <2>1, <2>5, OneType DEF LargeArray
    <3>b. PICK rows : rows = Bare(Items) /\ Len(rows) = Len(Items)
                      /\ \A i \in Positions(Items) : At(Items, i) = <<"dict", At(rows, i)>>
      BY <2>1, <3>a, RowsOfDicts
    <3>c. Shown(rows, applyConstraints(rows, caller), r.kept)
      BY <1>b, <2>1, <2>5, <3>a, <3>b, DictsFit
    <3>d. Alarms \subseteq applyConstraints(rows, caller)
      <4>1. own \subseteq DetectErrorItems(rows)
        BY <3>b DEF DetectErrorItems, HasAlarm, Positions
      <4>2. ~ caller.alarms => own = {}
        BY <3>b
      <4> HIDE DEF own
      <4> QED
        BY <2>3, <3>b, <4>1, <4>2 DEF applyConstraints
    <3>e. ASSUME NEW i \in Alarms PROVE \E j \in r.kept : SameAs(i, j)
      <4>1. PICK j \in r.kept : j = i \/ (j \in Positions(rows) /\ At(rows, j) = At(rows, i))
        BY <3>c, <3>d DEF Shown
      <4>2. i \in Positions(Items)
        <5>1. applyConstraints(rows, caller) \subseteq Positions(rows)
          BY ConstraintsAreCritical, CriticalPlaces
        <5> QED
          BY <3>b, <3>d, <5>1 DEF Positions
      <4> QED
        BY <1>1, <3>b, <4>1, <4>2 DEF SameAs, Positions
    <3> QED
      BY <3>e DEF Survive
  <2>6. CASE LargeArray("str") /\ r \in CrushStringArray(Items, caller)
    <3>a. \A i \in DOMAIN Items : Items[i][1] = "str"
      BY <2>1, <2>6, OneType DEF LargeArray
    <3>b. \A i \in Positions(Items) : Text[At(Bare(Items), i)].alarm => i \in r.kept
      BY <1>b, <2>1, <2>6, StringsFit
    <3>c. ASSUME NEW i \in own PROVE i \in r.kept
      <4>1. i + 1 \in 1 .. Len(Items) /\ i \in Positions(Items)
        BY <2>1 DEF Positions
      <4>2. Bare(Items)[i + 1] = Items[i + 1][2]
        BY <2>1, <4>1, ItemsAreValues
      <4>3. Text[Items[i + 1][2]].alarm
        BY <2>1, <3>a, <4>1, AlarmingKinds DEF At
      <4> QED
        BY <3>b, <4>1, <4>2, <4>3 DEF At
    <3>d. Alarms = own
      BY <2>3, <2>6 DEF LargeArray
    <3> QED
      BY <1>0, <3>c, <3>d
  <2>7. CASE LargeArray("number") /\ r \in crushNumberArrayIndices(Items, caller)
    <3>a. \A i \in DOMAIN Items : Items[i][1] = "number"
      BY <2>1, <2>7, OneType DEF LargeArray
    <3>b. ASSUME NEW i \in own PROVE FALSE
      <4>1. i + 1 \in DOMAIN Items
        BY <2>1 DEF Positions
      <4> QED
        BY <3>a, <4>1, AlarmingKinds DEF At
    <3>d. Alarms = own
      BY <2>3, <2>7 DEF LargeArray
    <3> QED
      BY <1>0, <3>b, <3>d
  <2>8. CASE LargeArray("mixed") /\ r \in crushMixedArrayIndices(Items, caller)
    <3>1. \A i \in own : i \in r.kept
      BY <1>b, <2>1, <2>8, MixedKeeps
    <3>2. Alarms = own
      BY <2>3, <2>8 DEF LargeArray
    <3> QED
      BY <1>0, <3>1, <3>2
  <2> QED
    BY <1>1, <2>4, <2>5, <2>6, <2>7, <2>8 DEF Outcome
<1>2. CASE doc[1] = "dict"
  <2>1. IsFiniteSet(DOMAIN Items) /\ DOMAIN Items \subseteq DOMAIN Text
        /\ \A f \in DOMAIN Items : IsInner(Items[f])
    BY <1>2 DEF WellFormed, Documents
  <2>2. Alarms = {i \in 0 .. Len(KeysOf(Items)) - 1 : Alarming(Items[KeysOf(Items)[i + 1]])}
    BY <1>2 DEF Alarms
  <2>3. CASE r = Kept("small", 0 .. Cardinality(DOMAIN Items) - 1, Cardinality(DOMAIN Items), {})
    <3>1. PICK m \in Nat, n \in Nat : m = Cardinality(DOMAIN Items) /\ n = Len(KeysOf(Items)) /\ n <= m
      BY <2>1, FS_CardinalityType, KeysAreFields
    <3>2. Alarms \subseteq 0 .. m - 1
      BY <2>2, <3>1
    <3> QED
      BY <1>0, <2>3, <3>1, <3>2 DEF Kept
  <2>4. CASE r \in CrushObject(Items, caller)
    <3>1. \A i \in 0 .. Len(KeysOf(Items)) - 1 : Alarming(Items[KeysOf(Items)[i + 1]]) => i \in r.kept
      BY <1>b, <2>1, <2>4, ObjectFits
    <3> QED
      BY <1>0, <2>2, <3>1
  <2> QED
    BY <1>2, <2>3, <2>4 DEF Outcome
<1> QED
  BY <1>1, <1>2 DEF Outcome

\* Whatever is dropped of a document, an error or an outlier that the caller's
\* constraints name is shown by what is kept: itself or an equal of it, whatever the
\* limits and the budgets.
THEOREM AlarmsAlwaysSurvive == Spec => []AlarmsSurvive
<1>1. Init => AlarmsSurvive
  BY DEF Init, AlarmsSurvive, Done
<1>2. WellFormed /\ AlarmsSurvive /\ [Next]_vars => AlarmsSurvive'
  <2> SUFFICES ASSUME WellFormed, AlarmsSurvive, [Next]_vars PROVE AlarmsSurvive'
    OBVIOUS
  <2>1. ASSUME result' = Pending PROVE AlarmsSurvive'
    BY <2>1 DEF AlarmsSurvive, Done, Pending
  <2>2. ASSUME UNCHANGED <<caller, doc>> PROVE Alarms' = Alarms /\ \A i, j : SameAs(i, j)' = SameAs(i, j)
    BY <2>2 DEF Alarms, SameAs, Items
  <2>3. CASE UNCHANGED vars
    BY <2>2, <2>3 DEF vars, AlarmsSurvive, Done
  <2>4. CASE Outcome(result') /\ UNCHANGED <<caller, doc>>
    <3>1. Survive(result')
      BY <2>4, OutcomesSurvive
    <3> QED
      BY <2>2, <2>4, <3>1 DEF AlarmsSurvive, Survive
  <2> QED
    BY <2>1, <2>3, <2>4, StepsOfResults
<1>3. Spec => []WellFormed
  BY WellFormedInvariant
<1> QED
  BY <1>1, <1>2, <1>3, PTL DEF Spec

-----------------------------------------------------------------------------
(* Reading a table back *)

\* What a leaf is, with what it holds.
LEMMA LeafForms ==
  ASSUME NEW v, IsLeaf(v)
  PROVE  \/ v = Null
         \/ v = <<"str", v[2]>> /\ v[2] \in DOMAIN Text
         \/ v = <<"list", v[2]>>
         \/ v = <<"number", v[2]>>
         \/ v = <<"bool", v[2]>> /\ v[2] \in BOOLEAN
  BY DEF IsLeaf, Leaf

\* A value under a tag that tells its type.
Fitted(v, tag) == v[1] # "list" /\ (v[1] = "bool" <=> tag = "bool")

\* What is read from each kind of cell.
LEMMA Readings ==
  ASSUME NEW x, NEW tag
  PROVE  /\ Read(<<"text", "">>, tag) = Null
         /\ x # "" /\ tag # "bool" => Read(<<"text", x>>, tag) = <<"str", x>>
         /\ Read(<<"text", "true">>, "bool") = <<"bool", TRUE>>
         /\ Read(<<"text", "false">>, "bool") = <<"bool", FALSE>>
         /\ Read(<<"whole", x>>, tag) = <<"number", x>>
         /\ Read(<<"point", x>>, tag) = <<"number", x>>
         /\ Read(<<"json", x>>, tag) = x
<1>1. Read(<<"text", "">>, tag) = Null
  BY DEF Read
<1>2. x # "" /\ tag # "bool" => Read(<<"text", x>>, tag) = <<"str", x>>
  BY DEF Read
<1>3. Read(<<"text", "true">>, "bool") = <<"bool", TRUE>>
  BY DEF Read
<1>4. Read(<<"text", "false">>, "bool") = <<"bool", FALSE>>
  BY DEF Read
<1>5. Read(<<"whole", x>>, tag) = <<"number", x>>
  BY DEF Read
<1>6. Read(<<"point", x>>, tag) = <<"number", x>>
  BY DEF Read
<1>7. Read(<<"json", x>>, tag) = x
  BY DEF Read
<1> QED
  BY <1>1, <1>2, <1>3, <1>4, <1>5, <1>6, <1>7

\* A leaf is read as it is from the cell that is printed of it, a blank one as null.
LEMMA LeafReads ==
  ASSUME NEW v, IsLeaf(v), NEW tag, v # Null => Fitted(v, tag)
  PROVE  Blankish(v) = Read(writeScalarCSV(v, tag), tag)
<1>1. CASE v = Null
  <2>1. writeScalarCSV(v, tag) = <<"text", "">>
    BY <1>1 DEF writeScalarCSV, Blanks, Null
  <2>2. Blankish(v) = Null
    BY <1>1 DEF Blankish, Blanks
  <2> QED
    BY <2>1, <2>2, Readings
<1>2. CASE v[1] = "str" /\ v = <<"str", v[2]>> /\ v[2] \in DOMAIN Text
  <2>1. PICK s \in DOMAIN Text : v = <<"str", s>>
    BY <1>2
  <2>2. v \notin Blanks /\ tag # "bool"
    BY <2>1 DEF Blanks, Missing, Null, Fitted
  <2>3. CASE Text[s].length = 0
    <3>1. writeScalarCSV(v, tag) = <<"text", "">>
      BY <2>1, <2>2, <2>3 DEF writeScalarCSV
    <3>2. Blankish(v) = Null
      BY <2>1, <2>3 DEF Blankish
    <3> QED
      BY <3>1, <3>2, Readings
  <2>4. CASE Text[s].length # 0
    <3>1. writeScalarCSV(v, tag) = <<"text", s>>
      BY <2>1, <2>2, <2>4 DEF writeScalarCSV
    <3>2. Blankish(v) = v
      BY <2>1, <2>2, <2>4 DEF Blankish
    <3>3. s # ""
      BY <2>4, CompactionAssumption
    <3>4. Read(<<"text", s>>, tag) = <<"str", s>>
      BY <2>2, <3>3, Readings
    <3> QED
      BY <2>1, <3>1, <3>2, <3>4
  <2> QED
    BY <2>3, <2>4
<1>3. CASE v[1] = "number" /\ v = <<"number", v[2]>>
  <2>1. PICK x : v = <<"number", x>>
    BY <1>3
  <2>2. v \notin Blanks
    BY <2>1 DEF Blanks, Missing, Null
  <2>3. PICK kind \in {"whole", "point"} : writeScalarCSV(v, tag) = <<kind, x>>
    BY <2>1, <2>2 DEF writeScalarCSV
  <2>4. Blankish(v) = v
    BY <2>1, <2>2 DEF Blankish
  <2>5. Read(<<kind, x>>, tag) = <<"number", x>>
    BY <2>3 DEF Read
  <2> QED
    BY <2>1, <2>3, <2>4, <2>5
<1>4. CASE v[1] = "bool" /\ v = <<"bool", v[2]>> /\ v[2] \in BOOLEAN
  <2>1. PICK b \in BOOLEAN : v = <<"bool", b>>
    BY <1>4
  <2>2. v \notin Blanks /\ tag = "bool"
    BY <2>1 DEF Blanks, Missing, Null, Fitted
  <2>3. PICK s \in {"true", "false"} : writeScalarCSV(v, tag) = <<"text", s>> /\ (b <=> s = "true")
    BY <2>1, <2>2 DEF writeScalarCSV
  <2>4. Blankish(v) = v
    BY <2>1, <2>2 DEF Blankish
  <2>6. Read(<<"text", s>>, tag) = <<"bool", s = "true">>
    BY <2>2, <2>3 DEF Read
  <2>7. (s = "true") = b
    BY <2>3
  <2> QED
    BY <2>1, <2>3, <2>4, <2>6, <2>7
<1>5. v # Null => v[1] # "list"
  BY DEF Fitted
<1> QED
  BY <1>1, <1>2, <1>3, <1>4, <1>5, LeafForms

\* An object without lists is read as it is from its JSON.
LEMMA ObjectReads ==
  ASSUME NEW v, IsObject(v, IsLeaf), \A k \in DOMAIN v[2] : v[2][k][1] # "list", NEW tag
  PROVE  Blankish(v) = Read(writeScalarCSV(v, tag), tag)
<1>1. PICK row : row = [k \in DOMAIN v[2] |-> v[2][k]]
  OBVIOUS
<1>2. v = <<"dict", row>>
  BY <1>1 DEF IsObject
<1>3. v[1] = "dict" /\ v[2] = row
  BY <1>2
<1>4. v \notin Blanks
  BY <1>3 DEF Blanks, Missing, Null
<1> DEFINE seen(w) == IF w[1] = "list" THEN EmptyObject ELSE w
<1>5. \A k \in DOMAIN v[2] : seen(v[2][k]) = v[2][k]
  OBVIOUS
<1>6. Marshalled(v) = <<"dict", [k \in DOMAIN v[2] |-> seen(v[2][k])]>>
  BY <1>3 DEF Marshalled
<1> HIDE DEF seen
<1>7. [k \in DOMAIN v[2] |-> seen(v[2][k])] = row
  BY <1>1, <1>5
<1>8. Marshalled(v) = v
  BY <1>2, <1>6, <1>7
<1>9. writeScalarCSV(v, tag) = <<"json", v>>
  BY <1>3, <1>4, <1>8 DEF writeScalarCSV
<1>10. Blankish(v) = v
  BY <1>3, <1>4 DEF Blankish
<1> QED
  BY <1>9, <1>10 DEF Read

-----------------------------------------------------------------------------
(* The columns of a table *)

\* Lists that grow by a part at a time, and a list that has the elements of them all.
Grown(u, m, part, T) ==
  /\ u[0] = << >>
  /\ \A i \in 1 .. m : part[i] \in Seq(T) /\ u[i] = u[i - 1] \o part[i]

Holding(list, m, part) ==
  \A i \in 1 .. m : \A j \in 1 .. Len(part[i]) : \E c \in 1 .. Len(list) : list[c] = part[i][j]

\* The parts of a list of lists are all in it.
LEMMA ListsChain ==
  ASSUME NEW m \in Nat, NEW u, NEW part, NEW T, Grown(u, m, part, T)
  PROVE  u[m] \in Seq(T) /\ Holding(u[m], m, part)
<1> DEFINE Holds(k) == Holding(u[k], k, part)
           S == {k \in 0 .. m : u[k] \in Seq(T) /\ Holds(k)}
<1>5. \A i \in 1 .. m : part[i] \in Seq(T)
  BY DEF Grown
<1>6. u[0] = << >> /\ \A i \in 1 .. m : u[i] = u[i - 1] \o part[i]
  BY DEF Grown
<1> HIDE DEF Holds, S
<1>7. 0 \in S
  <2>1. u[0] \in Seq(T)
    BY <1>6, EmptySeq
  <2>2. Holds(0)
    BY DEF Holds, Holding
  <2>3. 0 \in 0 .. m
    OBVIOUS
  <2> QED
    BY <2>1, <2>2, <2>3 DEF S
<1>8. ASSUME NEW k \in 1 .. m, k - 1 \in S PROVE k \in S
  <2>1. PICK p \in Seq(T) : p = u[k - 1]
    BY <1>8 DEF S
  <2>2. PICK q \in Seq(T) : q = part[k]
    BY <1>5
  <2>3. u[k] = p \o q
    BY <1>6, <2>1, <2>2
  <2>4. PICK a \in Nat : a = Len(p)
    BY <2>1
  <2>5. PICK b \in Nat : b = Len(q)
    BY <2>2
  <2>6. /\ p \o q \in Seq(T) /\ Len(p \o q) = a + b
        /\ \A c \in 1 .. a + b : (p \o q)[c] = IF c <= a THEN p[c] ELSE q[c - a]
    BY <2>4, <2>5, ConcatProperties
  <2>7. ASSUME NEW i \in 1 .. k, NEW j \in 1 .. Len(part[i])
        PROVE  \E c \in 1 .. a + b : (p \o q)[c] = part[i][j]
    <3>1. CASE i = k
      <4>1. j \in 1 .. b
        BY <2>2, <2>5, <3>1
      <4>2. a + j \in 1 .. a + b /\ ~ (a + j <= a) /\ (a + j) - a = j
        BY ONLY <4>1, a \in Nat, b \in Nat
      <4>3. (p \o q)[a + j] = q[j]
        BY <2>6, <4>2
      <4> QED
        BY <2>2, <3>1, <4>2, <4>3
    <3>2. CASE i \in 1 .. k - 1
      <4>1. Holds(k - 1)
        BY <1>8 DEF S
      <4>2. PICK c \in 1 .. Len(u[k - 1]) : u[k - 1][c] = part[i][j]
        BY <3>2, <4>1 DEF Holds, Holding
      <4>3. c \in 1 .. a /\ p[c] = part[i][j]
        BY <2>1, <2>4, <4>2
      <4>4. c \in 1 .. a + b /\ c <= a
        BY ONLY <4>3, a \in Nat, b \in Nat
      <4> QED
        BY <2>6, <4>3, <4>4
    <3>3. i = k \/ i \in 1 .. k - 1
      OBVIOUS
    <3> QED
      BY <3>1, <3>2, <3>3
  <2>8. Len(u[k]) = a + b
    BY <2>3, <2>6
  <2>9. \A i \in 1 .. k : \A j \in 1 .. Len(part[i]) : \E c \in 1 .. a + b : u[k][c] = part[i][j]
    BY <2>3, <2>7
  <2>10. Holds(k)
    BY <2>8, <2>9 DEF Holds, Holding
  <2>11. u[k] \in Seq(T) /\ k \in 0 .. m
    BY <2>3, <2>6
  <2> QED
    BY <2>10, <2>11 DEF S
<1>9. m \in S
  <2>1. 0 .. m \subseteq S
    BY <1>7, <1>8, TurnInduction
  <2> QED
    BY <2>1
<1> QED
  BY <1>9 DEF S, Holds

\* What becomes of the column of the i-th field.
Flat(rows, i) == flattenUniformNested(NewColumn(rows, Fields(rows)[i]))

\* A table has all the columns that its fields become, one after another.
LEMMA CompactLists ==
  ASSUME NEW rows, NEW m \in Nat, m = Len(Fields(rows)), NEW T, \A i \in 1 .. m : Flat(rows, i) \in Seq(T)
  PROVE  /\ Compact(rows) \in Seq(T)
         /\ \A i \in 1 .. m : \A j \in 1 .. Len(Flat(rows, i)) :
              \E c \in 1 .. Len(Compact(rows)) : Compact(rows)[c] = Flat(rows, i)[j]
<1> DEFINE D == Seq(T)
           G(p, i) == p \o Flat(rows, i)
           step == [i \in 1 .. m |-> [p \in D |-> G(p, i)]]
<1>e. PICK e : e = << >> /\ e \in D
  BY EmptySeq
<1> DEFINE F(f) == f = [i \in 0 .. m |-> IF i = 0 THEN e ELSE G(f[i - 1], i)]
<1>1. \A i \in 1 .. m : \A p \in D : G(p, i) \in D
  BY ConcatProperties
<1> HIDE DEF D, G
<1>2. step \in [1 .. m -> [D -> D]] /\ \A i \in 1 .. m : \A p \in D : step[i][p] = G(p, i)
  BY <1>1
<1> HIDE DEF step
<1>3. PICK f \in [0 .. m -> D] : f[0] = e /\ \A i \in 1 .. m : f[i] = step[i][f[i - 1]]
  <2>1. e \in D /\ step \in [1 .. m -> [D -> D]] /\ m \in Nat
    BY <1>e, <1>2
  <2> QED
    BY ONLY <2>1, LoopExists
<1>4. F(f)
  <2>1. \A i \in 1 .. m : f[i - 1] \in D
    OBVIOUS
  <2>2. \A i \in 1 .. m : f[i] = G(f[i - 1], i)
    BY <1>2, <1>3, <2>1
  <2> QED
    BY <1>3, <2>2
<1> DEFINE u == CHOOSE g : F(g)
<1>5. F(u)
  <2> HIDE DEF F
  <2> QED
    BY <1>4, Zenon
<1>6. Compact(rows) = u[m]
  BY <1>e, Zenon DEF Compact, G, Flat
<1> HIDE DEF u
<1>7. u[0] = << >> /\ \A i \in 1 .. m : u[i] = G(u[i - 1], i)
  <2>1. \A i \in 0 .. m : u[i] = IF i = 0 THEN e ELSE G(u[i - 1], i)
    BY <1>5
  <2>2. u[0] = e
    BY <2>1
  <2>3. \A i \in 1 .. m : u[i] = G(u[i - 1], i)
    BY <2>1
  <2> QED
    BY <1>e, <2>2, <2>3
<1> HIDE DEF F
<1> DEFINE part == [i \in 1 .. m |-> Flat(rows, i)]
<1>8. \A i \in 1 .. m : part[i] = Flat(rows, i)
  OBVIOUS
<1>9. Grown(u, m, part, T)
  BY <1>7, <1>8 DEF G, Grown
<1> HIDE DEF part
<1>10. u[m] \in Seq(T) /\ Holding(u[m], m, part)
  BY <1>9, ListsChain
<1>11. \A i \in 1 .. m : \A j \in 1 .. Len(part[i]) : \E c \in 1 .. Len(u[m]) : u[m][c] = part[i][j]
  BY <1>10, Zenon DEF Holding
<1>12. ASSUME NEW i \in 1 .. m, NEW j \in 1 .. Len(Flat(rows, i))
       PROVE  \E c \in 1 .. Len(Compact(rows)) : Compact(rows)[c] = Flat(rows, i)[j]
  <2>1. part[i] = Flat(rows, i)
    BY <1>8
  <2>2. j \in 1 .. Len(part[i])
    BY <2>1
  <2>3. PICK c \in 1 .. Len(u[m]) : u[m][c] = part[i][j]
    BY <1>11, <2>2, Zenon
  <2> QED
    BY <1>6, <2>1, <2>3
<1> QED
  BY <1>6, <1>10, <1>12, Zenon

\* The fields of rows have names in the order, and their values are of a kind.
LEMMA RowsAreNamed ==
  ASSUME NEW row \in Rows
  PROVE  DOMAIN row \subseteq FieldNames /\ \A f \in DOMAIN row : IsInner(row[f])
<1>1. PICK g \in Given : g[1] = "dict" /\ row = g[2]
  BY DEF Rows
<1>2. IsValue(g)
  <2>1. PICK chunk \in Chunks : g \in {chunk[i] : i \in DOMAIN chunk}
    BY Zenon DEF Given
  <2>2. PICK i \in DOMAIN chunk : g = chunk[i]
    BY <2>1, Zenon
  <2>3. \A n \in DOMAIN chunk : IsValue(chunk[n])
    BY CrusherAssumption, Zenon
  <2> QED
    BY <2>2, <2>3, Zenon
<1>3. ~ IsLeaf(g)
  BY <1>1 DEF IsLeaf, Leaf, Null
<1>4. IsObject(g, IsInner)
  BY <1>2, <1>3 DEF IsValue
<1> QED
  BY <1>1, <1>4 DEF IsObject

\* The tag of a column tells whether its values are booleans, when they all are or
\* none is.
TagTells(col, n) ==
  /\ \A i \in 1 .. n : col.cells[i] \notin Blanks
       /\ (\A j \in 1 .. n : col.cells[j] \notin Blanks => col.cells[j][1] = "bool") => col.tag = "bool"
  /\ (\A j \in 1 .. n : col.cells[j] \notin Blanks => col.cells[j][1] # "bool") => col.tag # "bool"

\* The column of a field has its values, and a tag that tells.
LEMMA NewColumnIs ==
  ASSUME NEW n \in Nat, NEW rows, DOMAIN rows = 1 .. n, NEW f
  PROVE  /\ NewColumn(rows, f).name = <<f>>
         /\ DOMAIN NewColumn(rows, f).cells = 1 .. n
         /\ \A i \in 1 .. n : NewColumn(rows, f).cells[i] =
              IF f \in DOMAIN rows[i] THEN rows[i][f] ELSE Missing
         /\ TagTells(NewColumn(rows, f), n)
<1> DEFINE V(i) == IF f \in DOMAIN rows[i] THEN rows[i][f] ELSE Missing
           raw == [i \in DOMAIN rows |-> V(i)]
           cells == << >> \o raw
           T == {V(i) : i \in 1 .. n}
           P == {i \in DOMAIN cells : cells[i] \notin Blanks}
           last == CHOOSE i \in P : \A j \in P : j <= i
           tag == IF P = {} THEN "string" ELSE TypeTag(cells[last])
           null == P # DOMAIN cells
<1>1. NewColumn(rows, f) = [name |-> <<f>>, tag |-> tag, nullable |-> null, cells |-> cells]
  BY Zenon DEF NewColumn
<1>2. raw \in [1 .. n -> T] /\ \A i \in 1 .. n : raw[i] = V(i)
  OBVIOUS
<1> HIDE DEF V, raw, T
<1>3. cells = raw
  BY <1>2, LazySeq
<1>4. DOMAIN cells = 1 .. n /\ \A i \in 1 .. n : cells[i] = V(i)
  BY <1>2, <1>3
<1> HIDE DEF cells
<1>5. P # {} => last \in P
  <2>1. P \subseteq 1 .. n /\ P \subseteq Int /\ IsFiniteSet(1 .. n)
    BY <1>4, FS_Interval
  <2> HIDE DEF P
  <2>3. IsFiniteSet(P)
    BY <2>1, FS_Subset
  <2>2. ASSUME P # {} PROVE \E i \in P : \A j \in P : j <= i
    BY <2>1, <2>2, <2>3, GreatestElement
  <2> QED
    BY <2>2
<1>6. P = {i \in 1 .. n : cells[i] \notin Blanks}
  BY <1>4
<1> HIDE DEF P, last, null
<1> DEFINE Bool(i) == cells[i][1] = "bool"
<1>7. ASSUME NEW i \in P, \A j \in P : Bool(j) PROVE tag = "bool"
  BY <1>5, <1>7 DEF TypeTag
<1>8. ASSUME \A j \in P : ~ Bool(j) PROVE tag # "bool"
  <2>1. CASE P = {}
    BY <2>1
  <2>2. CASE P # {}
    <3>1. PICK w : w = cells[last] /\ w[1] # "bool"
      BY <1>5, <1>8, <2>2
    <3>2. TypeTag(w) # "bool"
      BY <3>1 DEF TypeTag
    <3> QED
      BY <2>2, <3>1, <3>2
  <2> QED
    BY <2>1, <2>2
<1> HIDE DEF tag
<1>9. PICK col : col = NewColumn(rows, f)
  OBVIOUS
<1>10. col.name = <<f>> /\ col.tag = tag /\ col.cells = cells
  BY <1>1, <1>9
<1>11. TagTells(col, n)
  <2>1. ASSUME NEW i \in 1 .. n, col.cells[i] \notin Blanks,
               \A j \in 1 .. n : col.cells[j] \notin Blanks => col.cells[j][1] = "bool"
        PROVE  col.tag = "bool"
    BY <1>6, <1>7, <1>10, <2>1
  <2>2. ASSUME \A j \in 1 .. n : col.cells[j] \notin Blanks => col.cells[j][1] # "bool"
        PROVE  col.tag # "bool"
    BY <1>6, <1>8, <1>10, <2>2
  <2> QED
    BY <2>1, <2>2 DEF TagTells
<1> QED
  BY <1>4, <1>9, <1>10, <1>11 DEF V

\* The same of a column for a field of the objects of another.
LEMMA InnerColumnIs ==
  ASSUME NEW n \in Nat, NEW col, DOMAIN col.cells = 1 .. n, NEW k
  PROVE  /\ InnerColumn(col, k).name = Append(col.name, k)
         /\ DOMAIN InnerColumn(col, k).cells = 1 .. n
         /\ \A i \in 1 .. n : InnerColumn(col, k).cells[i] =
              IF col.cells[i] = Missing \/ k \notin DOMAIN col.cells[i][2] THEN Missing
              ELSE col.cells[i][2][k]
         /\ TagTells(InnerColumn(col, k), n)
<1> DEFINE inner(v) == IF v = Missing \/ k \notin DOMAIN v[2] THEN Missing ELSE v[2][k]
           raw == [i \in DOMAIN col.cells |-> inner(col.cells[i])]
           cells == << >> \o raw
           T == {inner(col.cells[i]) : i \in 1 .. n}
           innerTag(v) == IF v[1] \in {"list", "dict"} THEN "json" ELSE TypeTag(v)
           tags == {innerTag(cells[i]) : i \in {j \in DOMAIN cells : cells[j] \notin Blanks}}
           one == CHOOSE t \in tags : TRUE
           tag == IF tags = {} THEN "string" ELSE IF Cardinality(tags) = 1 THEN one ELSE "json"
           null == \E i \in DOMAIN cells : cells[i] \in Blanks
<1>1. InnerColumn(col, k) = [name |-> Append(col.name, k), tag |-> tag, nullable |-> null, cells |-> cells]
  BY Zenon DEF InnerColumn
<1>2. raw \in [1 .. n -> T] /\ \A i \in 1 .. n : raw[i] = inner(col.cells[i])
  OBVIOUS
<1> HIDE DEF inner, raw, T
<1>3. cells = raw
  BY <1>2, LazySeq
<1>4. DOMAIN cells = 1 .. n /\ \A i \in 1 .. n : cells[i] = inner(col.cells[i])
  BY <1>2, <1>3
<1> HIDE DEF cells, null
<1> DEFINE P == {i \in 1 .. n : cells[i] \notin Blanks}
           Bool(i) == cells[i][1] = "bool"
<1>5. tags = {innerTag(cells[i]) : i \in P}
  BY <1>4
<1>6. \A i \in P : innerTag(cells[i]) = "bool" <=> Bool(i)
  BY DEF TypeTag
<1> HIDE DEF tags, innerTag
<1>7. ASSUME NEW i \in P, \A j \in P : Bool(j) PROVE tag = "bool"
  <2>1. tags = {"bool"}
    BY <1>5, <1>6, <1>7
  <2>2. Cardinality(tags) = 1
    BY <2>1, FS_Singleton
  <2> QED
    BY <2>1, <2>2
<1>8. ASSUME \A j \in P : ~ Bool(j) PROVE tag # "bool"
  <2>1. "bool" \notin tags
    BY <1>5, <1>6, <1>8
  <2> QED
    BY <2>1
<1> HIDE DEF tag
<1>9. PICK new : new = InnerColumn(col, k)
  OBVIOUS
<1>10. new.name = Append(col.name, k) /\ new.tag = tag /\ new.cells = cells
  BY <1>1, <1>9
<1>11. TagTells(new, n)
  <2>1. ASSUME NEW i \in 1 .. n, new.cells[i] \notin Blanks,
               \A j \in 1 .. n : new.cells[j] \notin Blanks => new.cells[j][1] = "bool"
        PROVE  new.tag = "bool"
    BY <1>7, <1>10, <2>1
  <2>2. ASSUME \A j \in 1 .. n : new.cells[j] \notin Blanks => new.cells[j][1] # "bool"
        PROVE  new.tag # "bool"
    BY <1>8, <1>10, <2>2
  <2> QED
    BY <2>1, <2>2 DEF TagTells
<1> QED
  BY <1>4, <1>9, <1>10, <1>11 DEF inner

\* The tag of a column fits each of its values, when tags tell their types.
LEMMA TagsFit ==
  ASSUME NEW n \in Nat, NEW col, TagTells(col, n), NEW T, Told(T),
         \A j \in 1 .. n : col.cells[j] \notin Blanks => col.cells[j] \in T,
         NEW i \in 1 .. n, col.cells[i] \notin Blanks
  PROVE  Fitted(col.cells[i], col.tag)
<1>1. PICK v : v = col.cells[i]
  OBVIOUS
<1>2. v \in T \ {Null} /\ v[1] # "list"
  BY <1>1 DEF Told, Blanks
<1>3. \A j \in 1 .. n : col.cells[j] \notin Blanks => col.cells[j] \in T \ {Null}
  BY DEF Blanks
<1>4. CASE v[1] = "bool"
  <2>1. \A j \in 1 .. n : col.cells[j] \notin Blanks => col.cells[j][1] = "bool"
    BY <1>2, <1>3, <1>4 DEF Told
  <2>2. col.tag = "bool"
    BY <2>1 DEF TagTells
  <2> QED
    BY <1>1, <1>4, <2>2 DEF Fitted
<1>5. CASE v[1] # "bool"
  <2>1. \A j \in 1 .. n : col.cells[j] \notin Blanks => col.cells[j][1] # "bool"
    BY <1>2, <1>3, <1>5 DEF Told
  <2>2. col.tag # "bool"
    BY <2>1 DEF TagTells
  <2> QED
    BY <1>1, <1>2, <1>5, <2>2 DEF Fitted
<1> QED
  BY <1>4, <1>5

\* What is printed of the columns of a table.
LEMMA FormatIs ==
  ASSUME NEW m \in Nat, NEW table, DOMAIN table = 1 .. m, NEW c \in 1 .. m,
         NEW n \in Nat, DOMAIN table[c].cells = 1 .. n
  PROVE  /\ c \in DOMAIN FormatCompaction(table)
         /\ FormatCompaction(table)[c].name = table[c].name
         /\ FormatCompaction(table)[c].tag = table[c].tag
         /\ \A i \in 1 .. n : FormatCompaction(table)[c].cells[i]
                                = writeScalarCSV(table[c].cells[i], table[c].tag)
<1> DEFINE Cells(d) == << >> \o [i \in DOMAIN table[d].cells |-> writeScalarCSV(table[d].cells[i], table[d].tag)]
           Col(d) == [name |-> table[d].name, tag |-> table[d].tag,
                      nullable |-> table[d].nullable, cells |-> Cells(d)]
           raw == [d \in DOMAIN table |-> Col(d)]
           T == {Col(d) : d \in 1 .. m}
           text == [i \in DOMAIN table[c].cells |-> writeScalarCSV(table[c].cells[i], table[c].tag)]
           U == {writeScalarCSV(table[c].cells[i], table[c].tag) : i \in 1 .. n}
<1>1. FormatCompaction(table) = << >> \o raw
  BY Zenon DEF FormatCompaction
<1>2. text \in [1 .. n -> U]
        /\ \A i \in 1 .. n : text[i] = writeScalarCSV(table[c].cells[i], table[c].tag)
  OBVIOUS
<1>3. Cells(c) = << >> \o text
  OBVIOUS
<1> HIDE DEF Cells, text, U
<1>4. raw \in [1 .. m -> T] /\ \A d \in 1 .. m : raw[d] = Col(d)
  OBVIOUS
<1>5. Col(c).name = table[c].name /\ Col(c).tag = table[c].tag /\ Col(c).cells = Cells(c)
  OBVIOUS
<1> HIDE DEF raw, Col, T
<1>6. FormatCompaction(table) = raw
  BY <1>1, <1>4, LazySeq
<1>7. Cells(c) = text
  BY <1>2, <1>3, LazySeq
<1> QED
  BY <1>2, <1>4, <1>5, <1>6, <1>7

\* A table shows a leaf that is a cell of one of its columns, where tags tell.
LEMMA LeafShown ==
  ASSUME NEW m \in Nat, NEW table, DOMAIN table = 1 .. m, NEW c \in 1 .. m,
         NEW n \in Nat, DOMAIN table[c].cells = 1 .. n, TagTells(table[c], n),
         NEW T, Told(T), \A j \in 1 .. n : table[c].cells[j] \notin Blanks => table[c].cells[j] \in T,
         NEW i \in 1 .. n, NEW v, v = table[c].cells[i], IsLeaf(v)
  PROVE  Shows(FormatCompaction(table), table[c].name, i, v)
<1>1. PICK col : col = table[c]
  OBVIOUS
<1>2. v # Null => v \notin Blanks
  BY DEF Blanks, IsLeaf, Leaf, Missing
<1>3. v # Null => Fitted(v, col.tag)
  BY <1>1, <1>2, TagsFit
<1>4. Blankish(v) = Read(writeScalarCSV(v, col.tag), col.tag)
  BY <1>3, LeafReads
<1>5. /\ c \in DOMAIN FormatCompaction(table)
      /\ FormatCompaction(table)[c].name = table[c].name
      /\ FormatCompaction(table)[c].tag = table[c].tag
      /\ FormatCompaction(table)[c].cells[i] = writeScalarCSV(table[c].cells[i], table[c].tag)
  BY FormatIs
<1> QED
  BY <1>1, <1>4, <1>5 DEF Shows

\* The columns that a field becomes: its own, or one for each field of its objects.
LEMMA FlatIs ==
  ASSUME NEW n \in Nat, NEW col, DOMAIN col.cells = 1 .. n
  PROVE  \/ flattenUniformNested(col) = <<col>>
         \/ /\ \E T : flattenUniformNested(col) \in Seq(T)
            /\ \A i \in 1 .. n : col.cells[i] # Missing =>
                 /\ col.cells[i][1] = "dict"
                 /\ \A k \in DOMAIN col.cells[i][2] : k \in FieldNames =>
                      \E j \in 1 .. Len(flattenUniformNested(col)) :
                        flattenUniformNested(col)[j] = InnerColumn(col, k)
<1> DEFINE keys == uniformObjectKeys(col)
           flat == [i \in DOMAIN keys |-> InnerColumn(col, keys[i])]
           having == {col.cells[i] : i \in DOMAIN col.cells} \ {Missing}
           common == {k \in FieldNames : \A v \in having : k \in DOMAIN v[2]}
           Uniform == /\ having # {}
                      /\ \A v \in having : v[1] = "dict"
                      /\ \A v, w \in having : DOMAIN v[2] = DOMAIN w[2]
           T == {flat[i] : i \in DOMAIN keys}
<1>1. flattenUniformNested(col) = IF Len(keys) \in 1 .. MaxFlattenInnerKeys THEN << >> \o flat ELSE <<col>>
  BY Zenon DEF flattenUniformNested
<1>2. keys = IF Uniform THEN FieldsIn(common) ELSE << >>
  BY Zenon DEF uniformObjectKeys
<1>3. having = {col.cells[i] : i \in 1 .. n} \ {Missing}
  OBVIOUS
<1> HIDE DEF keys, flat, common, having
<1>4. CASE Len(keys) \in 1 .. MaxFlattenInnerKeys
  <2>1. Uniform
    <3>1. CASE ~ Uniform
      <4>1. keys = << >>
        BY <1>2, <3>1
      <4>2. Len(keys) = 0
        BY <4>1
      <4> QED
        BY <1>4, <4>2
    <3> QED
      BY <3>1
  <2>2. PICK m \in Nat : m = Len(FieldsIn(common)) /\ DOMAIN FieldsIn(common) = 1 .. m
    BY FieldsAreListed
  <2>3. keys = FieldsIn(common)
    BY <1>2, <2>1
  <2>4. flat \in [1 .. m -> T] /\ \A j \in 1 .. m : flat[j] = InnerColumn(col, keys[j])
    BY <2>2, <2>3 DEF flat
  <2> HIDE DEF T
  <2>5. flattenUniformNested(col) = flat /\ flat \in Seq(T) /\ Len(flat) = m
    <3>1. << >> \o flat = flat /\ flat \in Seq(T) /\ Len(flat) = m
      BY <2>4, LazySeq
    <3> QED
      BY <1>1, <1>4, <3>1
  <2>6. ASSUME NEW i \in 1 .. n, col.cells[i] # Missing
        PROVE  /\ col.cells[i][1] = "dict"
               /\ \A k \in DOMAIN col.cells[i][2] : k \in FieldNames => k \in common
    <3>1. PICK v \in having : v = col.cells[i]
      BY <1>3, <2>6
    <3>2. v[1] = "dict" /\ \A w \in having : DOMAIN v[2] = DOMAIN w[2]
      BY <2>1
    <3> QED
      BY <3>1, <3>2 DEF common
  <2>7. \A k \in FieldNames : k \in common => \E j \in 1 .. m : keys[j] = k
    BY <2>2, <2>3, FieldsAreListed
  <2>8. \A k \in FieldNames : k \in common => \E j \in 1 .. m : flat[j] = InnerColumn(col, k)
    BY <2>4, <2>7
  <2> QED
    BY <2>5, <2>6, <2>8
<1> QED
  BY <1>1, <1>4

\* The column of a field: where it has a value, the row's, and that is of a kind.
FieldColumn(col, rows, n, f) ==
  /\ col.name = <<f>> /\ DOMAIN col.cells = 1 .. n /\ TagTells(col, n)
  /\ \A i \in 1 .. n :
       /\ f \in DOMAIN rows[i] => col.cells[i] = rows[i][f] /\ IsInner(col.cells[i])
       /\ f \notin DOMAIN rows[i] => col.cells[i] = Missing
  /\ \A i \in 1 .. n : col.cells[i] # Missing => col.cells[i] \in Values(rows, f)

LEMMA ColumnsOfFields ==
  ASSUME NEW n \in Nat, NEW rows, rows \in Seq(Rows), DOMAIN rows = 1 .. n, NEW f
  PROVE  FieldColumn(NewColumn(rows, f), rows, n, f)
<1>1. PICK col : col = NewColumn(rows, f)
  OBVIOUS
<1>2. /\ col.name = <<f>> /\ DOMAIN col.cells = 1 .. n /\ TagTells(col, n)
      /\ \A i \in 1 .. n : col.cells[i] = IF f \in DOMAIN rows[i] THEN rows[i][f] ELSE Missing
  BY <1>1, NewColumnIs
<1>3. ASSUME NEW i \in 1 .. n, f \in DOMAIN rows[i]
      PROVE  col.cells[i] = rows[i][f] /\ IsInner(col.cells[i]) /\ rows[i][f] \in Values(rows, f)
  <2>1. Len(rows) = n
    OBVIOUS
  <2>2. PICK row \in Rows : row = rows[i]
    BY <2>1, ElementOfSeq
  <2>3. IsInner(row[f])
    BY <1>3, <2>2, RowsAreNamed
  <2>4. rows[i][f] \in Values(rows, f)
    BY <1>3 DEF Values
  <2> QED
    BY <1>2, <1>3, <2>2, <2>3, <2>4
<1>4. \A i \in 1 .. n : f \notin DOMAIN rows[i] => col.cells[i] = Missing
  BY <1>2
<1> QED
  BY <1>1, <1>2, <1>3, <1>4 DEF FieldColumn

\* A value that may be within an object is a leaf or an object of leaves.
LEMMA InnerKinds ==
  ASSUME NEW v, IsInner(v)
  PROVE  /\ v # Missing
         /\ v[1] # "dict" => IsLeaf(v)
         /\ v[1] = "dict" => /\ IsObject(v, IsLeaf) /\ DOMAIN v[2] \subseteq FieldNames
                             /\ \A k \in DOMAIN v[2] : IsLeaf(v[2][k])
<1>1. CASE IsLeaf(v)
  BY <1>1 DEF IsLeaf, Leaf, Missing, Null
<1>2. CASE IsObject(v, IsLeaf)
  <2>1. v[1] = "dict"
    BY <1>2, Kinds
  <2> QED
    BY <1>2, <2>1 DEF IsObject, Missing
<1> QED
  BY <1>1, <1>2 DEF IsInner

\* In a table with the column of a field as it is, each value of it is shown.
LEMMA WholeColumnShows ==
  ASSUME NEW n \in Nat, NEW rows, NEW f, Readable(rows, f),
         NEW m \in Nat, NEW table, DOMAIN table = 1 .. m, NEW c \in 1 .. m,
         FieldColumn(table[c], rows, n, f),
         NEW i \in 1 .. n, f \in DOMAIN rows[i]
  PROVE  Shows(FormatCompaction(table), <<f>>, i, rows[i][f])
<1>1. PICK col : col = table[c]
  OBVIOUS
<1>2. /\ col.name = <<f>> /\ DOMAIN col.cells = 1 .. n /\ TagTells(col, n)
      /\ col.cells[i] = rows[i][f] /\ IsInner(col.cells[i])
      /\ \A j \in 1 .. n : col.cells[j] # Missing => col.cells[j] \in Values(rows, f)
  BY <1>1 DEF FieldColumn
<1>3. PICK v : v = rows[i][f]
  OBVIOUS
<1>4. IsInner(v) /\ v = col.cells[i] /\ v # Missing /\ v \in Values(rows, f)
  BY <1>2, <1>3, InnerKinds
<1>5. CASE v[1] # "dict"
  <2>1. IsLeaf(v)
    BY <1>4, <1>5, InnerKinds
  <2>2. Told(Values(rows, f))
    BY DEF Readable
  <2>3. \A j \in 1 .. n : col.cells[j] \notin Blanks => col.cells[j] \in Values(rows, f)
    BY <1>2 DEF Blanks
  <2>4. Shows(FormatCompaction(table), table[c].name, i, v)
    BY <1>1, <1>2, <1>4, <2>1, <2>2, <2>3, LeafShown
  <2> QED
    BY <1>1, <1>2, <1>3, <2>4
<1>6. CASE v[1] = "dict"
  <2>1. IsObject(v, IsLeaf) /\ DOMAIN v[2] \subseteq FieldNames
    BY <1>4, <1>6, InnerKinds
  <2>2. ASSUME NEW k \in DOMAIN v[2] PROVE v[2][k][1] # "list"
    <3>1. Told(InnerValues(Values(rows, f), k))
      BY <2>1 DEF Readable
    <3>2. v[2][k] \in InnerValues(Values(rows, f), k)
      BY <1>4, <1>6 DEF InnerValues
    <3>3. CASE v[2][k] = Null
      BY <3>3 DEF Null
    <3>4. CASE v[2][k] # Null
      BY <3>1, <3>2, <3>4 DEF Told
    <3> QED
      BY <3>3, <3>4
  <2>3. Blankish(v) = Read(writeScalarCSV(v, col.tag), col.tag)
    BY <2>1, <2>2, ObjectReads
  <2>4. /\ c \in DOMAIN FormatCompaction(table)
        /\ FormatCompaction(table)[c].name = table[c].name
        /\ FormatCompaction(table)[c].tag = table[c].tag
        /\ FormatCompaction(table)[c].cells[i] = writeScalarCSV(table[c].cells[i], table[c].tag)
    BY <1>1, <1>2, FormatIs
  <2> QED
    BY <1>1, <1>2, <1>3, <1>4, <2>3, <2>4 DEF Shows
<1> QED
  BY <1>5, <1>6

\* A path of two fields.
LEMMA PathsExtend == ASSUME NEW f, NEW k PROVE Append(<<f>>, k) = <<f, k>>
<1>1. PICK T : f \in T /\ k \in T
  <2>1. f \in {f, k} /\ k \in {f, k}
    OBVIOUS
  <2> QED
    BY <2>1
<1>2. <<f>> \in Seq(T) /\ Len(<<f>>) = 1 /\ <<f>>[1] = f
  BY <1>1
<1>3. PICK s \in Seq(T) : s = <<f>> /\ Len(s) = 1 /\ s[1] = f
  BY <1>2
<1>4. Append(s, k) \in Seq(T) /\ Len(Append(s, k)) = 2 /\ Append(s, k)[1] = f /\ Append(s, k)[2] = k
  BY <1>1, <1>3, AppendProperties
<1>5. <<f, k>> \in Seq(T) /\ Len(<<f, k>>) = 2 /\ <<f, k>>[1] = f /\ <<f, k>>[2] = k
  BY <1>1
<1>6. PICK p \in Seq(T) : p = Append(s, k) /\ Len(p) = 2 /\ p[1] = f /\ p[2] = k
  BY <1>4
<1>7. PICK q \in Seq(T) : q = <<f, k>> /\ Len(q) = 2 /\ q[1] = f /\ q[2] = k
  BY <1>5
<1>8. p = q
  <2>1. \A i \in 1 .. Len(p) : p[i] = q[i]
    BY <1>6, <1>7
  <2> QED
    BY <1>6, <1>7, <2>1, SeqEqual
<1> QED
  BY <1>3, <1>6, <1>7, <1>8

\* In a table with a column for a field of its objects, each value of that is shown.
LEMMA PartColumnShows ==
  ASSUME NEW n \in Nat, NEW rows, NEW f, Readable(rows, f),
         NEW col, FieldColumn(col, rows, n, f),
         \A j \in 1 .. n : col.cells[j] # Missing => col.cells[j][1] = "dict",
         NEW k \in FieldNames,
         NEW m \in Nat, NEW table, DOMAIN table = 1 .. m, NEW c \in 1 .. m,
         table[c] = InnerColumn(col, k),
         NEW i \in 1 .. n, f \in DOMAIN rows[i], k \in DOMAIN rows[i][f][2]
  PROVE  Shows(FormatCompaction(table), <<f, k>>, i, rows[i][f][2][k])
<1> DEFINE T == InnerValues(Values(rows, f), k)
<1>1. PICK new : new = table[c]
  OBVIOUS
<1>2. /\ col.name = <<f>> /\ DOMAIN col.cells = 1 .. n
      /\ col.cells[i] = rows[i][f] /\ IsInner(col.cells[i])
      /\ \A j \in 1 .. n : col.cells[j] # Missing => col.cells[j] \in Values(rows, f)
  BY DEF FieldColumn
<1>3. /\ new.name = Append(col.name, k) /\ DOMAIN new.cells = 1 .. n /\ TagTells(new, n)
      /\ \A j \in 1 .. n : new.cells[j] =
           IF col.cells[j] = Missing \/ k \notin DOMAIN col.cells[j][2] THEN Missing
           ELSE col.cells[j][2][k]
  <2>1. new = InnerColumn(col, k) /\ n \in Nat /\ DOMAIN col.cells = 1 .. n
    BY <1>1, <1>2
  <2> QED
    BY ONLY <2>1, InnerColumnIs
<1>4. new.name = <<f, k>>
  <2>1. Append(<<f>>, k) = <<f, k>>
    BY PathsExtend
  <2> QED
    BY <1>2, <1>3, <2>1
<1>5. col.cells[i] # Missing /\ col.cells[i][1] = "dict"
  BY <1>2, InnerKinds
<1>6. PICK v : v = rows[i][f][2][k]
  OBVIOUS
<1>7. v = new.cells[i]
  BY <1>2, <1>3, <1>5, <1>6
<1>8. IsLeaf(v)
  BY <1>2, <1>5, <1>6, InnerKinds
<1>9. Told(T)
  BY DEF Readable
<1>10. ASSUME NEW j \in 1 .. n, new.cells[j] \notin Blanks PROVE new.cells[j] \in T
  <2>1. col.cells[j] # Missing /\ k \in DOMAIN col.cells[j][2] /\ new.cells[j] = col.cells[j][2][k]
    BY <1>3, <1>10 DEF Blanks
  <2>2. col.cells[j] \in Values(rows, f) /\ col.cells[j][1] = "dict"
    BY <1>2, <2>1
  <2> QED
    BY <2>1, <2>2 DEF InnerValues
<1> HIDE DEF T
<1>11. Shows(FormatCompaction(table), table[c].name, i, v)
  BY <1>1, <1>3, <1>7, <1>8, <1>9, <1>10, LeafShown
<1> QED
  BY <1>1, <1>4, <1>6, <1>11

\* The columns of every field are a list, and each is in the table.
LEMMA ColumnsInTable ==
  ASSUME NEW n \in Nat, NEW rows, rows \in Seq(Rows), DOMAIN rows = 1 .. n,
         NEW f, f \in UNION {DOMAIN rows[i] : i \in DOMAIN rows}
  PROVE  \E m \in Nat :
           /\ DOMAIN Compact(rows) = 1 .. m
           /\ \A j \in 1 .. Len(flattenUniformNested(NewColumn(rows, f))) :
                \E c \in 1 .. m : Compact(rows)[c] = flattenUniformNested(NewColumn(rows, f))[j]
<1> DEFINE used == UNION {DOMAIN rows[i] : i \in DOMAIN rows}
           fields == Fields(rows)
<1>1. fields = FieldsIn(used)
  BY DEF Fields
<1>2. f \in FieldNames
  <2>1. PICK i \in 1 .. n : f \in DOMAIN rows[i]
    OBVIOUS
  <2>2. Len(rows) = n
    OBVIOUS
  <2>3. rows[i] \in Rows
    BY <2>2, ElementOfSeq
  <2> QED
    BY <2>1, <2>3, RowsAreNamed
<1>3. f \in used
  OBVIOUS
<1> HIDE DEF used, fields
<1>4. PICK w \in Nat : w = Len(fields)
  BY <1>1, FieldsAreListed
<1>5. PICK k \in 1 .. w : fields[k] = f
  BY <1>1, <1>2, <1>3, <1>4, FieldsAreListed
<1> DEFINE Of(i) == {Flat(rows, i)[j] : j \in 1 .. Len(Flat(rows, i))}
           T == UNION {Of(i) : i \in 1 .. w}
<1>6. ASSUME NEW i \in 1 .. w PROVE Flat(rows, i) \in Seq(T)
  <2>1. PICK col : col = NewColumn(rows, fields[i]) /\ DOMAIN col.cells = 1 .. n
    BY NewColumnIs
  <2>2. Flat(rows, i) = flattenUniformNested(col)
    BY <2>1 DEF Flat, fields
  <2>3. flattenUniformNested(col) = <<col>> \/ \E U : flattenUniformNested(col) \in Seq(U)
    BY <2>1, FlatIs
  <2>4. \E U : Flat(rows, i) \in Seq(U)
    <3>1. <<col>> \in Seq({col})
      OBVIOUS
    <3> QED
      BY <2>2, <2>3, <3>1
  <2>5. PICK U : Flat(rows, i) \in Seq(U)
    BY <2>4
  <2>6. PICK s \in Seq(U) : s = Flat(rows, i)
    BY <2>5
  <2>7. PICK z \in Nat : z = Len(s) /\ s \in [1 .. z -> U]
    BY <2>6, SeqDef
  <2>8. \A j \in 1 .. z : s[j] \in T
    BY <2>6, <2>7
  <2>9. s \in [1 .. z -> T]
    <3> HIDE DEF T
    <3> QED
      BY <2>7, <2>8
  <2> HIDE DEF T
  <2> QED
    BY <2>6, <2>9, LazySeq
<1> HIDE DEF T
<1>7. /\ Compact(rows) \in Seq(T)
      /\ \A i \in 1 .. w : \A j \in 1 .. Len(Flat(rows, i)) :
           \E c \in 1 .. Len(Compact(rows)) : Compact(rows)[c] = Flat(rows, i)[j]
  <2>1. w = Len(Fields(rows))
    BY <1>4 DEF fields
  <2> QED
    BY <1>6, <2>1, CompactLists
<1>8. PICK m \in Nat : m = Len(Compact(rows)) /\ DOMAIN Compact(rows) = 1 .. m
  BY <1>7
<1>9. Flat(rows, k) = flattenUniformNested(NewColumn(rows, f))
  BY <1>5 DEF Flat, fields
<1> QED
  BY <1>7, <1>8, <1>9

\* The table of rows shows each value of a field that can be read.
LEMMA TablesShow ==
  ASSUME NEW rows, rows \in Seq(Rows),
         NEW f, f \in UNION {DOMAIN rows[i] : i \in DOMAIN rows}, Readable(rows, f)
  PROVE  TableShows(rows, FormatCompaction(Compact(rows)), f)
<1>1. PICK n \in Nat : DOMAIN rows = 1 .. n
  OBVIOUS
<1>2. PICK col : col = NewColumn(rows, f)
  OBVIOUS
<1>3. FieldColumn(col, rows, n, f)
  BY <1>1, <1>2, ColumnsOfFields
<1>4. DOMAIN col.cells = 1 .. n
  BY <1>3 DEF FieldColumn
<1>5. PICK flat : flat = flattenUniformNested(col)
  OBVIOUS
<1>6. PICK m \in Nat : /\ DOMAIN Compact(rows) = 1 .. m
                       /\ \A j \in 1 .. Len(flat) : \E c \in 1 .. m : Compact(rows)[c] = flat[j]
  BY <1>1, <1>2, <1>5, ColumnsInTable
<1>7. PICK table : table = Compact(rows)
  OBVIOUS
<1>8. DOMAIN table = 1 .. m /\ \A j \in 1 .. Len(flat) : \E c \in 1 .. m : table[c] = flat[j]
  BY <1>6, <1>7
<1>9. CASE flat = <<col>>
  <2>1. Len(flat) = 1 /\ flat[1] = col
    BY <1>9
  <2>2. PICK c \in 1 .. m : table[c] = col
    BY <1>8, <2>1
  <2>3. \A i \in 1 .. n : f \in DOMAIN rows[i] => Shows(FormatCompaction(table), <<f>>, i, rows[i][f])
    BY <1>3, <1>8, <2>2, WholeColumnShows
  <2> QED
    BY <1>1, <1>7, <2>3 DEF TableShows
<1>10. CASE \A i \in 1 .. n : col.cells[i] # Missing =>
              /\ col.cells[i][1] = "dict"
              /\ \A k \in DOMAIN col.cells[i][2] : k \in FieldNames =>
                   \E j \in 1 .. Len(flat) : flat[j] = InnerColumn(col, k)
  <2>1. ASSUME NEW i \in 1 .. n, f \in DOMAIN rows[i]
        PROVE  /\ rows[i][f][1] = "dict"
               /\ \A k \in DOMAIN rows[i][f][2] : Shows(FormatCompaction(table), <<f, k>>, i, rows[i][f][2][k])
    <3>1. col.cells[i] = rows[i][f] /\ IsInner(col.cells[i])
      BY <1>3, <2>1 DEF FieldColumn
    <3>2. col.cells[i] # Missing
      BY <3>1, InnerKinds
    <3>3. /\ rows[i][f][1] = "dict"
          /\ \A k \in DOMAIN rows[i][f][2] : k \in FieldNames =>
               \E j \in 1 .. Len(flat) : flat[j] = InnerColumn(col, k)
      BY <1>10, <3>1, <3>2
    <3>4. ASSUME NEW k \in DOMAIN rows[i][f][2]
          PROVE  Shows(FormatCompaction(table), <<f, k>>, i, rows[i][f][2][k])
      <4>1. k \in FieldNames
        BY <3>1, <3>3, InnerKinds
      <4>2. PICK j \in 1 .. Len(flat) : flat[j] = InnerColumn(col, k)
        BY <3>3, <4>1
      <4>3. PICK c \in 1 .. m : table[c] = InnerColumn(col, k)
        BY <1>8, <4>2
      <4>4. \A j2 \in 1 .. n : col.cells[j2] # Missing => col.cells[j2][1] = "dict"
        BY <1>10
      <4>5. /\ n \in Nat /\ Readable(rows, f) /\ FieldColumn(col, rows, n, f)
            /\ m \in Nat /\ DOMAIN table = 1 .. m /\ i \in 1 .. n /\ f \in DOMAIN rows[i]
            /\ k \in DOMAIN rows[i][f][2] /\ c \in 1 .. m
        BY <1>3, <1>8, <2>1
      <4> QED
        BY ONLY <4>1, <4>3, <4>4, <4>5, PartColumnShows
    <3> QED
      BY <3>3, <3>4
  <2> QED
    BY <1>1, <1>7, <2>1 DEF TableShows
<1> QED
  BY <1>4, <1>5, <1>9, <1>10, FlatIs

\* What is read from a result's table: what TableReadsBack says of any result.
ReadsBackFrom(r) ==
  r.how = "lossless" =>
    \A f \in UNION {DOMAIN Bare(Items)[i] : i \in DOMAIN Bare(Items)} :
      Readable(Bare(Items), f) => TableShows(Bare(Items), r.table, f)

\* Only an array of objects becomes a table, and that is read back.
LEMMA OutcomesReadBack ==
  ASSUME WellFormed, NEW r, Outcome(r)
  PROVE  ReadsBackFrom(r)
<1>b. caller.bias \in Nat
  BY CrusherAssumption DEF WellFormed
<1>1. CASE doc[1] = "array"
  <2>1. Items \in Seq(Given)
    BY <1>1 DEF WellFormed, Documents
  <2>2. CASE r = Kept("small", Positions(Items), Len(Items), {})
    BY <2>2 DEF Kept, ReadsBackFrom
  <2>3. CASE LargeArray("dict") /\ r \in CrushArray(Items, caller)
    <3>1. \A i \in DOMAIN Items : Items[i][1] = "dict"
      BY <2>1, <2>3, OneType DEF LargeArray
    <3>2. PICK rows : rows = Bare(Items) /\ rows \in Seq(Rows)
      BY <2>1, <3>1, RowsOfDicts
    <3>3. r \in CrushRows(rows, Compact(rows), AnalyzeArray(rows), caller, Totals(Items, caller.bias))
      BY <2>3, <3>2, Zenon DEF CrushArray
    <3>s. AnalyzeArray(rows).strategy # "lossless"
      BY StrategiesAreNamed
    <3>4. PICK an, sizes : /\ an.strategy # "lossless" /\ r \in CrushRows(rows, Compact(rows), an, caller, sizes)
                           /\ sizes \subseteq Nat
      <4>1. Totals(Items, caller.bias) \subseteq Nat
        <5>1. Len(Items) \in Nat /\ DOMAIN Items = 1 .. Len(Items)
              /\ \A i \in 1 .. Len(Items) : IsValue(Items[i])
          BY <2>1, ItemsAreValues
        <5> QED
          BY <1>b, <5>1, TotalsAreNumbers
      <4> QED
        BY <3>3, <3>s, <4>1
    <3>5. PICK n \in Nat : n = Len(rows)
      BY <3>2
    <3>6. r.how = "lossless" => r.table = FormatCompaction(Compact(rows))
      <4>1. PICK k \in sizes :
              \/ r = Kept("at_limit", Positions(rows), k, Positions(rows))
              \/ r = [Kept("lossless", Positions(rows), k, Positions(rows)) EXCEPT !.table = FormatCompaction(Compact(rows))]
              \/ \E S \in CreatePlan(rows, an, k, caller) : r = Kept(an.strategy, S, k, MustOf(rows, an, caller))
        BY <3>4, <3>5, RowsOutcomes
      <4> QED
        BY <3>4, <4>1 DEF Kept
    <3> QED
      BY <3>2, <3>6, TablesShow DEF ReadsBackFrom
  <2>4. CASE r \in CrushStringArray(Items, caller)
    BY <1>b, <2>1, <2>4, StringsFit DEF ReadsBackFrom
  <2>5. CASE r \in crushNumberArrayIndices(Items, caller)
    BY <1>b, <2>1, <2>5, NumbersFit DEF ReadsBackFrom
  <2>6. CASE r \in crushMixedArrayIndices(Items, caller)
    BY <2>1, <2>6, MixedFits DEF ReadsBackFrom
  <2> QED
    BY <1>1, <2>2, <2>3, <2>4, <2>5, <2>6 DEF Outcome
<1>2. CASE doc[1] = "dict"
  <2>1. DOMAIN Items \subseteq DOMAIN Text /\ \A f \in DOMAIN Items : IsInner(Items[f])
    BY <1>2 DEF WellFormed, Documents
  <2>2. CASE r = Kept("small", 0 .. Cardinality(DOMAIN Items) - 1, Cardinality(DOMAIN Items), {})
    BY <2>2 DEF Kept, ReadsBackFrom
  <2>3. CASE r \in CrushObject(Items, caller)
    BY <1>b, <2>1, <2>3, ObjectFits DEF ReadsBackFrom
  <2> QED
    BY <1>2, <2>2, <2>3 DEF Outcome
<1> QED
  BY <1>1, <1>2 DEF Outcome

\* From the table that replaces an array every value can be read again, whatever
\* objects were flattened and whatever was blank: of fields without lists, whose
\* booleans have, at each path, a column for themselves.
THEOREM TablesReadBack == Spec => []TableReadsBack
<1>1. Init => TableReadsBack
  BY DEF Init, TableReadsBack, Pending
<1>2. WellFormed /\ TableReadsBack /\ [Next]_vars => TableReadsBack'
  <2> SUFFICES ASSUME WellFormed, TableReadsBack, [Next]_vars PROVE TableReadsBack'
    OBVIOUS
  <2>1. TableReadsBack <=> ReadsBackFrom(result)
    BY DEF TableReadsBack, ReadsBackFrom
  <2>2. ASSUME UNCHANGED <<caller, doc>>, ReadsBackFrom(result') PROVE TableReadsBack'
    BY <2>2 DEF TableReadsBack, ReadsBackFrom, Items
  <2>3. CASE result' = Pending
    BY <2>3 DEF TableReadsBack, Pending
  <2>4. CASE UNCHANGED vars
    BY <2>1, <2>2, <2>4 DEF vars
  <2>5. CASE Outcome(result') /\ UNCHANGED <<caller, doc>>
    BY <2>2, <2>5, OutcomesReadBack
  <2> QED
    BY <2>3, <2>4, <2>5, StepsOfResults
<1>3. Spec => []WellFormed
  BY WellFormedInvariant
<1> QED
  BY <1>1, <1>2, <1>3, PTL DEF Spec
=============================================================================

---------------------------- MODULE AdaptiveSizer ----------------------------
(***************************************************************************)
(* How many items are worth keeping: core/transforms/adaptivesizer.        *)
(*                                                                         *)
(* An item is [hash, bigrams]: the bits that are set in its SimHash, and   *)
(* the set of its word pairs.  Fractions are percentages and the products  *)
(* of the code's floats are exact.                                         *)
(***************************************************************************)
EXTENDS SeqOrder

CONSTANTS
  FewItems,   \* that many items are all kept (8 in the code)
  FewGroups   \* that many groups are redundancy, and the distance inside a group (3)

ASSUME SizerAssumption == FewItems \in Nat /\ FewGroups \in Nat

HammingDistance(a, b) == Cardinality((a \ b) \union (b \ a))

\* Greedy clusters: an item joins one when it is near its first member.
CountUniqueSimhash(items, threshold) ==
  LET reps[i \in 0 .. Len(items)] ==
        IF i = 0 THEN {}
        ELSE LET prev == reps[i - 1]
             IN IF \E r \in prev : HammingDistance(r, items[i].hash) <= threshold
                THEN prev ELSE prev \union {items[i].hash}
  IN Cardinality(reps[Len(items)])

\* How many word pairs the first items have between them.
ComputeUniqueBigramCurve(items) ==
  [i \in DOMAIN items |-> Cardinality(UNION {items[j].bigrams : j \in 1 .. i})]

\* The point of a curve that is farthest above its chord, the first of equals;
\* 0 when it is near the chord or the curve too short.
FindKnee(curve) ==
  LET n        == Len(curve)
      range    == curve[n] - curve[1]
      above(i) == (curve[i] - curve[1]) * (n - 1) - (i - 1) * range
      knee     == CHOOSE i \in 1 .. n : \A j \in 1 .. n :
                    above(j) <= above(i) /\ (j < i => above(j) < above(i))
  IN IF n < 3 THEN 0
     ELSE IF range = 0 THEN 1
     ELSE IF 20 * above(knee) < (n - 1) * range THEN 0
     ELSE knee

\* Whether the first k compress better than all of them is for DEFLATE to say;
\* when they do, a fifth is added.
ValidateWithZlib(n, k, maxK) ==
  IF k >= n \/ k >= maxK THEN {k} ELSE {k, AtMost((12 * k) \div 10, maxK)}

\* The share of n items that their diversity asks for.
Diverse(n, unique) == (3 * n + 7 * unique) \div 10

KneeOf(items, unique, minK) ==
  LET n     == Len(items)
      knee  == FindKnee(ComputeUniqueBigramCurve(items))
      floor == AtLeast(minK, Diverse(n, unique))
  IN IF knee = 0 THEN floor
     ELSE IF 10 * unique > 7 * n THEN AtLeast(knee, floor)
     ELSE knee

\* The results that ComputeOptimalK may have.
ComputeOptimalK(items, bias, minK, maxK) ==
  LET n      == Len(items)
      unique == CountUniqueSimhash(items, FewGroups)
      scaled == AtLeast(minK, (KneeOf(items, unique, minK) * bias) \div 100)
  IN IF n <= FewItems THEN {n}
     ELSE IF unique <= FewGroups THEN {AtMost(AtLeast(minK, unique), maxK)}
     ELSE {AtLeast(minK, AtMost(k, maxK)) : k \in ValidateWithZlib(n, AtMost(scaled, maxK), maxK)}
=============================================================================

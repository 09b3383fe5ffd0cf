---------------------------- MODULE AnchorSelector ----------------------------
(***************************************************************************)
(* Positions of an array that are kept for their place:                    *)
(* core/transforms/anchorselector.                                         *)
(*                                                                         *)
(* Positions count from 0, as in the code.  An array is a sequence of      *)
(* objects, and an object a function from its fields to their values; two  *)
(* objects are equal when their hashes are.  Weights are percentages and   *)
(* scores parts of ten thousand.                                           *)
(***************************************************************************)
EXTENDS SeqOrder

CONSTANTS
  AnchorBudgetPct, MinAnchorSlots, MaxAnchorSlots, CandidateMultiplier,
  UseInformationDensity, DedupAnchors,
  LengthOf(_)   \* the length of the JSON text of an object

ASSUME AnchorAssumption ==
  /\ {AnchorBudgetPct, MinAnchorSlots, MaxAnchorSlots, CandidateMultiplier} \subseteq Nat
  /\ {UseInformationDensity, DedupAnchors} \subseteq BOOLEAN

Patterns == {"search_results", "logs", "time_series", "generic"}

-----------------------------------------------------------------------------
(* How many positions, and where *)

CalculateAnchorBudget(n, maxItems) ==
  IF n <= maxItems THEN 0
  ELSE AtMost(n, AtMost(MaxAnchorSlots,
                        AtLeast(MinAnchorSlots, (maxItems * AnchorBudgetPct) \div 100)))

BaseWeights ==
  [search_results |-> [front |-> 75, middle |-> 10, back |-> 15],
   logs           |-> [front |-> 15, middle |-> 10, back |-> 75],
   time_series    |-> [front |-> 45, middle |-> 10, back |-> 45],
   generic        |-> [front |-> 50, middle |-> 10, back |-> 40]]

\* A query [recent, historic] moves weight to the back or to the front, not both.
AdjustWeightsForQuery(base, query) ==
  IF query.recent = query.historic THEN base
  ELSE IF query.recent
  THEN [base EXCEPT !.front = AtLeast(10, @ - 15), !.back = AtMost(80, @ + 15)]
  ELSE [base EXCEPT !.front = AtMost(80, @ + 15), !.back = AtLeast(10, @ - 15)]

\* The slots of the three regions; the ends have one each whatever the budget.
Slots(budget, w) ==
  LET total  == w.front + w.middle + w.back
      front  == AtLeast(1, (budget * w.front) \div total)
      back   == AtLeast(1, (budget * w.back) \div total)
  IN [front  |-> front,
      middle |-> AtLeast(0, budget - front - back),
      back   |-> AtLeast(1, AtMost(back, budget - front))]

-----------------------------------------------------------------------------
(* Information density *)

\* How rare an object's values are on average.
calculateValueUniqueness(item, region) ==
  LET n       == Len(region)
      same(f) == Cardinality({j \in 1 .. n : f \in DOMAIN region[j] /\ region[j][f] = item[f]})
  IN IF n < 2 \/ DOMAIN item = {} THEN 5000
     ELSE (10000 * SumOf([f \in DOMAIN item |-> n - same(f)], DOMAIN item))
            \div (n * Cardinality(DOMAIN item))

calculateLengthScore(item, region) ==
  LET lengths == {LengthOf(region[j]) : j \in DOMAIN region}
      least   == CHOOSE l \in lengths : \A k \in lengths : l <= k
      most    == CHOOSE l \in lengths : \A k \in lengths : k <= l
  IN IF Len(region) < 2 \/ least = most THEN 5000
     ELSE (10000 * (LengthOf(item) - least)) \div (most - least)

\* How many of the rare fields it has, and of the common ones it has not.
calculateStructuralUniqueness(item, region) ==
  LET n        == Len(region)
      fields   == UNION {DOMAIN region[j] : j \in 1 .. n}
      count(f) == Cardinality({j \in 1 .. n : f \in DOMAIN region[j]})
      common   == {f \in fields : 100 * count(f) >= 80 * n}
      rare     == {f \in fields : 100 * count(f) < 20 * n}
      share(S, of) == IF of = {} THEN 0 ELSE (5000 * Cardinality(S)) \div Cardinality(of)
  IN IF n < 2 THEN 5000
     ELSE share(rare \intersect DOMAIN item, rare) + share(common \ DOMAIN item, common)

CalculateInformationScore(item, region) ==
  (40 * calculateValueUniqueness(item, region)
   + 30 * calculateLengthScore(item, region)
   + 30 * calculateStructuralUniqueness(item, region)) \div 100

-----------------------------------------------------------------------------
(* Regions *)

\* The i-th of k positions that divide a region evenly.
Probe(from, to, k, i) == AtMost(from + (i * (to - from)) \div (k + 1), to - 1)

\* A position and its neighbours in the region, numbered as they are tried.
Around(from, to, at) ==
  LET places == <<at, at + 1, at - 1, at + 2, at - 2>>
  IN [n \in {m \in DOMAIN places : from <= places[m] /\ places[m] < to} |-> places[n]]

\* The candidates of a region, the densest first.
ByDensity(items, from, to, slots) ==
  LET k        == AtMost(slots * CandidateMultiplier, to - from)
      region   == SubSeq(items, from + 1, to)
      probes   == {Probe(from, to, k, i) : i \in 1 .. k}
      score    == [j \in probes |-> CalculateInformationScore(items[j + 1], region)]
      place(j) == Cardinality({p \in probes : score[p] > score[j] \/ (score[p] = score[j] /\ p < j)})
  IN << >> \o [n \in 1 .. Cardinality(probes) |-> <<CHOOSE j \in probes : place(j) = n - 1>>]

\* For each slot or candidate the positions of which the first new one is taken.
Tries(items, from, to, slots, dense) ==
  IF dense THEN ByDensity(items, from, to, slots)
  ELSE IF slots >= to - from THEN [i \in 1 .. to - from |-> <<from + i - 1>>]
  ELSE [i \in 1 .. slots |-> Around(from, to, Probe(from, to, slots, i))]

\* Mutant of Include: an object that was taken before counts as new.
IncludeAll(items, seen, j) == TRUE

Include(items, seen, j) == DedupAnchors => items[j + 1] \notin seen

\* Of each of the tries the first new position, until as many as the slots are taken.
Take(items, s, tries, slots) ==
  LET room  == Cardinality(s.taken) + slots
      t[k \in 0 .. Len(tries)] ==
        IF k = 0 THEN s
        ELSE LET prev  == t[k - 1]
                 fresh == {n \in DOMAIN tries[k] : Include(items, prev.seen, tries[k][n])}
                 at    == tries[k][CHOOSE n \in fresh : \A m \in fresh : n <= m]
             IN IF fresh = {} \/ Cardinality(prev.taken) >= room THEN prev
                ELSE [taken |-> prev.taken \union {at}, seen |-> prev.seen \union {items[at + 1]}]
  IN t[Len(tries)]

\* selectRegion, where s is [taken, seen]: the positions taken so far and their objects.
selectRegion(items, s, from, to, slots, dense) ==
  IF slots = 0 \/ from >= to THEN s
  ELSE Take(items, s, Tries(items, from, to, slots, dense), slots)

FrontRegion(items, slots) ==
  selectRegion(items, [taken |-> {}, seen |-> {}], 0,
               AtMost(2 * slots.front, Len(items) \div 3), slots.front, FALSE)

BackRegion(items, front, slots) ==
  LET n == Len(items)
  IN selectRegion(items, front, AtLeast(n - 2 * slots.back, (2 * n) \div 3), n, slots.back, FALSE)

\* What is between as many at the ends as these have taken.
MiddleRegion(items, front, back, slots) ==
  selectRegion(items, back, Cardinality(front.taken),
               Len(items) - Cardinality(back.taken \ front.taken), slots.middle,
               UseInformationDensity)

\* The anchors of the front, then of the back, then of what is between.
InRegions(items, slots) ==
  LET front == FrontRegion(items, slots)
  IN MiddleRegion(items, front, BackRegion(items, front, slots), slots).taken

\* The positions to keep: all of a small array, else those of the regions.
SelectAnchors(items, maxItems, pattern, query) ==
  LET budget == CalculateAnchorBudget(Len(items), maxItems)
  IN IF Len(items) <= maxItems THEN 0 .. Len(items) - 1
     ELSE IF budget = 0 THEN {}
     ELSE InRegions(items, Slots(budget, AdjustWeightsForQuery(BaseWeights[pattern], query)))
=============================================================================

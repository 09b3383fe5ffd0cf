------------------------------ MODULE SeqOrder ------------------------------
(***************************************************************************)
(* Orders on sequences that the compressors share: Go's sort.SliceStable,  *)
(* the best few of a set, and the elements of a set of indices in order.   *)
(***************************************************************************)
EXTENDS Integers, Sequences, FiniteSets

\* s by the ranks of its elements, which count from 0.  Here and below the empty
\* sequence in front makes TLC evaluate the elements once, not at each use.
ByRank(s, rank) == << >> \o [k \in DOMAIN s |-> s[CHOOSE i \in DOMAIN s : rank[i] = k - 1]]

\* sort.SliceStable(s, Before).
StableSort(s, Before(_, _)) ==
  ByRank(s, [i \in DOMAIN s |->
               Cardinality({j \in DOMAIN s :
                              Before(s[j], s[i]) \/ (j < i /\ ~ Before(s[i], s[j]))})])

\* The k elements of S that come first, of equals those with the lower index.
FirstBy(S, k, Before(_, _)) ==
  {i \in S : Cardinality({j \in S : Before(j, i) \/ (j < i /\ ~ Before(i, j))}) < k}

\* The integers of S, in ascending order.
InOrder(S) ==
  << >> \o [k \in 1 .. Cardinality(S) |-> CHOOSE i \in S : Cardinality({j \in S : j < i}) = k - 1]

\* The elements of s whose indices are in S, in their order.
Picked(s, S) ==
  LET places == InOrder(S) IN << >> \o [k \in DOMAIN places |-> s[places[k]]]

\* The sum of f[i] over a finite set S.
SumOf(f, S) ==
  LET sum[T \in SUBSET S] ==
        IF T = {} THEN 0 ELSE LET i == CHOOSE x \in T : TRUE IN f[i] + sum[T \ {i}]
  IN sum[S]

AtMost(n, m) == IF n < m THEN n ELSE m
AtLeast(n, m) == IF n > m THEN n ELSE m
=============================================================================

--------------------------- MODULE MCInMemoryStore ---------------------------
(***************************************************************************)
(* Small instances of InMemoryStore.                                       *)
(***************************************************************************)
EXTENDS InMemoryStore, TLC

\* Keys, values and goroutines are interchangeable.
Symmetry ==
  Permutations(Keys) \union Permutations(Values) \union Permutations(Threads)
=============================================================================

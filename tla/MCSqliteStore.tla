---------------------------- MODULE MCSqliteStore ----------------------------
(***************************************************************************)
(* Small instances of SqliteStore.                                         *)
(***************************************************************************)
EXTENDS SqliteStore, TLC

\* Keys, values and processes are interchangeable.
Symmetry ==
  Permutations(Keys) \union Permutations(Values) \union Permutations(Processes)
=============================================================================

------------------------- MODULE MCSearchCompressor -------------------------
(***************************************************************************)
(* Small outputs of grep: three files, one on a drive, matches with a word *)
(* of the query or of an error, context lines, a separator between groups, *)
(* and a line with two numbers.                                            *)
(***************************************************************************)
EXTENDS SearchCompressor

MCLines ==
  { <<"main", ":", "1", ":", "x">>,
    <<"main", ":", "2", ":", "query">>,
    <<"main", "-", "3", "-", "x">>,
    <<"util", ":", "1", ":", "error", ":", "2", ":", "x">>,
    <<"util", ":", "2", ":", "x">>,
    <<"c", ":", "/util", ":", "1", ":", "x">>,
    <<"main", ":", ":", "1", ":", "2", ":", "x">>,
    <<"-", "-">> }

MCNumber   == [d \in {"1", "2", "3"} |-> IF d = "1" THEN 1 ELSE IF d = "2" THEN 2 ELSE 3]
MCPieces   == UNION {{l[i] : i \in DOMAIN l} : l \in MCLines}
MCDrives   == {"c", "x"}
MCRoots    == {"/util"}
MCQuery    == {"query"}
MCCategory == [p \in MCPieces |-> IF p = "error" THEN "error" ELSE "none"]
MCPrint    == [p \in MCPieces |-> CASE p = "main" -> {1, 2} [] p = "util" -> {3, 4} [] OTHER -> {}]

NameNumber == [main |-> 2, util |-> 3, c |-> 1]
MCNameBefore(f, g) ==
  \/ NameNumber[f[1]] < NameNumber[g[1]]
  \/ f[1] = g[1] /\ Len(f) < Len(g)
=============================================================================

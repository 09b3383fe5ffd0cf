------------------------------ MODULE Compaction ------------------------------
(***************************************************************************)
(* An array of objects as a table: TabularCompactor and CSVSchemaFormatter *)
(* of core/transforms/smartcrusher/compaction.                             *)
(*                                                                         *)
(* A column is [name, tag, nullable, cells], where a name is the path of   *)
(* fields that its dots join, and what is printed is a sequence of columns *)
(* of printed cells.                                                       *)
(***************************************************************************)
EXTENDS ArrayAnalyzer

CONSTANT MaxFlattenInnerKeys

ASSUME CompactionAssumption ==
  MaxFlattenInnerKeys \in Nat /\ ("" \in DOMAIN Text => Text[""].length = 0)

Missing == <<"missing">>
Blanks  == {Missing, Null}

\* ClassifyCell, as far as tags tell classes apart.
TypeTag(v) ==
  CASE v[1] = "number" -> IF v[2] % One = 0 THEN "int" ELSE "float"
    [] v[1] = "bool"   -> "bool"
    [] OTHER           -> "string"

\* The column of a field, whose tag is that of its last value.
NewColumn(rows, f) ==
  LET cells == << >> \o [i \in DOMAIN rows |-> IF f \in DOMAIN rows[i] THEN rows[i][f] ELSE Missing]
      typed == {i \in DOMAIN cells : cells[i] \notin Blanks}
  IN [name     |-> <<f>>,
      tag      |-> IF typed = {} THEN "string"
                   ELSE TypeTag(cells[CHOOSE i \in typed : \A j \in typed : j <= i]),
      nullable |-> typed # DOMAIN cells,
      cells    |-> cells]

\* Mutant of uniformObjectKeys: the first object speaks for all.
firstObjectKeys(col) ==
  LET having == SelectSeq(col.cells, LAMBDA v : v # Missing)
  IN IF having # << >> /\ \A i \in DOMAIN having : having[i][1] = "dict"
     THEN FieldsIn(DOMAIN having[1][2]) ELSE << >>

\* The fields that the objects of a column have in common, when each cell is an
\* object with just these; a null is none.
uniformObjectKeys(col) ==
  LET having == {col.cells[i] : i \in DOMAIN col.cells} \ {Missing}
  IN IF having # {} /\ (\A v \in having : v[1] = "dict")
                    /\ \A v, w \in having : DOMAIN v[2] = DOMAIN w[2]
     THEN FieldsIn({k \in FieldNames : \A v \in having : k \in DOMAIN v[2]}) ELSE << >>

\* A column for one field of the objects of another; its tag is "json" when the
\* values are of several types.
InnerColumn(col, k) ==
  LET inner(v)   == IF v = Missing \/ k \notin DOMAIN v[2] THEN Missing ELSE v[2][k]
      cells      == << >> \o [i \in DOMAIN col.cells |-> inner(col.cells[i])]
      innerTag(v) == IF v[1] \in {"list", "dict"} THEN "json" ELSE TypeTag(v)
      tags       == {innerTag(cells[i]) : i \in {j \in DOMAIN cells : cells[j] \notin Blanks}}
  IN [name     |-> Append(col.name, k),
      tag      |-> IF tags = {} THEN "string"
                   ELSE IF Cardinality(tags) = 1 THEN CHOOSE t \in tags : TRUE ELSE "json",
      nullable |-> \E i \in DOMAIN cells : cells[i] \in Blanks,
      cells    |-> cells]

flattenUniformNested(col) ==
  LET keys == uniformObjectKeys(col)
  IN IF Len(keys) \in 1 .. MaxFlattenInnerKeys
     THEN << >> \o [i \in DOMAIN keys |-> InnerColumn(col, keys[i])] ELSE <<col>>

\* The columns of a table, in the order of the fields' names.
Compact(rows) ==
  LET fields == Fields(rows)
      upto[i \in 0 .. Len(fields)] ==
        IF i = 0 THEN << >> ELSE upto[i - 1] \o flattenUniformNested(NewColumn(rows, fields[i]))
  IN upto[Len(fields)]

-----------------------------------------------------------------------------
(* Printing *)

\* What encoding/json makes of a value: the parser's arrays have no field that it
\* can see, so that each becomes an empty object.
EmptyObject == <<"dict", << >>>>

Marshalled(v) ==
  LET seen(w) == IF w[1] = "list" THEN EmptyObject ELSE w
  IN IF v[1] = "dict" THEN <<"dict", [f \in DOMAIN v[2] |-> seen(v[2][f])]>> ELSE seen(v)

\* A cell as it is printed: a blank, a text, a number with a point or without, JSON.
writeScalarCSV(v, tag) ==
  CASE v \in Blanks     -> <<"text", "">>
    [] v[1] = "str"     -> <<"text", IF Text[v[2]].length = 0 THEN "" ELSE v[2]>>
    [] v[1] = "bool"    -> <<"text", IF v[2] THEN "true" ELSE "false">>
    [] v[1] = "number"  -> <<IF tag = "int" /\ v[2] % One = 0 THEN "whole" ELSE "point", v[2]>>
    [] OTHER            -> <<"json", Marshalled(v)>>

FormatCompaction(table) ==
  << >> \o [c \in DOMAIN table |->
    [name |-> table[c].name, tag |-> table[c].tag, nullable |-> table[c].nullable,
     cells |-> << >> \o [i \in DOMAIN table[c].cells |-> writeScalarCSV(table[c].cells[i], table[c].tag)]]]

-----------------------------------------------------------------------------
(* Lengths of JSON and of a table, where One is ten *)

NumberLength(n) ==
  LET digits[k \in Nat] == IF k < 10 THEN 1 ELSE 1 + digits[k \div 10]
      size == IF n < 0 THEN 0 - n ELSE n
  IN digits[size \div One] + (IF n < 0 THEN 1 ELSE 0) + (IF n % One = 0 THEN 0 ELSE 2)

ScalarLength(v) ==
  CASE v[1] = "number" -> NumberLength(v[2])
    [] v[1] = "str"    -> Text[v[2]].length + 2
    [] v[1] = "list"   -> Text[v[2]].length
    [] OTHER           -> 4

\* The length of an object given those of its values.
ObjectLength(row, length) ==
  1 + AtLeast(1, SumOf([f \in DOMAIN row |-> Text[f].length + length[f] + 4], DOMAIN row))

ItemLength(row) ==
  LET scalars(r) == [f \in DOMAIN r |-> ScalarLength(r[f])]
  IN ObjectLength(row, [f \in DOMAIN row |->
                          IF row[f][1] = "dict" THEN ObjectLength(row[f][2], scalars(row[f][2]))
                          ELSE ScalarLength(row[f])])

JsonLength(v) == IF v[1] = "dict" THEN ItemLength(v[2]) ELSE ScalarLength(v)

CellLength(v, tag) ==
  CASE v \in Blanks    -> 0
    [] v[1] = "str"    -> Text[v[2]].length
    [] v[1] = "number" -> NumberLength(v[2]) + (IF tag # "int" /\ v[2] % One = 0 THEN 2 ELSE 0)
    [] OTHER           -> JsonLength(Marshalled(v))

ColumnLength(col) ==
  Len(col.tag) + (IF col.nullable THEN 2 ELSE 1)
  + SumOf([i \in DOMAIN col.name |-> Text[col.name[i]].length + 1], DOMAIN col.name)
  + SumOf([i \in DOMAIN col.cells |-> CellLength(col.cells[i], col.tag) + 1], DOMAIN col.cells)

\* Of a table with at most nine rows.
TableLength(table) == 5 + SumOf([c \in DOMAIN table |-> ColumnLength(table[c])], DOMAIN table)

estimateArrayBytesRaw(rows) ==
  1 + SumOf([i \in DOMAIN rows |-> ItemLength(rows[i]) + 1], DOMAIN rows)

\* Whether the table is shorter than the array by a percentage.
SavesEnough(rows, table, pct) ==
  100 * (estimateArrayBytesRaw(rows) - TableLength(table)) >= pct * estimateArrayBytesRaw(rows)
=============================================================================

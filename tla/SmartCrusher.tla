----------------------------- MODULE SmartCrusher -----------------------------
(***************************************************************************)
(* What the smart crusher keeps of an array or an object: Crush of         *)
(* core/transforms/smartcrusher, and who calls it.                         *)
(*                                                                         *)
(* A document is <<"array", items>> or <<"dict", row>>; what lies deeper   *)
(* in it is crushed in the same way before an object and not at all in an  *)
(* array that is.  A caller is [alarms, query, bias]: the live zone has    *)
(* the default constraints, no query and no bias, the JSON offload has no  *)
(* constraints, the query of its context and no bias.                      *)
(***************************************************************************)
EXTENDS CrushPlanner, AdaptiveSizer, Compaction

CONSTANTS
  Chunks, Members,       \* runs of items, and <<key, value>>, that documents are made of
  MaxItems, MaxMembers,  \* bounds on the size of a document
  Callers,
  MinItemsKept, MaxItemsAfterCrush, FirstPct, LastPct,
  LosslessMinSavingsPct, MinTokensToCrush, SmallTokens

\* Values of JSON without objects, and rows whose values are of a kind.
Leaf == ({"str", "list"} \X DOMAIN Text) \union ({"number"} \X Int) \union ({"bool"} \X BOOLEAN)
          \union {Null}

IsObject(v, Is(_)) ==
  /\ v = <<"dict", [f \in DOMAIN v[2] |-> v[2][f]]>>
  /\ IsFiniteSet(DOMAIN v[2]) /\ DOMAIN v[2] \subseteq FieldNames
  /\ \A f \in DOMAIN v[2] : Is(v[2][f])

IsLeaf(v)  == v \in Leaf
IsInner(v) == IsLeaf(v) \/ IsObject(v, IsLeaf)
IsValue(v) == IsLeaf(v) \/ IsObject(v, IsInner)

ASSUME CrusherAssumption ==
  /\ \A s \in DOMAIN Text : IsFiniteSet(Text[s].print)
  /\ \A chunk \in Chunks : /\ chunk \in Seq({chunk[i] : i \in DOMAIN chunk})
                            /\ \A i \in DOMAIN chunk :
                                 /\ IsValue(chunk[i])
                                 /\ chunk[i][1] = "dict" => LengthOf(chunk[i][2]) \in Nat
  /\ \A m \in Members : m[1] \in DOMAIN Text /\ IsInner(m[2])
  /\ {MaxItems, MaxMembers, MinItemsKept, MaxItemsAfterCrush, FirstPct, LastPct,
      LosslessMinSavingsPct, MinTokensToCrush, SmallTokens} \subseteq Nat
  /\ \A c \in Callers : c.alarms \in BOOLEAN /\ c.bias \in Nat
                          /\ DOMAIN c.query = {"asks", "recent", "historic"}

VARIABLES
  caller, doc,
  result      \* what became of the document, or Pending

vars == <<caller, doc, result>>

Pending == [how |-> "pending", kept |-> {}, size |-> 0, must |-> {}, table |-> << >>]

\* An outcome of which no table is made.
Kept(how, kept, size, must) ==
  [how |-> how, kept |-> kept, size |-> size, must |-> must, table |-> << >>]

-----------------------------------------------------------------------------
(* How many *)

\* The bits and word pairs of a value's text, as the adaptive sizer sees them.
PrintOf(v) ==
  CASE v[1] \in {"str", "list"} -> Text[v[2]].print
    [] v[1] = "number"          -> {v[2]}
    [] v[1] = "dict"            -> UNION {Text[f].print \union
                                     (IF v[2][f][1] \in {"str", "list"} THEN Text[v[2][f][2]].print
                                      ELSE IF v[2][f][1] = "number" THEN {v[2][f][2]} ELSE {}) :
                                       f \in DOMAIN v[2]}
    [] OTHER                    -> {}

Totals(items, bias) ==
  ComputeOptimalK([i \in DOMAIN items |-> [hash |-> PrintOf(items[i]), bigrams |-> PrintOf(items[i])]],
                  bias, MinItemsKept, MaxItemsAfterCrush)

\* A percentage, rounded to the nearest integer and to the even one of two.
RoundedPct(n, pct) ==
  LET q == (n * pct) \div 100
      r == (n * pct) % 100
  IN IF 2 * r > 100 \/ (2 * r = 100 /\ q % 2 = 1) THEN q + 1 ELSE q

\* The numbers of first and of last items that are kept of k.
ComputeKSplit(k) ==
  LET first == AtMost(k, AtLeast(1, RoundedPct(k, FirstPct)))
  IN [first |-> first, last |-> AtMost(k - first, AtLeast(1, RoundedPct(k, LastPct)))]

Ends(n, first, last) == (0 .. AtMost(first, n) - 1) \union (AtLeast(n - last, 0) .. n - 1)

\* Positions at even distances, whose labels are new, while there is room.
StrideFill(keep, n, k, cap, label) ==
  LET room == k - Cardinality(keep)
      step == AtLeast(1, (n - 1) \div (room + 1))
      s[i \in 0 .. n] ==
        IF i = 0 THEN keep
        ELSE LET prev == s[i - 1]
             IN IF (i - 1) % step = 0 /\ Cardinality(prev) < cap
                   /\ \A j \in prev : label[j] # label[i - 1]
                THEN prev \union {i - 1} ELSE prev
  IN IF room <= 0 THEN keep ELSE s[n]

-----------------------------------------------------------------------------
(* Arrays.  An operator has the set of the outcomes it may have. *)

classifyArray(items) ==
  LET kinds == {items[i][1] : i \in DOMAIN items}
  IN IF Cardinality(kinds) = 1 /\ kinds \subseteq {"dict", "str", "number"}
     THEN CHOOSE k \in kinds : TRUE ELSE "mixed"

\* The rows that a plan may not drop: what is critical, or what has no budget.
MustOf(rows, an, c) ==
  CASE an.strategy = "top_n" -> applyConstraints(rows, c) \union applyQuerySignals(rows, c)
    [] an.strategy = "skip"  -> Positions(rows)
    [] OTHER                 -> Critical(rows, an.stats)

\* The outcomes for rows, given the table and the analysis of them.
CrushRows(rows, table, an, c, sizes) ==
  LET all == Positions(rows)
  IN UNION {
       IF Len(rows) <= k THEN {Kept("at_limit", all, k, all)}
       ELSE IF Len(rows) >= MinItemsToAnalyze /\ SavesEnough(rows, table, LosslessMinSavingsPct)
       THEN {[Kept("lossless", all, k, all) EXCEPT !.table = FormatCompaction(table)]}
       ELSE {Kept(an.strategy, S, k, MustOf(rows, an, c)) : S \in CreatePlan(rows, an, k, c)} :
         k \in sizes}

CrushArray(items, c) ==
  CrushRows(Bare(items), Compact(Bare(items)), AnalyzeArray(Bare(items)), c, Totals(items, c.bias))

\* A text that is both an error and odd has two places in the budget.
CrushStringArray(items, c) ==
  LET n       == Len(items)
      texts   == Bare(items)
      lengths == << >> \o [i \in 1 .. n |-> Text[texts[i]].length]
      errors  == {i \in Positions(items) : Text[At(texts, i)].alarm}
      odd     == {i \in Positions(items) : Far(At(lengths, i), lengths)}
      fill(k) ==
        LET split == ComputeKSplit(k)
        IN StrideFill(Ends(n, split.first, split.last) \union errors \union odd, n, k,
                      k + Cardinality(errors) + Cardinality(odd),
                      [i \in Positions(items) |-> At(texts, i)])
  IN IF n <= FewItems THEN {Kept("passthrough", Positions(items), n, {})}
     ELSE {Kept("strings", fill(k), k, ({"error"} \X errors) \union ({"odd"} \X odd)) :
             k \in Totals(items, c.bias)}

\* The positions of the first items that are equal to the chosen ones.
SameContent(items, chosen) ==
  {i \in Positions(items) :
     Cardinality({j \in Positions(items) : j < i /\ At(items, j) = At(items, i)})
       < Cardinality({j \in chosen : At(items, j) = At(items, i)})}

\* The positions that CrushNumberArray chooses of k, and those it chooses first.
NumbersToKeep(items, k) ==
  LET n        == Len(items)
      nums     == Bare(items)
      split    == ComputeKSplit(k)
      outliers == {i \in Positions(items) : Far(At(nums, i), nums)}
      changes  == IF PreserveChangePoints /\ n > 2 * ChangeWindow THEN Jumps(nums, ChangeWindow) ELSE {}
  IN [must   |-> outliers \union changes,
      chosen |-> StrideFill(Ends(n, split.first, split.last) \union outliers \union changes, n, k,
                            k + Cardinality(outliers), [i \in Positions(items) |-> i])]

crushNumberArrayIndices(items, c) ==
  IF Len(items) <= FewItems THEN {Kept("passthrough", Positions(items), Len(items), {})}
  ELSE {LET c2 == NumbersToKeep(items, k)
        IN Kept("numbers", SameContent(items, c2.chosen), k, c2.must) : k \in Totals(items, c.bias)}

-----------------------------------------------------------------------------
(* Arrays of several types *)

\* All equals of a kept object or text are kept; of numbers the ends and outliers.
CrushGroup(items, kind, c) ==
  LET group == Picked(items, {i \in DOMAIN items : items[i][1] = kind})
      n     == Len(group)
      nums  == Bare(group)
      outliers == {i \in Positions(group) : Far(At(nums, i), nums)}
      equals(S) == {i \in Positions(group) : \E j \in S : At(group, j) = At(group, i)}
  IN IF n < MinItemsToAnalyze THEN {Positions(group)}
     ELSE CASE kind = "dict"   -> {equals(r.kept) : r \in CrushArray(group, c)}
            [] kind = "str"    -> {equals(r.kept) : r \in CrushStringArray(group, c)}
            [] kind = "number" -> {Ends(n, ComputeKSplit(k).first, ComputeKSplit(k).last)
                                     \union outliers : k \in Totals(group, c.bias)}
            [] OTHER           -> {Positions(group)}

\* The positions in the array of those in the group of a kind.
Regroup(items, kind, S) ==
  {i \in Positions(items) :
     /\ At(items, i)[1] = kind
     /\ Cardinality({j \in Positions(items) : j < i /\ At(items, j)[1] = kind}) \in S}

\* One outcome of each group, when a group's are the sets of its positions.
Together(items, outcomes) ==
  LET kinds == DOMAIN outcomes
      picks == {p \in [kinds -> UNION {outcomes[k] : k \in kinds}] :
                  \A k \in kinds : p[k] \in outcomes[k]}
  IN {Kept("mixed", UNION {Regroup(items, k, p[k]) : k \in kinds}, Len(items), {}) : p \in picks}

crushMixedArrayIndices(items, c) ==
  IF Len(items) <= FewItems THEN {Kept("passthrough", Positions(items), Len(items), {})}
  ELSE Together(items, [k \in {items[i][1] : i \in DOMAIN items} |-> CrushGroup(items, k, c)])

-----------------------------------------------------------------------------
(* Objects, whose keys count in the order of their names *)

KeysOf(row) == FieldsIn(DOMAIN row)

\* What becomes of an object; what is kept are the places of keys.
CrushObject(row, c) ==
  LET keys   == KeysOf(row)
      n      == Len(keys)
      tokens(i) == JsonLength(row[keys[i]]) \div 4 + Text[keys[i]].length \div 4 + 2
      values == << >> \o [i \in 1 .. n |-> <<"dict", [f \in {keys[i]} |-> row[f]]>>]
      errors == {i \in 0 .. n - 1 : Alarming(row[keys[i + 1]])}
      small  == {i \in 0 .. n - 1 : tokens(i + 1) <= SmallTokens}
      fill(k) == StrideFill(errors \union small
                              \union Ends(n, AtLeast(1, RoundedPct(k, FirstPct)),
                                             AtLeast(1, RoundedPct(k, LastPct))),
                            n, k, k + Cardinality(errors), [i \in 0 .. n - 1 |-> i])
  IN IF n <= FewItems \/ SumOf([i \in 1 .. n |-> tokens(i)], 1 .. n) < MinTokensToCrush
     THEN {Kept("passthrough", 0 .. n - 1, n, {})}
     ELSE {IF k >= n THEN Kept("passthrough", 0 .. n - 1, n, {})
           ELSE Kept("object", fill(k), k, errors \union small) : k \in Totals(values, c.bias)}

-----------------------------------------------------------------------------
(* Behaviour *)

Init ==
  /\ caller \in Callers
  /\ doc \in {<<"array", << >>>>, <<"dict", << >>>>}
  /\ result = Pending

Items == doc[2]

Receive ==
  /\ result = Pending /\ doc[1] = "array"
  /\ \E chunk \in Chunks :
       /\ Len(Items) + Len(chunk) <= MaxItems
       /\ doc' = <<"array", Items \o chunk>>
  /\ UNCHANGED <<caller, result>>

ReceiveMember ==
  /\ result = Pending /\ doc[1] = "dict"
  /\ Cardinality(DOMAIN doc[2]) < MaxMembers
  /\ \E m \in Members :
       /\ m[1] \notin DOMAIN doc[2]
       /\ doc' = <<"dict", [f \in DOMAIN doc[2] \union {m[1]} |->
                              IF f = m[1] THEN m[2] ELSE doc[2][f]]>>
  /\ UNCHANGED <<caller, result>>

Finish(outcomes) ==
  /\ result = Pending
  /\ result' \in outcomes
  /\ UNCHANGED <<caller, doc>>

\* Arrays and objects that are too small are left alone.
PassSmall ==
  \/ /\ doc[1] = "array" /\ Len(Items) < MinItemsToAnalyze
     /\ Finish({Kept("small", Positions(Items), Len(Items), {})})
  \/ /\ doc[1] = "dict" /\ Cardinality(DOMAIN Items) < MinItemsToAnalyze
     /\ Finish({Kept("small", 0 .. Cardinality(DOMAIN Items) - 1, Cardinality(DOMAIN Items), {})})

LargeArray(type) ==
  doc[1] = "array" /\ Len(Items) >= MinItemsToAnalyze /\ classifyArray(Items) = type

CrushDicts   == LargeArray("dict")   /\ Finish(CrushArray(Items, caller))
CrushStrings == LargeArray("str")    /\ Finish(CrushStringArray(Items, caller))
CrushNumbers == LargeArray("number") /\ Finish(crushNumberArrayIndices(Items, caller))
CrushMixed   == LargeArray("mixed")  /\ Finish(crushMixedArrayIndices(Items, caller))

CrushKeys ==
  /\ doc[1] = "dict" /\ Cardinality(DOMAIN Items) >= MinItemsToAnalyze
  /\ Finish(CrushObject(Items, caller))

Next == \/ Receive \/ ReceiveMember
        \/ PassSmall \/ CrushDicts \/ CrushStrings \/ CrushNumbers \/ CrushMixed \/ CrushKeys

Spec == Init /\ [][Next]_vars

-----------------------------------------------------------------------------
(* Properties *)

Done == result # Pending

\* Items with an error in them, and, when the caller has constraints, rows of an
\* array of objects that stand out; those of arrays within arrays are not looked at.
Alarms ==
  IF doc[1] = "dict"
  THEN {i \in 0 .. Len(KeysOf(Items)) - 1 : Alarming(Items[KeysOf(Items)[i + 1]])}
  ELSE {i \in Positions(Items) :
          Alarming(At(Items, i)) /\ (caller.alarms \/ At(Items, i)[1] # "dict")}
       \union (IF caller.alarms /\ classifyArray(Items) = "dict"
               THEN DetectStructuralOutliers(Bare(Items)) ELSE {})

SameAs(i, j) == i = j \/ (doc[1] = "array" /\ At(Items, i) = At(Items, j))

\* Whatever else is dropped, an error or an outlier stays, or an equal of it: with
\* the default constraints neither deduplication, nor strides, nor a budget that is
\* smaller than the number of errors, nor the ends of the array push it out.
AlarmsSurvive == Done => \A i \in Alarms : \E j \in result.kept : SameAs(i, j)

\* A plan exceeds its budget only by what may not be dropped: the strategies with
\* priorities keep the larger of the two, the others add the one to the other.
WithinBudget ==
  Done /\ result.how # "mixed" =>
    \/ Cardinality(result.kept) <= result.size
    \/ /\ result.how \in {"smart_sample", "time_series", "cluster"}
       /\ Cardinality(result.kept) <= Cardinality(result.must)
    \/ /\ result.how \notin {"smart_sample", "time_series", "cluster"}
       /\ Cardinality(result.kept) <= result.size + Cardinality(result.must)

\* Anchors are as many as their budget says and no two of them are the same object,
\* though each region has its own slots and looks around for a new one.
AnchorsFit ==
  Done /\ doc[1] = "array" /\ result.how \in {"smart_sample", "time_series", "cluster"} =>
    LET rows == Bare(Items)
    IN \A anchors \in {SelectAnchors(rows, result.size, p, caller.query) : p \in Patterns} :
         /\ Cardinality(anchors) <= CalculateAnchorBudget(Len(rows), result.size)
         /\ \A i, j \in anchors : i # j => At(rows, i) # At(rows, j)

\* The value that a printed cell stands for, when its tag is that of all its column.
Read(cell, tag) ==
  CASE cell[1] = "text"               -> IF cell[2] = "" THEN Null
                                         ELSE IF tag = "bool" THEN <<"bool", cell[2] = "true">>
                                         ELSE <<"str", cell[2]>>
    [] cell[1] \in {"whole", "point"} -> <<"number", cell[2]>>
    [] OTHER                          -> cell[2]

\* What a table does not tell apart: missing, null and empty.
Blankish(v) == IF v \in Blanks \/ (v[1] = "str" /\ Text[v[2]].length = 0) THEN Null ELSE v

\* Whether a table shows a row's value at a path.
Shows(table, path, i, v) ==
  \E c \in DOMAIN table :
    table[c].name = path /\ Blankish(v) = Read(table[c].cells[i], table[c].tag)

\* The values of a field, and those of a field of the objects among them.
Values(rows, f) == {rows[i][f] : i \in {j \in DOMAIN rows : f \in DOMAIN rows[j]}}

InnerValues(values, k) == {v[2][k] : v \in {w \in values : w[1] = "dict" /\ k \in DOMAIN w[2]}}

\* Values that a tag tells the types of: no lists, nor booleans beside other values.
Told(values) ==
  \A v, w \in values \ {Null} : v[1] # "list" /\ (v[1] = "bool" => w[1] = "bool")

Readable(rows, f) ==
  Told(Values(rows, f)) /\ \A k \in FieldNames : Told(InnerValues(Values(rows, f), k))

TableShows(rows, table, f) ==
  \A i \in DOMAIN rows : f \in DOMAIN rows[i] =>
    \/ Shows(table, <<f>>, i, rows[i][f])
    \/ /\ rows[i][f][1] = "dict"
       /\ \A k \in DOMAIN rows[i][f][2] : Shows(table, <<f, k>>, i, rows[i][f][2][k])

\* From the table that replaces an array each value can be read again, but for
\* blanks, whatever objects were flattened to: of fields without lists whose
\* booleans, at each path, have a column for themselves.
TableReadsBack ==
  result.how = "lossless" =>
    LET rows == Bare(Items)
    IN \A f \in UNION {DOMAIN rows[i] : i \in DOMAIN rows} :
         Readable(rows, f) => TableShows(rows, result.table, f)

\* "Package compaction implements lossless JSON array compaction" (compaction.go:1).
CompactionIsLossless ==
  result.how = "lossless" =>
    LET rows == Bare(Items)
    IN \A f \in UNION {DOMAIN rows[i] : i \in DOMAIN rows} : TableShows(rows, result.table, f)

=============================================================================

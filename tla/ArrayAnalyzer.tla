---------------------------- MODULE ArrayAnalyzer ----------------------------
(***************************************************************************)
(* What the smart crusher makes of an array of objects: statistics of its  *)
(* fields, outliers, and whether and how it may be crushed (analyzer.go,   *)
(* field_detect.go, outliers.go and statistics.go of smartcrusher).        *)
(*                                                                         *)
(* A value is <<"number", n>>, <<"str", s>>, <<"bool", b>>, <<"list", s>>, *)
(* <<"null">> or <<"dict", row>>, and a row a function from fields to      *)
(* values, in which an object may be one level deep.  A number n stands for n / One, s for a     *)
(* text that Text describes.  Ratios are percentages.                      *)
(***************************************************************************)
EXTENDS AnchorSelector

CONSTANTS
  FieldOrder,          \* the names of fields, in the order of sort.Strings
  Text,                \* text -> what the code asks of it, for names of fields too
  KeyBefore(_, _),     \* the order of the strings of values
  One,
  EpochSeconds, EpochMillis,   \* the numbers that read as a time in seconds, in milliseconds
  VarianceThreshold, ChangeWindow, MinItemsToAnalyze,
  LevelRatio           \* a field of levels has less different values (10 in the code)

ASSUME AnalyzerAssumption ==
  /\ {One, VarianceThreshold, ChangeWindow, MinItemsToAnalyze} \subseteq Nat \ {0}
  /\ \A s \in DOMAIN Text :
       /\ {"alarm", "length", "uuid", "entropy", "date", "message", "start", "mentions"}
            \subseteq DOMAIN Text[s]
       /\ {Text[s].alarm, Text[s].uuid, Text[s].date, Text[s].message, Text[s].mentions}
            \subseteq BOOLEAN
  /\ FieldOrder \in Seq(DOMAIN Text)
  /\ \A m, n \in DOMAIN FieldOrder : m # n => FieldOrder[m] # FieldOrder[n]

Null == <<"null">>

FieldNames == {FieldOrder[n] : n \in DOMAIN FieldOrder}

Positions(s) == 0 .. Len(s) - 1
At(s, i)     == s[i + 1]

-----------------------------------------------------------------------------
(* Numbers *)

Total(nums) == SumOf(nums, DOMAIN nums)

\* n^2 (n - 1) times the sample variance of n numbers.
Spread(nums) ==
  LET n == Len(nums)
  IN SumOf([i \in DOMAIN nums |-> (n * nums[i] - Total(nums))^2], DOMAIN nums)

\* Whether x is more than VarianceThreshold standard deviations from the mean.
Far(x, nums) ==
  LET n == Len(nums)
  IN n > 1 /\ (n * x - Total(nums))^2 * (n - 1) > VarianceThreshold^2 * Spread(nums)
       /\ Spread(nums) > 0

\* Positions where the mean of a window differs from that of the window before.
Jumps(nums, w) ==
  LET n       == Len(nums)
      sum(from) == Total(SubSeq(nums, from + 1, from + w))
      step(i) == sum(i) - sum(i - w)
  IN {i \in w .. n - w - 1 :
        step(i)^2 * n^2 * (n - 1) > VarianceThreshold^2 * w^2 * Spread(nums)}

\* Without those at most a window behind the last one taken.
Apart(jumps, w) ==
  LET taken[k \in 0 .. Len(jumps)] ==
        IF k = 0 THEN {}
        ELSE LET prev == taken[k - 1]
             IN IF \E j \in prev : jumps[k] - j <= w THEN prev ELSE prev \union {jumps[k]}
  IN taken[Len(jumps)]

DetectChangePoints(nums) ==
  IF Len(nums) < 2 * ChangeWindow \/ Spread(nums) = 0 THEN {}
  ELSE Apart(InOrder(Jumps(nums, ChangeWindow)), ChangeWindow)

\* Numbers that step up by about one; no text of the model reads as a number.
DetectSequentialPattern(nums) ==
  LET n      == Len(nums)
      sorted == StableSort(nums, LAMBDA x, y : x < y)
      diff(i) == sorted[i + 1] - sorted[i]
      avg    == sorted[n] - sorted[1]
      even   == {i \in 1 .. n - 1 : One <= 2 * diff(i) /\ diff(i) <= 2 * One}
      up     == {i \in 1 .. n - 1 : nums[i] <= nums[i + 1]}
  IN /\ n >= 5
     /\ One * (n - 1) <= 2 * avg /\ avg <= 2 * One * (n - 1)
     /\ 10 * Cardinality(even) > 8 * (n - 1)
     /\ 10 * Cardinality(up) > 7 * (n - 1)

-----------------------------------------------------------------------------
(* Fields *)

\* The fields in a set, in their order.
FieldsIn(S) == Picked(FieldOrder, {n \in DOMAIN FieldOrder : FieldOrder[n] \in S})

Fields(rows) == FieldsIn(UNION {DOMAIN rows[i] : i \in DOMAIN rows})

Column(rows, f) ==
  << >> \o [i \in DOMAIN rows |-> IF f \in DOMAIN rows[i] THEN rows[i][f] ELSE Null]

Present(rows, f) ==
  LET having == SelectSeq(rows, LAMBDA r : f \in DOMAIN r)
  IN << >> \o [i \in DOMAIN having |-> having[i][f]]

OfKind(values, k) == SelectSeq(values, LAMBDA v : v[1] = k)
Bare(values)      == << >> \o [i \in DOMAIN values |-> values[i][2]]

\* json.Unmarshal reads a null as zero where a number is wanted, and as the empty
\* string where a string is.
ReadsAsNumber(v) == v = Null \/ v[1] = "number"
NumberOf(v)      == IF v = Null THEN 0 ELSE v[2]
ReadsAsText(v)   == v = Null \/ v[1] = "str"

\* Statistics of a field; a value that is missing counts as null, and the first
\* other value decides on the type.  The places of change points are those among
\* the numbers, which leave out what is missing.
AnalyzeField(rows, f) ==
  LET col  == Column(rows, f)
      some == SelectSeq(col, LAMBDA v : v # Null)
      type == IF some = << >> THEN "null" ELSE some[1][1]
      nums == IF type = "number" THEN Bare(OfKind(col, "number")) ELSE << >>
      strs == IF type = "str" THEN Bare(OfKind(col, "str")) ELSE << >>
  IN [type   |-> type,
      unique |-> IF type = "null" THEN 0 ELSE Cardinality({col[i] : i \in DOMAIN col}),
      nums   |-> nums,
      read   |-> IF type # "number" THEN << >>
                 ELSE LET vs == SelectSeq(Present(rows, f), ReadsAsNumber)
                      IN << >> \o [i \in DOMAIN vs |-> NumberOf(vs[i])],
      spread |-> Spread(nums),
      points |-> DetectChangePoints(nums),
      length |-> [sum |-> SumOf([i \in DOMAIN strs |-> Text[strs[i]].length], DOMAIN strs),
                  of  |-> Len(strs)]]

Least(nums)    == CHOOSE x \in {nums[i] : i \in DOMAIN nums} : \A i \in DOMAIN nums : x <= nums[i]
Greatest(nums) == CHOOSE x \in {nums[i] : i \in DOMAIN nums} : \A i \in DOMAIN nums : nums[i] <= x

\* The confidence that a field is an identifier, 0 when it is none.
DetectIDFieldStatistically(rows, f, st) ==
  LET n      == Len(rows)
      sample == SelectSeq(SubSeq(Column(rows, f), 1, AtMost(n, 20)), ReadsAsText)
      strs   == Bare(OfKind(sample, "str"))
      uuids  == Cardinality({i \in DOMAIN strs : Text[strs[i]].uuid})
      spread == SumOf([i \in DOMAIN strs |-> Text[strs[i]].entropy], DOMAIN strs)
      most   == 100 * st.unique > 95 * n
  IN IF 100 * st.unique < 90 * n THEN 0
     ELSE IF st.type = "str" /\ 10 * uuids > 8 * Len(sample) THEN 95
     ELSE IF st.type = "str" /\ spread > 70 * Len(sample) /\ most THEN 80
     ELSE IF st.type = "number" /\ most /\ DetectSequentialPattern(st.nums) THEN 90
     ELSE IF st.type = "number" /\ most /\ st.spread > 0 THEN 85
     ELSE IF 100 * st.unique > 98 * n THEN 70 ELSE 0

\* The confidence that a field is a score, 0 when it is none: numbers in a usual
\* range, in no sequence, and best ones first or fractions.
DetectScoreFieldStatistically(st) ==
  LET nums   == st.read
      within(lo, hi) == lo * One <= Least(st.nums) /\ Greatest(st.nums) <= hi * One
      range  == IF within(0, 1) THEN 40 ELSE IF within(0, 10) THEN 30
                ELSE IF within(0, 100) THEN 25 ELSE IF within(-1, 1) THEN 35 ELSE 0
      down   == Cardinality({i \in 1 .. Len(nums) - 1 : nums[i] >= nums[i + 1]})
      first  == AtMost(Len(nums), 20)
      parts  == Cardinality({i \in 1 .. first : nums[i] % One # 0})
      sure   == range + (IF Len(nums) >= 5 /\ 10 * down > 7 * (Len(nums) - 1) THEN 30 ELSE 0)
                      + (IF 10 * parts > 3 * first THEN 10 ELSE 0)
  IN IF st.type # "number" THEN 0
     ELSE IF range = 0 \/ DetectSequentialPattern(SubSeq(st.nums, 1, AtMost(Len(st.nums), 50)))
     THEN 0 ELSE IF sure >= 40 THEN sure ELSE 0

-----------------------------------------------------------------------------
(* Outliers, errors and anomalies, as sets of positions *)

\* The string by which values of a field are counted: that of a whole number has
\* lost the zeros at its end, so that 200 and 20 count as one.
stringifyValue(v) ==
  LET strip[n \in Int] == IF n = 0 \/ n % 10 # 0 THEN n ELSE strip[n \div 10]
  IN IF v[1] = "number" /\ v[2] % One = 0 THEN <<"whole", strip[v[2] \div One]>> ELSE v

\* The most frequent values that together make up 80 % of n.
TopValues(count, n) ==
  LET above(k, j) == count[j] > count[k] \/ (count[j] = count[k] /\ KeyBefore(j, k))
      before(k)   == {j \in DOMAIN count : above(k, j)}
  IN {k \in DOMAIN count : SumOf(count, before(k)) < (4 * n + 4) \div 5}

\* Rows whose value of a common field is none of a few frequent ones.
RareIn(rows, f) ==
  LET having == {i \in Positions(rows) : f \in DOMAIN At(rows, i)}
      key    == [i \in having |-> stringifyValue(At(rows, i)[f])]
      keys   == {key[i] : i \in having}
      top    == TopValues([k \in keys |-> Cardinality({i \in having : key[i] = k})],
                          Cardinality(having))
  IN IF Cardinality(keys \ {Null}) \in 2 .. 50 /\ Cardinality(top) <= 5
     THEN {i \in having : key[i] \notin top} ELSE {}

\* Rows with a field that few others have, or with a rare value.
DetectStructuralOutliers(rows) ==
  LET n        == Len(rows)
      used     == UNION {DOMAIN rows[i] : i \in DOMAIN rows}
      count(f) == Cardinality({i \in DOMAIN rows : f \in DOMAIN rows[i]})
      rare     == {f \in used : 100 * count(f) < 20 * n}
      common   == {f \in used : 100 * count(f) >= 80 * n}
  IN IF n < 5 THEN {}
     ELSE {i \in Positions(rows) : DOMAIN At(rows, i) \intersect rare # {}}
          \union UNION {RareIn(rows, f) : f \in common}

\* Whether one of some texts is in a value, or a name of a field in it.
TextIn(v, texts) ==
  LET within(w) == w[1] \in {"str", "list"} /\ w[2] \in texts
  IN \/ within(v)
     \/ v[1] = "dict" /\ \E f \in DOMAIN v[2] :
          \/ f \in texts \/ within(v[2][f])
          \/ v[2][f][1] = "dict" /\ \E g \in DOMAIN v[2][f][2] : g \in texts \/ within(v[2][f][2][g])

\* A keyword in a name of a field is as good as one in a value.
Alarming(v)   == TextIn(v, {s \in DOMAIN Text : Text[s].alarm})
HasAlarm(row) == Alarming(<<"dict", row>>)

DetectErrorItems(rows) == {i \in Positions(rows) : HasAlarm(At(rows, i))}

\* Rows with a number, or a null, far from the mean of its field.
Anomalies(rows, stats) ==
  {i \in Positions(rows) : \E f \in DOMAIN At(rows, i) :
     /\ stats[f].type = "number" /\ ReadsAsNumber(At(rows, i)[f])
     /\ Far(NumberOf(At(rows, i)[f]), stats[f].nums)}

-----------------------------------------------------------------------------
(* The verdict *)

DetectTemporalField(rows, stats) ==
  LET sample(f) == SelectSeq(Present(SubSeq(rows, 1, AtMost(Len(rows), 10)), f), ReadsAsText)
      dates(f)  == SelectSeq(Bare(OfKind(sample(f), "str")), LAMBDA s : Text[s].date)
      isTime(n) == n \in EpochSeconds \/ n \in EpochMillis
  IN \E f \in DOMAIN stats :
       \/ stats[f].type = "str" /\ 2 * Len(dates(f)) > Len(sample(f))
       \/ stats[f].type = "number" /\ isTime(Least(stats[f].nums))

DetectPattern(rows, stats) ==
  LET n      == Len(rows)
      texts  == {f \in DOMAIN stats : stats[f].type = "str"}
      message(f) == 2 * stats[f].unique > n /\ stats[f].length.sum > 20 * stats[f].length.of
      level(f)   == 100 * stats[f].unique < LevelRatio * n /\ stats[f].unique \in 2 .. 10
  IN IF DetectTemporalField(rows, stats) /\ \E f \in DOMAIN stats : stats[f].spread > 0
     THEN "time_series"
     ELSE IF (\E f \in texts : message(f)) /\ \E f \in texts : level(f) /\ ~ message(f) THEN "logs"
     ELSE IF \E f \in DOMAIN stats : DetectScoreFieldStatistically(stats[f]) >= 50
     THEN "search_results" ELSE "generic"

\* The first of the surest fields, if they are sure enough.
FirstOfMost(fields, sure) ==
  LET best == SelectSeq(fields, LAMBDA f :
                sure[f] >= 70 /\ \A g \in DOMAIN sure : sure[g] <= sure[f])
  IN IF best = << >> THEN "none" ELSE Head(best)

\* The field most likely an identifier, the first of equals.
IDField(rows, stats) ==
  FirstOfMost(Fields(rows), [f \in DOMAIN stats |-> DetectIDFieldStatistically(rows, f, stats[f])])

\* Rows that differ much may be crushed only when something tells them apart.
AnalyzeCrushability(rows, stats, id) ==
  LET n       == Len(rows)
      typed(t) == {f \in DOMAIN stats \ {id} : stats[f].type = t}
      unique(S) == SumOf([f \in S |-> stats[f].unique], S)
      below(S, pct) == S = {} \/ 100 * unique(S) < pct * Cardinality(S) * n
      ids     == {id} \ {"none"}
      signal  == \/ \E f \in DOMAIN stats :
                      DetectScoreFieldStatistically(stats[f]) > 0 \/ stats[f].points # {}
                 \/ DetectStructuralOutliers(rows) # {} \/ DetectErrorItems(rows) # {}
                 \/ Anomalies(rows, stats) # {}
  IN \/ id # "none" /\ below(typed("str"), 10) /\ below(typed("number"), 10)
     \/ below(typed("str"), 30) /\ below(ids, 30)
     \/ signal

SelectStrategy(rows, stats, pattern) ==
  IF Len(rows) < MinItemsToAnalyze THEN "none"
  ELSE IF ~ AnalyzeCrushability(rows, stats, IDField(rows, stats)) THEN "skip"
  ELSE IF pattern = "time_series" /\ \E f \in DOMAIN stats : stats[f].points # {}
  THEN "time_series"
  ELSE IF pattern = "logs" /\ \E f \in DOMAIN stats :
            Text[f].message /\ 2 * stats[f].unique < Len(rows)
  THEN "cluster"
  ELSE IF pattern = "search_results" THEN "top_n" ELSE "smart_sample"

Verdict(rows, stats) ==
  [stats |-> stats, strategy |-> SelectStrategy(rows, stats, DetectPattern(rows, stats))]

AnalyzeArray(rows) ==
  Verdict(rows, [f \in UNION {DOMAIN rows[i] : i \in DOMAIN rows} |-> AnalyzeField(rows, f)])
=============================================================================

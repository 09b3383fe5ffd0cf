----------------------------- MODULE CrushPlanner -----------------------------
(***************************************************************************)
(* Which rows of an array of objects are kept: planning.go and             *)
(* orchestration.go of core/transforms/smartcrusher.                       *)
(***************************************************************************)
EXTENDS ArrayAnalyzer

CONSTANTS DedupIdenticalItems, PreserveChangePoints

ASSUME PlannerAssumption == {DedupIdenticalItems, PreserveChangePoints} \subseteq BOOLEAN

-----------------------------------------------------------------------------
(* Orchestration *)

DeduplicateIndicesByContent(keep, rows) ==
  {i \in keep : \A j \in keep : j < i => At(rows, j) # At(rows, i)}

\* The positions that are not kept, in strides of step.
Strides(keep, rows, step) ==
  LET free == InOrder(Positions(rows) \ keep)
      ring(k) == (k - 1) % step
  IN LET order == StableSort([k \in DOMAIN free |-> k], LAMBDA k, l : ring(k) < ring(l))
     IN << >> \o [k \in DOMAIN order |-> free[order[k]]]

\* Rows that differ from all that are kept, until there are max.
FillRemainingSlots(keep, rows, max) ==
  LET room == max - Cardinality(keep)
      step == AtLeast(1, (Len(rows) - Cardinality(keep)) \div (room + 1))
      next == Strides(keep, rows, step)
      s[k \in 0 .. Len(next)] ==
        IF k = 0 THEN keep
        ELSE LET prev == s[k - 1]
             IN IF Cardinality(prev) < max /\ \A j \in prev : At(rows, j) # At(rows, next[k])
                THEN prev \union {next[k]} ELSE prev
  IN IF room <= 0 THEN keep ELSE s[Len(next)]

\* Mutant of TopUp: the last place is given away twice.
TopUpOneMore(S, next, max) ==
  LET s[k \in 0 .. Len(next)] ==
        IF k = 0 THEN S
        ELSE IF Cardinality(s[k - 1]) <= max THEN s[k - 1] \union {next[k]} ELSE s[k - 1]
  IN s[Len(next)]

\* A set with the first elements of a sequence that it has not, up to a size.
TopUp(S, next, max) ==
  LET s[k \in 0 .. Len(next)] ==
        IF k = 0 THEN S
        ELSE IF Cardinality(s[k - 1]) < max THEN s[k - 1] \union {next[k]} ELSE s[k - 1]
  IN s[Len(next)]

\* What is kept before anything else when there is too much.
Critical(rows, stats) ==
  DetectErrorItems(rows) \union DetectStructuralOutliers(rows) \union Anomalies(rows, stats)

\* The first three and the last two.
Tips(n) == InOrder(0 .. AtMost(3, n) - 1) \o InOrder(AtLeast(n - 2, 0) .. n - 1)

\* Mutant of WithPriorities: the critical rows take the last places that are left.
EndsFirst(current, critical, n, max) ==
  IF Cardinality(current) <= max THEN current
  ELSE TopUp({}, Tips(n) \o InOrder(critical) \o InOrder(current), max)

\* Over the budget, what is critical is kept, though it was dropped as a duplicate
\* and though it be more than the budget; then the ends, then the rest.
WithPriorities(current, critical, n, max) ==
  IF Cardinality(current) <= max THEN current
  ELSE TopUp(critical, Tips(n) \o InOrder(current), max)

PrioritizeIndices(rows, stats, keep, max) ==
  LET unique == IF DedupIdenticalItems THEN DeduplicateIndicesByContent(keep, rows) ELSE keep
  IN WithPriorities(FillRemainingSlots(unique, rows, max), Critical(rows, stats), Len(rows), max)

-----------------------------------------------------------------------------
(* Plans.  A caller [alarms, query] has the constraints of the default setup or *)
(* none, and a query [asks, recent, historic].                                  *)

applyConstraints(rows, caller) ==
  IF caller.alarms THEN DetectErrorItems(rows) \union DetectStructuralOutliers(rows) ELSE {}

\* Rows that mention an anchor of the query.
applyQuerySignals(rows, caller) ==
  {i \in Positions(rows) :
     caller.query.asks /\ TextIn(<<"dict", At(rows, i)>>, {s \in DOMAIN Text : Text[s].mentions})}

\* Positions at most so far from a change point of a field.
NearChanges(rows, stats, far) ==
  {i \in Positions(rows) : \E f \in DOMAIN stats : \E p \in stats[f].points :
     i - p <= far /\ p - i <= far}

\* What the query, the constraints and the anchors of a pattern ask for.
Asked(rows, max, pattern, caller) ==
  SelectAnchors(rows, max, pattern, caller.query)
  \union applyConstraints(rows, caller) \union applyQuerySignals(rows, caller)

PlanSmartSample(rows, stats, max, caller) ==
  PrioritizeIndices(rows, stats,
    Asked(rows, max, "generic", caller) \union Anomalies(rows, stats)
      \union (IF PreserveChangePoints THEN NearChanges(rows, stats, 1) ELSE {}), max)

PlanTimeSeries(rows, stats, max, caller) ==
  PrioritizeIndices(rows, stats,
    Asked(rows, max, "time_series", caller) \union NearChanges(rows, stats, 2), max)

\* Fields whose confidence no other exceeds; Go's order of maps decides among them.
ScoreFields(stats) ==
  LET sure(f) == DetectScoreFieldStatistically(stats[f])
  IN {f \in DOMAIN stats : sure(f) > 0 /\ \A g \in DOMAIN stats : sure(g) <= sure(f)}

ScoreOf(row, f) == IF f \in DOMAIN row /\ ReadsAsNumber(row[f]) THEN NumberOf(row[f]) ELSE 0

\* Each set of k rows with the best scores; sort.Slice may put equals in any order.
Best(rows, f, k) ==
  {S \in SUBSET Positions(rows) :
     /\ Cardinality(S) = AtMost(k, Len(rows))
     /\ \A i \in S, j \in Positions(rows) \ S : ScoreOf(At(rows, j), f) <= ScoreOf(At(rows, i), f)}

\* No budget limits what is added to the best.
PlanTopN(rows, stats, max, caller) ==
  {S \union applyConstraints(rows, caller) \union applyQuerySignals(rows, caller) :
     S \in UNION {Best(rows, f, AtLeast(max - 3, 0)) : f \in ScoreFields(stats)}}

\* Fields of texts of which most differ, or none; here too the order of maps decides.
MessageFields(rows, stats) ==
  LET texts == {f \in DOMAIN stats : stats[f].type = "str" /\ 10 * stats[f].unique > 3 * Len(rows)}
      most  == {f \in texts : \A g \in texts : stats[g].unique <= stats[f].unique}
  IN IF texts = {} THEN {"none"} ELSE most

\* The first two rows of each cluster, of messages with the same beginning.
Representatives(rows, f) ==
  LET start(i) == IF f \in DOMAIN At(rows, i) /\ At(rows, i)[f][1] = "str"
                  THEN Text[At(rows, i)[f][2]].start ELSE ""
  IN IF f = "none" THEN {}
     ELSE {i \in Positions(rows) :
             Cardinality({j \in Positions(rows) : j < i /\ start(j) = start(i)}) < 2}

PlanClusterSample(rows, stats, max, caller) ==
  {PrioritizeIndices(rows, stats,
     Asked(rows, max, "logs", caller) \union Representatives(rows, f), max) :
       f \in MessageFields(rows, stats)}

\* The sets of rows that a plan for a strategy may keep.
CreatePlan(rows, analysis, max, caller) ==
  LET stats == analysis.stats
  IN CASE analysis.strategy = "time_series" -> {PlanTimeSeries(rows, stats, max, caller)}
       [] analysis.strategy = "cluster"     -> PlanClusterSample(rows, stats, max, caller)
       [] analysis.strategy = "top_n"       -> PlanTopN(rows, stats, max, caller)
       [] analysis.strategy = "skip"        -> {Positions(rows)}
       [] OTHER                             -> {PlanSmartSample(rows, stats, max, caller)}
=============================================================================

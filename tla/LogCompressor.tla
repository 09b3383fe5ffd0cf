---------------------------- MODULE LogCompressor ----------------------------
(***************************************************************************)
(* What is made of a build log: the log_template reformat, then            *)
(* CompressWithStore of core/transforms/logcompressor in the log offload,  *)
(* as the pipeline runs them.                                              *)
(*                                                                         *)
(* A line is one of LogTemplate; what its words mean to the compressor is  *)
(* in Word and Start.  Scores, ratios and weights are percentages.         *)
(***************************************************************************)
EXTENDS LogTemplate, AdaptiveSizer

CONSTANTS
  Chunks, MaxChunks,   \* the runs of lines a log is made of, and a bound on their number
  Tokens,              \* the words of lines
  Word,                \* word -> the level it names, or "none"
  Start,               \* word -> what a line that starts with it looks like
  Separating,          \* the words that hold a colon or an equals sign
  Normal,              \* word -> what is left of it without its numbers and paths
  Fingerprint,         \* word -> the bits and pairs it gives to a line
  MaxErrors, ErrorContextLines, MaxStackTraces, StackTraceMaxLines, MaxWarnings,
  KeepFirstError, KeepLastError, DedupeWarnings, KeepSummaryLines, EnableCCR,
  MinLinesForCCR, MinCompressionRatioForCCR,
  AdaptiveMinK, MaxTotalLines,
  MinLines, SampleSize, UniquenessWeight, PriorityDilutionWeight,
  BloatThreshold, OffloadFallbackRatio

Levels   == {"error", "fail", "warn", "info", "debug", "trace"}
Flavors  == {"traceback", "at", "arrow", "address"}

\* What a line looks like that begins as a frame does and is none.
Unframed == {"at line", "arrow line"}

ASSUME LogAssumption ==
  /\ {Wildcard, Opening} \subseteq Tokens
  /\ Word \in [Tokens -> Levels \union {"none"}]
  /\ Start \in [Tokens -> Flavors \union Unframed
                        \union {"file", "upper", "digit", "rule", "total", "other"}]
  /\ Separating \subseteq Tokens
  /\ DOMAIN Normal = Tokens
  /\ \A c \in Chunks : \A i \in DOMAIN c : \A k \in DOMAIN c[i].tokens : c[i].tokens[k] \in Tokens
  /\ {MaxErrors, ErrorContextLines, MaxStackTraces, StackTraceMaxLines, MaxWarnings,
      MinLinesForCCR, MinCompressionRatioForCCR, AdaptiveMinK, MaxTotalLines, MinLines,
      SampleSize, UniquenessWeight, PriorityDilutionWeight, BloatThreshold,
      OffloadFallbackRatio, MaxChunks} \subseteq Nat
  /\ {KeepFirstError, KeepLastError, DedupeWarnings, KeepSummaryLines, EnableCCR} \subseteq BOOLEAN

-----------------------------------------------------------------------------
(* What a line is *)

Words(lines) == [i \in DOMAIN lines |-> lines[i].tokens]

Blank(l)    == l.tokens = << >> /\ ~ l.indent
StartsAs(l) == IF l.tokens = << >> THEN "none" ELSE Start[Head(l.tokens)]

\* The gravest word wins, a word of an error at once.
Rank == [error |-> 7, fail |-> 6, warn |-> 5, none |-> 4, info |-> 3, debug |-> 2, trace |-> 1]

classifyLevel(l) ==
  LET named == {Word[l.tokens[k]] : k \in DOMAIN l.tokens} \ {"none"}
  IN IF named = {} THEN "none" ELSE CHOOSE v \in named : \A w \in named : Rank[w] <= Rank[v]

\* The kind of trace that a line is a frame of, or "none": Traceback or a Python
\* file, "at", an arrow, an address.
detectTraceFlavor(l) == IF StartsAs(l) \in Flavors THEN StartsAs(l) ELSE "none"

UpperCase == {"upper", "total", "traceback"}

\* The lines that do not end a trace.  After Python's frames that is any line
\* with a capital, and after Go's any with a digit, such as a time of day.
Continues(flavor, l) ==
  CASE flavor = "traceback" -> l.indent \/ Blank(l) \/ StartsAs(l) \in UpperCase \union {"file"}
    [] flavor = "address"   -> Blank(l) \/ StartsAs(l) \in {"address", "digit"}
    [] flavor = "at"        -> Blank(l) \/ StartsAs(l) \in {"at", "at line"}
    [] flavor = "arrow"     -> Blank(l) \/ StartsAs(l) \in {"arrow", "arrow line"}

isSummaryLine(l) == ~ l.indent /\ StartsAs(l) \in {"rule", "total"}

\* Mutant of FollowTrace: a frame that is found where a trace ends is no frame.
FollowTraceOnce(s, l) ==
  LET found == detectTraceFlavor(l)
  IN IF s.flavor # "none"
     THEN IF s.lines >= StackTraceMaxLines \/ ~ Continues(s.flavor, l)
          THEN [flavor |-> "none", lines |-> 0] ELSE [s EXCEPT !.lines = @ + 1]
     ELSE IF found = "none" THEN s ELSE [flavor |-> found, lines |-> 1]

\* The trace that a line is in, and how many of its lines there are so far.
FollowTrace(s, l) ==
  LET found == detectTraceFlavor(l)
  IN IF s.flavor # "none" /\ s.lines < StackTraceMaxLines /\ Continues(s.flavor, l)
     THEN [s EXCEPT !.lines = @ + 1]
     ELSE [flavor |-> found, lines |-> IF found = "none" THEN 0 ELSE 1]

\* Which lines are in a trace.
TraceLines(lines) ==
  LET s[i \in 0 .. Len(lines)] ==
        IF i = 0 THEN [flavor |-> "none", lines |-> 0] ELSE FollowTrace(s[i - 1], lines[i])
  IN {i \in DOMAIN lines : s[i].flavor # "none"}

LevelScore == [error |-> 100, fail |-> 100, warn |-> 50, info |-> 10, none |-> 10,
               debug |-> 5, trace |-> 2]

scoreLogLine(level, isTrace, isSummary) ==
  AtMost(LevelScore[level] + (IF isTrace THEN 30 ELSE 0) + (IF isSummary THEN 40 ELSE 0), 100)

\* parseLinesFromStrings
parseLines(lines) ==
  LET traces == TraceLines(lines)
  IN [i \in DOMAIN lines |->
        [level   |-> classifyLevel(lines[i]),
         trace   |-> i \in traces,
         summary |-> isSummaryLine(lines[i]),
         score   |-> scoreLogLine(classifyLevel(lines[i]), i \in traces, isSummaryLine(lines[i]))]]

-----------------------------------------------------------------------------
(* Selection *)

\* The first k of a set of lines.
FirstOf(S, k) == {i \in S : Cardinality({j \in S : j < i}) < k}

\* A set of lines, cut to its first, its last and those that score most.
selectWithFirstLast(p, S, maxCount) ==
  LET ends   == {i \in S : \/ KeepFirstError /\ \A j \in S : i <= j
                           \/ KeepLastError /\ \A j \in S : j <= i}
      room   == AtLeast(maxCount - Cardinality(ends), 0)
  IN IF Cardinality(S) <= maxCount THEN S
     ELSE ends \union FirstBy(S \ ends, room, LAMBDA i, j : p[i].score > p[j].score)

\* Warnings are alike when they differ only in numbers and paths that come after
\* the first colon or equals sign.
DedupeKey(l) ==
  [indent |-> l.indent,
   words  |-> [k \in DOMAIN l.tokens |->
                 IF \E j \in 1 .. k : l.tokens[j] \in Separating
                 THEN Normal[l.tokens[k]] ELSE l.tokens[k]]]

dedupeSimilar(lines, S) == {i \in S : \A j \in S : j < i => DedupeKey(lines[j]) # DedupeKey(lines[i])}

\* The first lines of the first stacks; a stack is a run of lines of traces,
\* whatever their flavors.
KeptFrames(p) ==
  LET frames   == {i \in DOMAIN p : p[i].trace}
      tops     == {i \in frames : i - 1 \notin frames}
      TopOf(i) == CHOOSE t \in tops : t <= i /\ \A u \in tops : u <= i => u <= t
  IN {i \in frames : TopOf(i) \in FirstOf(tops, MaxStackTraces) /\ i - TopOf(i) < StackTraceMaxLines}

\* What is kept for its own sake.
Core(lines, p) ==
  LET having(level) == {i \in DOMAIN p : p[i].level = level}
      warnings      == IF DedupeWarnings THEN dedupeSimilar(lines, having("warn")) ELSE having("warn")
  IN selectWithFirstLast(p, having("error"), MaxErrors)
     \union selectWithFirstLast(p, having("fail"), MaxErrors)
     \union FirstOf(warnings, MaxWarnings)
     \union KeptFrames(p)
     \union {i \in DOMAIN p : KeepSummaryLines /\ p[i].summary}

selectLinesCore(lines, p) ==
  {i \in DOMAIN p : \E j \in Core(lines, p) :
     i - j <= ErrorContextLines /\ j - i <= ErrorContextLines}

Item(l) ==
  [hash    |-> UNION {Fingerprint[l.tokens[k]] : k \in DOMAIN l.tokens},
   bigrams |-> IF Len(l.tokens) < 2 THEN {l.tokens}
               ELSE {SubSeq(l.tokens, k, k + 1) : k \in 1 .. Len(l.tokens) - 1}]

\* Mutant of Cut: the first lines are kept, whatever they score.
CutAtEnd(p, S, k) == FirstOf(S, k)

\* The lines that score most.
Cut(p, S, k) == FirstBy(S, k, LAMBDA i, j : p[i].score > p[j].score)

\* The selections that selectLines may return.
selectLines(lines, bias) ==
  LET p    == parseLines(lines)
      core == selectLinesCore(lines, p)
      most == ComputeOptimalK([i \in DOMAIN lines |-> Item(lines[i])], bias, AdaptiveMinK, MaxTotalLines)
  IN IF Cardinality(core) <= AdaptiveMinK THEN {core} ELSE {Cut(p, core, k) : k \in most}

-----------------------------------------------------------------------------
(* CompressWithStore in the log offload *)

\* A line that the compressor makes up; its words are no line of the log.
Written(word) == [indent |-> FALSE, tokens |-> <<word>>, count |-> 0]

\* Whether a line about what is omitted is put below.
Omits(lines, S) ==
  /\ Cardinality(S) < Len(lines)
  /\ \E i \in DOMAIN lines : classifyLevel(lines[i]) \in {"error", "fail", "warn", "info"}

formatOutput(lines, S) ==
  [k \in 1 .. Cardinality(S) |-> lines[InOrder(S)[k]]]
  \o (IF Omits(lines, S) THEN <<Written("omitted")>> ELSE << >>)

\* Whether a selection makes an output short enough for the log to be stashed.
\* The offload takes no other.
EmitsKey(lines, S) ==
  /\ Len(lines) >= MinLinesForCCR
  /\ EnableCCR
  /\ Size(formatOutput(lines, S)) * 100 < Size(lines) * MinCompressionRatioForCCR

\* The first lines one by one; when one of them is blank, all that is below them
\* counts as one more.
Sample(lines) ==
  LET n    == AtMost(Len(lines), SampleSize)
      head == SelectSeq([i \in 1 .. n |-> <<lines[i]>>], LAMBDA s : ~ Blank(s[1]))
      rest == SubSeq(lines, n + 1, Len(lines))
  IN IF Len(head) = SampleSize \/ Words(rest) \in {<< >>, << << >> >>} THEN head
     ELSE Append(head, rest)

\* Repetition and lack of important lines in the sample.
EstimateBloat(lines) ==
  LET sample == Sample(lines)
      n      == Len(sample)
      unique == Cardinality({sample[k] : k \in DOMAIN sample})
      low    == Cardinality({k \in DOMAIN sample : \A i \in DOMAIN sample[k] :
                   classifyLevel(sample[k][i]) \notin {"error", "fail", "warn"}})
  IN IF Len(lines) < MinLines \/ n = 0 THEN 0
     ELSE AtMost(((n - unique) * UniquenessWeight + low * PriorityDilutionWeight) \div n, 100)

-----------------------------------------------------------------------------
(* One log through the pipeline *)

VARIABLES
  log,      \* the log, which a tool prints chunk by chunk
  reads,    \* the number of its chunks
  stage,    \* "reading", "reformatted" or "done"
  current,  \* what the reformat has made of it
  shown,    \* the lines of current on the wire
  wire,     \* the lines on the wire
  stash     \* the lines that the offload has stored, which its marker names

vars == <<log, reads, stage, current, shown, wire, stash>>

Init ==
  /\ log = << >> /\ current = << >> /\ wire = << >> /\ stash = << >>
  /\ shown = {}
  /\ stage = "reading" /\ reads = 0

Receive(c) ==
  /\ stage = "reading"
  /\ reads < MaxChunks
  /\ reads' = reads + 1
  /\ log' = log \o c
  /\ UNCHANGED <<stage, current, shown, wire, stash>>

\* The reformats run first; with nothing saved yet the ratio is above target.
Reformat ==
  /\ stage = "reading" /\ log # << >>
  /\ current' = ApplyTemplate(log)
  /\ wire' = current'
  /\ shown' = DOMAIN current'
  /\ stage' = "reformatted"
  /\ UNCHANGED <<log, reads, stash>>

\* The offload runs for its estimate of the log as it was, and for any above zero
\* when the reformat has saved too little.
Demanded ==
  \/ EstimateBloat(log) >= BloatThreshold
  \/ /\ Size(current) * 100 > Size(log) * OffloadFallbackRatio
     /\ EstimateBloat(log) > 0

OffloadLeaves ==
  /\ stage = "reformatted"
  /\ ~ Demanded \/ \E S \in selectLines(current, 0) : ~ EmitsKey(current, S)
  /\ stage' = "done"
  /\ UNCHANGED <<log, reads, current, shown, wire, stash>>

\* The line that says where the omitted lines are is part of what is sent.
Marked(S) == Append(formatOutput(current, S), Written("marker"))

OffloadKeeps ==
  /\ stage = "reformatted"
  /\ Demanded
  /\ \E S \in selectLines(current, 0) :
       /\ EmitsKey(current, S)
       /\ Size(Marked(S)) < Size(current)
       /\ shown' = S
       /\ wire' = Marked(S)
  /\ stash' = current
  /\ stage' = "done"
  /\ UNCHANGED <<log, reads, current>>

\* With the marker nothing is saved: the pipeline drops the output of an offload
\* that has already stored the log.
OffloadDiscarded ==
  /\ stage = "reformatted"
  /\ Demanded
  /\ \E S \in selectLines(current, 0) :
       EmitsKey(current, S) /\ Size(Marked(S)) >= Size(current)
  /\ stash' = current
  /\ stage' = "done"
  /\ UNCHANGED <<log, reads, current, shown, wire>>

Next ==
  \/ \E c \in Chunks : Receive(c)
  \/ Reformat
  \/ OffloadLeaves \/ OffloadKeeps \/ OffloadDiscarded

Spec == Init /\ [][Next]_vars

-----------------------------------------------------------------------------
(* Properties *)

\* The reader of the wire can have every word of the log back, in order: from the
\* templates and their tables, which the marker of the offload may lead to
\* (log_template.go:34-158; logcompressor.go:180-254).
WordsRecoverable ==
  stage = "done" =>
    Words(Expand(IF wire = current THEN wire ELSE stash)) = Words(log)

\* An error or a failure in the log leaves one on the wire, though its word may
\* have become a slot of a template or a row of a table, and a cap has cut the
\* lines to the best; unless the least total of lines score as much as an alarm,
\* which a warning does that is a summary within a trace
\* (logcompressor.go:657-684, 736-935; log_template.go:102-204).
AlarmSurvives ==
  LET alarms(lines, S) == {i \in S : classifyLevel(lines[i]) \in {"error", "fail"}}
      scored           == parseLines(current)
      rivals           == {i \in DOMAIN current : scored[i].score = LevelScore.error}
                            \ alarms(current, DOMAIN current)
  IN stage = "done" /\ alarms(log, DOMAIN log) # {} /\ Cardinality(rivals) < AdaptiveMinK
       => alarms(current, shown) # {}

\* Every line that looks like a frame is in a trace, and a trace goes on for no
\* more lines than its limit from the last line that looks like one
\* (logcompressor.go:445-569, 688-728).
TracesFollowFrames ==
  stage = "reformatted" =>
    LET frame(i) == detectTraceFlavor(current[i]) # "none"
        traces   == TraceLines(current)
    IN /\ \A i \in DOMAIN current : frame(i) => i \in traces
       /\ \A i \in traces : \E j \in 1 .. i :
            frame(j) /\ i - j < StackTraceMaxLines /\ j .. i \subseteq traces
=============================================================================

-------------------------- MODULE SearchCompressor --------------------------
(***************************************************************************)
(* What is made of the output of grep: CompressWithStore of                *)
(* core/transforms/searchcompressor in the search offload.                 *)
(*                                                                         *)
(* A line is a sequence of pieces: separators, numbers and texts without   *)
(* either.  Scores and ratios are percentages.                             *)
(***************************************************************************)
EXTENDS AdaptiveSizer

CONSTANTS
  Lines, MaxLines,      \* the lines of output, and a bound on their number
  Number,               \* piece -> its value, for those made of digits
  Drives, Roots,        \* single letters, and pieces that begin with a slash
  NameBefore(_, _),     \* the order of the names of files
  Query,                \* the words of the user's query, longer than two letters
  Category,             \* piece -> "error", "importance", "warning" or "none"
  Fingerprint,          \* piece -> the bits and pairs it gives to an item
  MaxMatchesPerFile, MaxTotalMatches, MaxFiles, AdaptiveMinK,
  AlwaysKeepFirst, AlwaysKeepLast, BoostErrors, EnableCCR,
  MinMatchesForCCR, MinCompressionRatioForCCR,
  MinMatches, ClusterThreshold, BloatThreshold, OffloadFallbackRatio

ASSUME SearchAssumption ==
  /\ {MaxLines, MaxMatchesPerFile, MaxTotalMatches, MaxFiles, AdaptiveMinK, MinMatchesForCCR,
      MinCompressionRatioForCCR, MinMatches, ClusterThreshold, BloatThreshold,
      OffloadFallbackRatio} \subseteq Nat
  /\ ClusterThreshold > 0
  /\ {AlwaysKeepFirst, AlwaysKeepLast, BoostErrors, EnableCCR} \subseteq BOOLEAN
  /\ \A l \in Lines : Len(l) > 0

Separators == {":", "-"}
Digits     == DOMAIN Number

\* The first of a set of positions, 0 when there is none.
First(S) == IF S = {} THEN 0 ELSE CHOOSE i \in S : \A j \in S : i <= j

-----------------------------------------------------------------------------
(* Scores *)

\* The category of the first word of a universal one; a warning comes after them.
DetectImportance(body) ==
  LET having(cats) == First({k \in DOMAIN body : Category[body[k]] \in cats})
      at           == having({"error", "importance"})
  IN IF at > 0 THEN Category[body[at]]
     ELSE IF having({"warning"}) > 0 THEN "warning" ELSE "none"

Bump == [error |-> 50, warning |-> 40, importance |-> 30, none |-> 0]

scoreMatch(body) ==
  AtMost(30 * Cardinality({w \in Query : \E k \in DOMAIN body : body[k] = w})
         + (IF BoostErrors THEN Bump[DetectImportance(body)] ELSE 0), 100)

-----------------------------------------------------------------------------
(* The two parsers *)

\* Whether a line number is between separators at i and i + 2.
MatchAt(l, i) ==
  /\ l[i] \in Separators /\ l[i + 1] \in Digits /\ l[i + 2] \in Separators
  /\ i > 1 => l[i - 1] \notin Separators

\* A line of grep, or [ok |-> FALSE] when it is none or nothing is before its
\* first number.  The letter of a drive is no file.
parseMatchLine(l) ==
  LET drive == Len(l) >= 3 /\ l[1] \in Drives /\ l[2] = ":" /\ l[3] \in Roots
      at    == First({i \in (IF drive THEN 3 ELSE 1) .. Len(l) - 2 : MatchAt(l, i)})
  IN IF at <= 1 THEN [ok |-> FALSE]
     ELSE [ok |-> TRUE, file |-> SubSeq(l, 1, at - 1), number |-> l[at + 1],
           body |-> SubSeq(l, at + 3, Len(l)),
           score |-> scoreMatch(SubSeq(l, at + 3, Len(l)))]

\* Mutant of extractFilePrefix: what is before the last number is the file.
extractFilePrefixGreedy(l) ==
  LET at == {i \in 1 .. Len(l) - 2 :
               l[i] \in Separators /\ l[i + 1] \in Digits /\ l[i + 2] = l[i]}
  IN IF at = {} THEN << >> ELSE SubSeq(l, 1, (CHOOSE i \in at : \A j \in at : j <= i) - 1)

\* The file that the offload's estimate counts a match for, or no piece at all:
\* both separators are the same, and any letter before a colon is a drive.
extractFilePrefix(l) ==
  LET drive == Len(l) >= 2 /\ l[1] \in Drives /\ l[2] = ":"
      at    == First({i \in (IF drive THEN 3 ELSE 1) .. Len(l) - 2 :
                        l[i] \in Separators /\ l[i + 1] \in Digits /\ l[i + 2] = l[i]})
  IN IF at = 0 THEN << >> ELSE SubSeq(l, 1, at - 1)

\* The matches of some lines, in their order.
Matches(lines) == SelectSeq([i \in DOMAIN lines |-> parseMatchLine(lines[i])], LAMBDA m : m.ok)

Files(matches)      == {matches[k].file : k \in DOMAIN matches}
OfFile(matches, f)  == SelectSeq(matches, LAMBDA m : m.file = f)

TotalScore(ms) == SumOf([k \in DOMAIN ms |-> ms[k].score], DOMAIN ms)

-----------------------------------------------------------------------------
(* Selection *)

\* The best files, the best one first.
RankedFiles(matches) ==
  LET total  == [f \in Files(matches) |-> TotalScore(OfFile(matches, f))]
      better(f, g) == total[f] > total[g] \/ (total[f] = total[g] /\ NameBefore(f, g))
      rank(f) == Cardinality({g \in DOMAIN total : better(g, f)})
  IN << >> \o [k \in 1 .. AtMost(Cardinality(DOMAIN total), MaxFiles) |->
        CHOOSE f \in DOMAIN total : rank(f) = k - 1]

Item(m) ==
  LET text == m.file \o <<m.number>> \o m.body
  IN [hash |-> UNION {Fingerprint[text[k]] : k \in DOMAIN text}, bigrams |-> {text}]

\* The matches of the ranked files, as the adaptive sizer is given them.
Items(matches, ranked) ==
  LET upto[k \in 0 .. Len(ranked)] ==
        IF k = 0 THEN << >> ELSE upto[k - 1] \o OfFile(matches, ranked[k])
      all == upto[Len(ranked)]
  IN [i \in DOMAIN all |-> Item(all[i])]

\* By score, then by line.
Better(m, n) ==
  \/ m.score > n.score
  \/ m.score = n.score /\ Number[m.number] < Number[n.number]

\* The first k different elements of a sequence.
Distinct(s, k) ==
  LET firsts == InOrder({i \in DOMAIN s : \A j \in 1 .. i - 1 : s[j] # s[i]})
  IN [n \in 1 .. AtMost(Len(firsts), k) |-> s[firsts[n]]]

\* Mutant of Candidates: the ends are those of the matches sorted by score.
CandidatesSorted(ms) ==
  LET sorted == StableSort(ms, Better)
  IN (IF AlwaysKeepFirst THEN <<sorted[1]>> ELSE << >>)
     \o (IF AlwaysKeepLast THEN <<sorted[Len(ms)]>> ELSE << >>)
     \o sorted

\* A file's matches in the order in which they are taken.
Candidates(ms) ==
  (IF AlwaysKeepFirst THEN <<ms[1]>> ELSE << >>)
  \o (IF AlwaysKeepLast THEN <<ms[Len(ms)]>> ELSE << >>)
  \o StableSort(ms, Better)

\* A file's matches under its cap and what is left of the total, in line order.
SelectFile(ms, left) ==
  StableSort(Distinct(Candidates(ms), AtMost(MaxMatchesPerFile, left)),
             LAMBDA m, n : Number[m.number] < Number[n.number])

\* One selected sequence of matches for each ranked file; empty when the total is
\* reached before it.
selectMatches(matches, ranked, total) ==
  LET s[k \in 0 .. Len(ranked)] ==
        IF k = 0 THEN [out |-> << >>, left |-> total]
        ELSE LET prev == s[k - 1]
                 kept == IF prev.left <= 0 THEN << >>
                         ELSE SelectFile(OfFile(matches, ranked[k]), prev.left)
             IN [out |-> Append(prev.out, kept), left |-> prev.left - Len(kept)]
  IN s[Len(ranked)].out

\* Mutant of MatchLine: the number is left out.
MatchLineBare(m) == m.file \o <<":", ":">> \o m.body

MatchLine(m) == m.file \o <<":", m.number, ":">> \o m.body

\* The selected matches by name of file, and how many more there are.
formatOutput(matches, ranked, selected) ==
  LET files   == {k \in DOMAIN ranked : selected[k] # << >>}
      rank(k) == Cardinality({j \in files : NameBefore(ranked[j], ranked[k])})
      sorted  == [n \in 1 .. Cardinality(files) |-> CHOOSE k \in files : rank(k) = n - 1]
      more(k) == Len(OfFile(matches, ranked[k])) - Len(selected[k])
      text(k) == [j \in DOMAIN selected[k] |-> MatchLine(selected[k][j])]
                 \o (IF more(k) > 0 THEN << <<"more">> \o ranked[k] >> ELSE << >>)
      upto[n \in 0 .. Len(sorted)] == IF n = 0 THEN << >> ELSE upto[n - 1] \o text(sorted[n])
  IN upto[Len(sorted)]

\* The length of lines, a piece and a line break as one each.
Size(lines) == SumOf([i \in DOMAIN lines |-> 1 + Len(lines[i])], DOMAIN lines)

-----------------------------------------------------------------------------
(* The offload *)

\* How many matches a file has on average, less one, in parts of the threshold.
EstimateBloat(lines) ==
  LET files == {extractFilePrefix(lines[i]) : i \in DOMAIN lines} \ {<< >>}
      total == Cardinality({i \in DOMAIN lines : extractFilePrefix(lines[i]) # << >>})
      n     == Cardinality(files)
  IN IF total < MinMatches \/ total <= n THEN [parts |-> 0, of |-> 1]
     ELSE [parts |-> AtMost(total - n, n * ClusterThreshold), of |-> n * ClusterThreshold]

\* No reformat applies to search results, so that an estimate above zero is
\* enough wherever the fallback ratio is below one.
Demanded(lines) ==
  LET bloat == EstimateBloat(lines)
  IN \/ 100 * bloat.parts >= BloatThreshold * bloat.of
     \/ OffloadFallbackRatio < 100 /\ bloat.parts > 0

EmitsKey(lines, matches, output) ==
  /\ EnableCCR
  /\ Len(matches) >= MinMatchesForCCR
  /\ Size(output) * 100 < Size(lines) * MinCompressionRatioForCCR

VARIABLES
  content,  \* the output of grep, line by line
  stage,    \* "reading" or "done"
  ranked,   \* the files that were considered, the best one first
  shown,    \* the matches that were selected for each of them
  wire,     \* the lines on the wire
  stash     \* the lines that the offload has stored, which its marker names

vars == <<content, stage, ranked, shown, wire, stash>>

Init ==
  /\ content = << >> /\ ranked = << >> /\ shown = << >> /\ wire = << >> /\ stash = << >>
  /\ stage = "reading"

Receive(l) ==
  /\ stage = "reading"
  /\ Len(content) < MaxLines
  /\ content' = Append(content, l)
  /\ wire' = content'
  /\ UNCHANGED <<stage, ranked, shown, stash>>

\* What the selections with the totals of the adaptive sizer look like.
Outcomes ==
  LET matches == Matches(content)
      best    == RankedFiles(matches)
  IN {[selected |-> selectMatches(matches, best, k), best |-> best, matches |-> matches] :
        k \in ComputeOptimalK(Items(matches, best), 0, AdaptiveMinK, MaxTotalMatches)}

Output(o) == formatOutput(o.matches, o.best, o.selected)

\* The last line on the wire, which names what is stored.
Marker == <<"marker", ":", "hash">>

OffloadLeaves ==
  /\ stage = "reading" /\ content # << >>
  /\ \/ ~ Demanded(content)
     \/ Matches(content) = << >>
     \/ \E o \in Outcomes : ~ EmitsKey(content, o.matches, Output(o))
  /\ stage' = "done"
  /\ UNCHANGED <<content, ranked, shown, wire, stash>>

\* A selection whose output is short enough for the whole to be stored.
Stored(o) ==
  /\ stage = "reading"
  /\ Demanded(content)
  /\ EmitsKey(content, o.matches, Output(o))
  /\ stash' = content
  /\ stage' = "done"

OffloadKeeps ==
  /\ Matches(content) # << >>
  /\ \E o \in Outcomes :
       /\ Stored(o)
       /\ Size(Append(Output(o), Marker)) < Size(content)
       /\ ranked' = o.best
       /\ shown' = o.selected
       /\ wire' = Append(Output(o), Marker)
  /\ UNCHANGED content

\* With the marker nothing is saved: the pipeline drops the output of an offload
\* that has already stored the content.
OffloadDiscarded ==
  /\ Matches(content) # << >>
  /\ \E o \in Outcomes :
       Stored(o) /\ Size(Append(Output(o), Marker)) >= Size(content)
  /\ UNCHANGED <<content, ranked, shown, wire>>

Next == (\E l \in Lines : Receive(l)) \/ OffloadLeaves \/ OffloadKeeps \/ OffloadDiscarded

Spec == Init /\ [][Next]_vars

-----------------------------------------------------------------------------
(* Properties *)

\* What is on the wire reads as the matches that were selected, the same file,
\* line and text, though context lines have changed their separators
\* (searchcompressor.go:199-262, 433-460).
ReadsBack ==
  stage = "done" /\ ranked # << >> =>
    \A f \in Files(Matches(content)) :
      OfFile(Matches(wire), f) =
        IF \E k \in DOMAIN ranked : ranked[k] = f
        THEN shown[CHOOSE k \in DOMAIN ranked : ranked[k] = f] ELSE << >>

\* Each file but the last that is shown is shown with its first and its last
\* match: only the last one runs out of the total (searchcompressor.go:327-429).
EndsShown ==
  stage = "done" /\ MaxMatchesPerFile >= 2 =>
    \A k, j \in DOMAIN ranked :
      /\ k < j /\ shown[j] # << >>
      => LET ms == OfFile(Matches(content), ranked[k])
         IN \A m \in {ms[1], ms[Len(ms)]} : \E i \in DOMAIN shown[k] : shown[k][i] = m

\* Lines of grep with colons, numbers of which nothing else of the line has the
\* form, and names of more than a letter.
PlainLine(l) ==
  /\ l[1] \notin Drives \union Separators \union Digits
  /\ \A i \in DOMAIN l : l[i] # "-"
  /\ \A i \in 1 .. Len(l) - 1 : l[i] = ":" => l[i + 1] # ":"

\* The estimate and the compressor find the same files with as many matches in
\* the output of a plain grep (searchcompressor.go:224-262; search_offload.go:83-109).
ParsersAgree ==
  LET plain == SelectSeq(content, PlainLine)
  IN \A f \in {extractFilePrefix(plain[i]) : i \in DOMAIN plain} \union Files(Matches(plain)) :
       f # << >> =>
         Len(OfFile(Matches(plain), f)) =
           Cardinality({i \in DOMAIN plain : extractFilePrefix(plain[i]) = f})
=============================================================================

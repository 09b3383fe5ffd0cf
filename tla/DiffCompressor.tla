--------------------------- MODULE DiffCompressor ---------------------------
(***************************************************************************)
(* What is made of a diff: CompressWithStore of                            *)
(* core/transforms/diffcompressor, the diff offload around it, and the     *)
(* diff_noise offload, as the pipeline runs them one after the other.      *)
(*                                                                         *)
(* Scores and ratios are percentages, and those of the estimates rounded   *)
(* up.  An output is the sequence of the numbers of the input's lines, 0   *)
(* for a line the compressor makes up.                                     *)
(***************************************************************************)
EXTENDS DiffParser

CONSTANTS
  Chunks,           \* the runs of lines that an output is made of
  MaxChunks,        \* bound on their number
  Query,            \* the words of the user's query, longer than two letters
  MaxContextLines, MaxHunksPerFile, MaxFiles,
  MinLinesForCCR, MinCompressionRatioForCCR,
  EnableCCR,
  MinLines,         \* of the offloads' bloat estimates
  NormalContextRatio,
  DropWhitespaceOnlyHunks,
  NoticeSize        \* size of a notice of diff_noise, in lines

ASSUME DiffAssumption ==
  /\ \A c \in Chunks : /\ c \in Seq({c[i] : i \in DOMAIN c}) /\ Len(c) > 0
                       /\ \A i \in DOMAIN c : c[i].start \in Nat
  /\ IsFiniteSet(Query)
  /\ {MaxChunks, MaxContextLines, MaxHunksPerFile, MaxFiles, MinLinesForCCR,
      MinCompressionRatioForCCR, MinLines, NormalContextRatio, NoticeSize} \subseteq Nat
  /\ {EnableCCR, DropWhitespaceOnlyHunks} \subseteq BOOLEAN

-----------------------------------------------------------------------------
(* Scores and caps *)

HunkLines(h) == h.header + 1 .. h.end

\* A hunk's score: its changes, the words of the query it has, and whether it
\* has a word of the priority list.
Score(c, h) ==
  LET changes  == AtMost(3 * (h.additions + h.deletions), 30)
      named    == {w \in Query : \E i \in HunkLines(h) : w \in c[i].words}
      priority == \E i \in HunkLines(h) : "priority" \in c[i].words
  IN AtMost(changes + 20 * Cardinality(named) + (IF priority THEN 30 ELSE 0), 100)

Additions(f) == SumOf([k \in DOMAIN f.hunks |-> f.hunks[k].additions], DOMAIN f.hunks)
Deletions(f) == SumOf([k \in DOMAIN f.hunks |-> f.hunks[k].deletions], DOMAIN f.hunks)

\* Above the cap the files with most changes are kept, in that order.
CappedFiles(files) ==
  IF Len(files) <= MaxFiles THEN files
  ELSE SubSeq(StableSort(files, LAMBDA f, g : Additions(f) + Deletions(f)
                                               > Additions(g) + Deletions(g)),
              1, MaxFiles)

\* Mutant of Middle: the last hunk is one of them.
MiddleToEnd(hunks) == 2 .. Len(hunks)

\* The hunks between the first and the last.
Middle(hunks) == 2 .. Len(hunks) - 1

\* The best of the middle that fit, the best one first.
KeptMiddle(c, hunks) ==
  LET better(i, j) == Score(c, hunks[i]) > Score(c, hunks[j])
  IN StableSort(InOrder(FirstBy(Middle(hunks), AtLeast(MaxHunksPerFile - 2, 0), better)), better)

\* The first hunk, the last, and the best between them, by the start line in
\* their headers.  Of hunks with equal lines the first stays first, the last last.
selectHunks(c, hunks) ==
  LET kept   == <<1>> \o KeptMiddle(c, hunks)
                \o (IF Len(hunks) > 1 THEN <<Len(hunks)>> ELSE << >>)
      sorted == StableSort(kept, LAMBDA i, j : c[hunks[i].header].start < c[hunks[j].header].start)
  IN IF Len(hunks) <= MaxHunksPerFile THEN hunks
     ELSE [k \in DOMAIN sorted |-> hunks[sorted[k]]]

-----------------------------------------------------------------------------
(* Context *)

\* A hunk's changes with the lines around them; the first lines of a hunk
\* without a change.
KeptLines(c, h) ==
  LET changes == {i \in HunkLines(h) : c[i].kind \in Signed}
  IN IF changes = {}
     THEN {i \in HunkLines(h) : i <= h.header + MaxContextLines}
     ELSE {i \in HunkLines(h) : \/ c[i].kind = "nonewline"
                                \/ \E j \in changes : /\ i - j <= MaxContextLines
                                                      /\ j - i <= MaxContextLines}

\* reduceContext: the hunk's lines are then listed, not a range.
reduceContext(c, h) ==
  LET kept == KeptLines(c, h)
  IN [header |-> h.header, lines |-> InOrder(kept),
      additions |-> Cardinality({i \in kept : c[i].kind \in Added}),
      deletions |-> Cardinality({i \in kept : c[i].kind \in Removed}),
      contexts  |-> Cardinality({i \in kept : c[i].kind \notin Signed})]

-----------------------------------------------------------------------------
(* formatOutput *)

FormatHunk(h) == <<h.header>> \o h.lines

\* A binary file's hunks and names are left out.
FormatFile(f) ==
  <<f.header>> \o f.renames
  \o (IF f.isNew \/ f.isDeleted THEN <<0>> ELSE << >>)
  \o (IF f.isBinary THEN <<0>>
      ELSE (IF f.old > 0 THEN <<f.old>> ELSE << >>) \o (IF f.new > 0 THEN <<f.new>> ELSE << >>)
           \o FlattenSeq([k \in DOMAIN f.hunks |-> FormatHunk(f.hunks[k])]))

formatOutput(pre, files) ==
  pre \o FlattenSeq([k \in DOMAIN files |-> FormatFile(files[k])])
      \o (IF files = << >> THEN << >> ELSE <<0>>)

-----------------------------------------------------------------------------
(* CompressWithStore *)

PassThrough(c) ==
  [kind |-> "passthrough", output |-> [i \in DOMAIN c |-> i], cacheKey |-> FALSE,
   files |-> << >>, additions |-> 0, deletions |-> 0, kept |-> 0, removed |-> 0]

\* A file with its hunks selected and trimmed.
CompressFile(c, f) ==
  LET selected == selectHunks(c, f.hunks)
  IN [f EXCEPT !.hunks = [k \in DOMAIN selected |-> reduceContext(c, selected[k])]]

Sum(s) == SumOf(s, DOMAIN s)

\* Whether the output is short enough for the original to be stashed.
Saves(c, output) ==
  EnableCCR /\ Len(output) * 100 < Len(c) * MinCompressionRatioForCCR

Compressed(c, parsed) ==
  LET files  == CappedFiles(parsed.files)
      small  == [k \in DOMAIN files |-> CompressFile(c, files[k])]
      output == formatOutput(parsed.pre, small)
  IN [kind |-> "compressed", output |-> output, cacheKey |-> Saves(c, output), files |-> small,
      additions |-> Sum([k \in DOMAIN files |-> Additions(files[k])]),
      deletions |-> Sum([k \in DOMAIN files |-> Deletions(files[k])]),
      kept      |-> Sum([k \in DOMAIN files |-> Len(small[k].hunks)]),
      removed   |-> Sum([k \in DOMAIN files |-> Len(files[k].hunks) - Len(small[k].hunks)])]

CompressWithStore(c) ==
  LET parsed == parseDiff(c)
  IN IF Len(c) < MinLinesForCCR \/ parsed.files = << >> THEN PassThrough(c)
     ELSE Compressed(c, parsed)

-----------------------------------------------------------------------------
(* The diff offload *)

\* How far the share of context lines is above what is normal.
EstimateBloat(c) ==
  LET b     == BloatCounts(c)
      lines == b.context + b.change
      above == 100 * b.context - NormalContextRatio * lines
  IN IF Len(c) < MinLines \/ lines = 0 \/ above <= 0 THEN 0
     ELSE AtMost((100 * above) \div ((100 - NormalContextRatio) * lines) + 1, 100)

-----------------------------------------------------------------------------
(* The diff_noise offload *)

\* The path of a section is the one its header names.
isLockfile(c, seg) == c[seg.at].lock

Adds(c, seg) == SelectSeq(seg.body, LAMBDA i : c[i].kind = "plus")
Subs(c, seg) == SelectSeq(seg.body, LAMBDA i : c[i].kind = "minus")
Texts(c, s)  == [k \in DOMAIN s |-> c[s[k]].text]

\* What is removed from a section and what is added are the same texts, but for
\* white space.
bodyIsWhitespaceOnly(c, seg) ==
  /\ Adds(c, seg) # << >> \/ Subs(c, seg) # << >>
  /\ Texts(c, Adds(c, seg)) = Texts(c, Subs(c, seg))

Droppable(c, seg) ==
  isLockfile(c, seg) \/ (DropWhitespaceOnlyHunks /\ bodyIsWhitespaceOnly(c, seg))

\* The share of the bodies that Apply would drop.
EstimateNoise(c) ==
  LET segs == parseSegments(c)
      body == [k \in DOMAIN segs |-> Len(segs[k].body)]
      all  == Sum(body)
      some == SumOf(body, {k \in DOMAIN segs : Droppable(c, segs[k])})
  IN IF Len(c) < MinLines \/ all = 0 \/ some = 0 THEN 0
     ELSE AtMost((100 * some) \div all + 1, 100)

\* A section without its body, or whole.
ApplySegment(c, seg) == IF Droppable(c, seg) THEN seg.head \o <<0>> ELSE seg.head \o seg.body

Leading(c) == InOrder({i \in DOMAIN c : \A j \in 1 .. i : c[j].kind # "git"})

Skipped == [applied |-> FALSE, output |-> << >>]

\* DiffNoise.Apply: skipped when nothing is dropped, or the notices make up for
\* what is.
ApplyNoise(c) ==
  LET segs   == parseSegments(c)
      output == Leading(c) \o FlattenSeq([k \in DOMAIN segs |-> ApplySegment(c, segs[k])])
      size   == SumOf([k \in DOMAIN output |-> IF output[k] = 0 THEN NoticeSize ELSE 1],
                      DOMAIN output)
  IN IF size >= Len(c) \/ \A k \in DOMAIN segs : ~ Droppable(c, segs[k]) THEN Skipped
     ELSE [applied |-> TRUE, output |-> output]

-----------------------------------------------------------------------------
(* One diff through the pipeline.  No reformat applies to a diff, so that an  *)
(* offload is demanded when its estimate of the content is above zero.        *)

VARIABLES
  content,  \* the diff, which a tool prints chunk by chunk
  reads,    \* the number of its chunks
  stage,    \* "reading", "noise", "diff" or "done"
  wire,     \* the lines of the content as the offloads have left it
  shown,    \* the number in content of each line of wire, or 0
  diff,     \* what CompressWithStore returned
  stash     \* kind of marker -> the lines stored under its key

vars == <<content, reads, stage, wire, shown, diff, stash>>

\* A line the offloads write; mark is the kind of CCR marker it holds.
Written(mark) ==
  [kind |-> IF mark = "blank" THEN "empty" ELSE "other", start |-> 0, text |-> "none",
   words |-> {}, lock |-> FALSE, mark |-> mark]

Init ==
  /\ content = << >> /\ wire = << >> /\ shown = << >>
  /\ stage = "reading" /\ reads = 0
  /\ diff = PassThrough(<< >>)
  /\ stash = << >>

Receive(k) ==
  /\ stage = "reading"
  /\ reads < MaxChunks
  /\ reads' = reads + 1
  /\ content' = content \o k
  /\ wire' = content'
  /\ shown' = [i \in DOMAIN content' |-> i]
  /\ UNCHANGED <<stage, diff, stash>>

\* The lines of an output, with a marker below.
Rewrite(output, tail) ==
  /\ wire'  = [k \in DOMAIN output |-> IF output[k] = 0 THEN Written("none")
                                       ELSE wire[output[k]]] \o tail
  /\ shown' = [k \in DOMAIN output |-> IF output[k] = 0 THEN 0 ELSE shown[output[k]]]
              \o [k \in DOMAIN tail |-> 0]

\* diff_noise has its turn: not demanded, skipped or applied.
NoiseLeaves ==
  /\ stage = "reading" /\ content # << >>
  /\ EstimateNoise(content) = 0 \/ ~ ApplyNoise(content).applied
  /\ stage' = "diff"
  /\ UNCHANGED <<content, reads, wire, shown, diff, stash>>

NoiseDrops ==
  /\ stage = "reading" /\ content # << >>
  /\ EstimateNoise(content) > 0 /\ ApplyNoise(content).applied
  /\ Rewrite(ApplyNoise(content).output, <<Written("blank"), Written("noise")>>)
  /\ stash' = [k \in {"noise"} |-> content]
  /\ stage' = "diff"
  /\ UNCHANGED <<content, reads, diff>>

\* Mutant of Accepts: any compressed output is taken.
AcceptsAll(r) == r.kind = "compressed"

\* The offload skips an output without a cache key: nothing of it is stored.
Accepts(r) == r.cacheKey

\* The diff offload has its turn, on what diff_noise has left of the content its
\* own estimate was made of.
DiffLeaves ==
  /\ stage = "diff"
  /\ EstimateBloat(content) = 0 \/ ~ Accepts(CompressWithStore(wire))
  /\ stage' = "done"
  /\ UNCHANGED <<content, reads, wire, shown, diff, stash>>

DiffCompresses ==
  /\ stage = "diff"
  /\ EstimateBloat(content) > 0
  /\ diff' = CompressWithStore(wire)
  /\ Accepts(diff')
  /\ IF diff'.cacheKey
     THEN /\ Rewrite(diff'.output, <<Written("diff")>>)
          /\ stash' = [k \in DOMAIN stash \union {"diff"} |-> IF k = "diff" THEN wire ELSE stash[k]]
     ELSE Rewrite(diff'.output, << >>) /\ UNCHANGED stash
  /\ stage' = "done"
  /\ UNCHANGED <<content, reads>>

Next ==
  \/ \E k \in Chunks : Receive(k)
  \/ NoiseLeaves \/ NoiseDrops \/ DiffLeaves \/ DiffCompresses

Spec == Init /\ [][Next]_vars

-----------------------------------------------------------------------------
(* Properties *)

Shown(i) == \E k \in DOMAIN shown : shown[k] = i

\* The hunk header above a line of content, 0 when there is none in its file.
HeaderOf(i) ==
  LET above == {j \in 1 .. i - 1 : content[j].kind \in HunkHeaders}
      at    == CHOOSE j \in above : \A k \in above : k <= j
  IN IF above = {} \/ \E j \in at .. i : content[j].kind \in FileHeaders THEN 0 ELSE at

\* The lines of hunks that no scanner takes for a header.
Bodies ==
  {i \in DOMAIN content :
     /\ content[i].kind \in {"plus", "minus", "plus3", "minus3", "context", "empty", "nonewline"}
     /\ HeaderOf(i) # 0}

Changes == {i \in Bodies : content[i].kind \in Signed}

Near(i, j) ==
  HeaderOf(i) = HeaderOf(j) /\ i - j <= MaxContextLines /\ j - i <= MaxContextLines

\* A hunk is shown with all its changes and the context around them, or not at
\* all, whatever the two offloads drop between them; lines keep their order
\* (diffcompressor.go:588-736, 963-1111; diff_noise.go:151-216).
WholeHunks ==
  stage = "done" =>
    /\ \A i \in Changes : Shown(i) <=> Shown(HeaderOf(i))
    /\ \A i \in Changes, j \in Bodies : Shown(i) /\ Near(i, j) => Shown(j)
    /\ \A k, l \in DOMAIN shown :
         /\ k < l
         /\ {shown[k], shown[l]} \subseteq Bodies
         /\ HeaderOf(shown[k]) = HeaderOf(shown[l])
         => shown[k] < shown[l]

\* The counts that are reported, and that the footer shows, are those of what is
\* on the wire and of the hunks that were cut from the files on it
\* (diffcompressor.go:190-226, 1182-1199).
CountsMatchOutput ==
  LET input   == stash["diff"]
      parsed  == parseDiff(input).files
      shows   == {diff.output[k] : k \in DOMAIN diff.output}
      files   == {parsed[k] : k \in {j \in DOMAIN parsed : parsed[j].header \in shows}}
      hunks   == UNION {{f.hunks[j] : j \in DOMAIN f.hunks} : f \in files}
      omitted == {h \in hunks : h.header \notin shows}
      counted(kind) ==
        {i \in UNION {HunkLines(h) : h \in hunks} :
           /\ input[i].kind = kind
           /\ i \in shows \/ \E h \in omitted : i \in HunkLines(h)}
  IN stage = "done" /\ diff.cacheKey =>
       /\ diff.kept + diff.removed = Cardinality(hunks)
       /\ (\A f \in files : ~ f.isBinary) =>
            /\ diff.removed = Cardinality(omitted)
            /\ diff.additions = Cardinality(counted("plus"))
            /\ diff.deletions = Cardinality(counted("minus"))

\* A diff as git prints it: no line of a hunk looks like a file header, and a
\* binary file has nothing below its marker.
Plain ==
  /\ content # << >> /\ content[1].kind = "git"
  /\ \A i \in DOMAIN content :
       /\ content[i].kind \notin {"combined", "hunk3", "plus3", "minus3"}
       /\ content[i].kind \in {"old", "new", "binary"} => HeaderOf(i) = 0
       /\ i > 1 /\ content[i - 1].kind = "binary" => content[i].kind = "git"

\* Content detection and the compressor, which read a diff each in its own way,
\* find the same files and the same changes (unidiff.go:40-153;
\* diffcompressor.go:588-736).
DetectorsAgree ==
  LET found  == DetectDiff(content)
      parsed == parseDiff(content).files
      listed == {k \in DOMAIN parsed : parsed[k].hunks # << >> \/ parsed[k].isBinary}
  IN Plain =>
       /\ found.fileCount = Cardinality(listed)
       /\ found.additions = Sum([k \in DOMAIN parsed |-> Additions(parsed[k])])
       /\ found.deletions = Sum([k \in DOMAIN parsed |-> Deletions(parsed[k])])

\* What the markers of some lines lead to.
Retrieved(lines) == {stash[lines[k].mark] : k \in {j \in DOMAIN lines : lines[j].mark \in DOMAIN stash}}

\* The content can be fetched back from what is on the wire, in one step or in
\* two, even when the context that the diff compressor trims holds the marker of
\* diff_noise (diff_noise.go:112-118; diffcompressor.go:247-265).
OriginalReachable ==
  stage = "done" /\ wire # content =>
    content \in Retrieved(wire) \union UNION {Retrieved(lines) : lines \in Retrieved(wire)}
=============================================================================

----------------------------- MODULE DiffParser -----------------------------
(***************************************************************************)
(* How four scanners of the core read a unified diff, line by line:        *)
(* parseDiff of the diff compressor, parseSegments of the diff_noise       *)
(* offload, DetectDiff of content detection, and the bloat estimate of the *)
(* diff offload.                                                           *)
(*                                                                         *)
(* A line is a record: its kind, by what the matchers tell apart; the start*)
(* line of a hunk header; its text without the first character and without *)
(* white space; the words of it that a query or the priority list may name.*)
(* A line is named by its number in the content.                           *)
(***************************************************************************)
EXTENDS SeqOrder, SequencesExt

FileHeaders == {"git", "combined"}   \* diff --git; diff --combined, diff --cc

\* matchHunkHeader: n times @, the ranges of n - 1 old sides and that of the new
\* one, n times @; n is 2, or 3 and 4 in the diff of a merge.
HunkHeaders == {"hunk", "hunk3"}

Added   == {"plus", "plus3", "new"}    \* +; +++ of an added ++; +++ b/file
Removed == {"minus", "minus3", "old"}  \* -; --- of a removed --; --- a/file

\* Lines whose first character is + or -.
Signed == Added \union Removed

-----------------------------------------------------------------------------
(* parseDiff.  The current file is the last of files, and the current hunk *)
(* its last hunk while open; a hunk runs from its header's successor to    *)
(* its end.                                                                *)

NewFile(i) ==
  [header |-> i, old |-> 0, new |-> 0, isNew |-> FALSE, isDeleted |-> FALSE,
   isBinary |-> FALSE, renames |-> << >>, hunks |-> << >>]

NewHunk(i) == [header |-> i, end |-> i, additions |-> 0, deletions |-> 0, contexts |-> 0]

LastHunk(p) == Last(Last(p.files).hunks)

WithFile(p, f) == [p EXCEPT !.files = Append(Front(@), f)]

WithHunk(p, h) ==
  LET f == Last(p.files) IN WithFile(p, [f EXCEPT !.hunks = Append(Front(@), h)])

\* A line of the open hunk, which counts as one of its changes or contexts.
Counts(p, l) ==
  p.open /\ l.kind \in {"plus", "minus", "context", "empty", "nonewline"}

CountLine(p, i, l) ==
  LET h == [LastHunk(p) EXCEPT !.end = i]
  IN WithHunk(p, CASE l.kind = "plus"      -> [h EXCEPT !.additions = @ + 1]
                   [] l.kind = "minus"     -> [h EXCEPT !.deletions = @ + 1]
                   [] l.kind = "nonewline" -> h
                   [] OTHER                -> [h EXCEPT !.contexts = @ + 1])

\* A line of a file's extended header, or any other.
Described(f, i, l) ==
  CASE l.kind = "newmode" -> [f EXCEPT !.isNew = TRUE]
    [] l.kind = "delmode" -> [f EXCEPT !.isDeleted = TRUE]
    [] l.kind = "rename"  -> [f EXCEPT !.renames = Append(@, i)]
    [] l.kind = "binary"  -> [f EXCEPT !.isBinary = TRUE]
    [] OTHER              -> f

DescribeLine(p, i, l) ==
  LET q == WithFile(p, Described(Last(p.files), i, l))
  IN IF p.open THEN WithHunk(q, [LastHunk(q) EXCEPT !.end = i]) ELSE q

\* Mutant of matchOldFile: any line that begins with --- and a blank.
matchOldFileLoose(l) == l.kind \in {"old", "minus3"}

matchOldFile(l) == l.kind = "old"
matchNewFile(l) == l.kind = "new"

\* A line below a file header that is none of an open hunk's.
FileLine(p, i, l) ==
  LET f == Last(p.files) IN
  CASE l.kind \in HunkHeaders ->
         [WithFile(p, [f EXCEPT !.hunks = Append(@, NewHunk(i))]) EXCEPT !.open = TRUE]
    [] matchOldFile(l) -> WithFile(p, [f EXCEPT !.old = i])
    [] matchNewFile(l) -> WithFile(p, [f EXCEPT !.new = i])
    [] OTHER           -> DescribeLine(p, i, l)

\* One turn of the loop.
ParseLine(p, i, l) ==
  IF Counts(p, l) THEN CountLine(p, i, l)
  ELSE IF l.kind \in FileHeaders
       THEN [p EXCEPT !.files = Append(@, NewFile(i)), !.open = FALSE]
       ELSE IF p.files = << >> THEN [p EXCEPT !.pre = Append(@, i)] ELSE FileLine(p, i, l)

parseDiff(c) ==
  LET parsed[i \in 0 .. Len(c)] ==
        IF i = 0 THEN [pre |-> << >>, files |-> << >>, open |-> FALSE]
        ELSE ParseLine(parsed[i - 1], i, c[i])
  IN parsed[Len(c)]

-----------------------------------------------------------------------------
(* parseSegments: a section per diff --git, whose body begins with a hunk   *)

SegmentLine(s, i, l) ==
  IF l.kind = "git" THEN Append(s, [at |-> i, head |-> <<i>>, body |-> << >>])
  ELSE IF s = << >> THEN s
       ELSE LET seg == Last(s)
            IN Append(Front(s), IF seg.body # << >> \/ l.kind \in HunkHeaders
                                THEN [seg EXCEPT !.body = Append(@, i)]
                                ELSE [seg EXCEPT !.head = Append(@, i)])

parseSegments(c) ==
  LET segs[i \in 0 .. Len(c)] ==
        IF i = 0 THEN << >> ELSE SegmentLine(segs[i - 1], i, c[i])
  IN segs[Len(c)]

-----------------------------------------------------------------------------
(* DetectDiff: files with a hunk or a binary marker, and their changes.    *)
(* cur is the current file: none, or one with or without a hunk.           *)

NoFile == [some |-> FALSE, hunk |-> FALSE, additions |-> 0, deletions |-> 0]
SomeFile == [NoFile EXCEPT !.some = TRUE]

\* Mutant of SaveFile: a file without a hunk is saved, too.
SaveFileAlways(d) ==
  IF d.cur.some
  THEN [d EXCEPT !.fileCount = @ + 1, !.additions = @ + d.cur.additions,
                 !.deletions = @ + d.cur.deletions, !.cur = NoFile]
  ELSE d

\* The current file is saved when it has a hunk.
SaveFile(d) ==
  IF d.cur.hunk
  THEN [d EXCEPT !.fileCount = @ + 1, !.additions = @ + d.cur.additions,
                 !.deletions = @ + d.cur.deletions, !.cur = NoFile]
  ELSE d

DetectLine(d, l) ==
  CASE l.kind = "git"    -> [SaveFile(d) EXCEPT !.cur = SomeFile, !.inHunk = FALSE,
                                                !.hasMinus = FALSE]
    [] l.kind = "binary" -> [d EXCEPT !.cur.some = TRUE, !.cur.hunk = TRUE]
    [] l.kind \in {"old", "minus3"} ->
         [SaveFile(d) EXCEPT !.hasMinus = TRUE, !.inHunk = FALSE]
    [] l.kind \in {"new", "plus3"} /\ d.hasMinus ->
         [d EXCEPT !.cur.some = TRUE, !.inHunk = FALSE]
    [] l.kind = "hunk"   -> [d EXCEPT !.cur.some = TRUE, !.cur.hunk = TRUE, !.inHunk = TRUE]
    [] l.kind \in Added /\ (l.kind = "plus" \/ ~ d.hasMinus) /\ d.inHunk /\ d.cur.some ->
         [d EXCEPT !.cur.additions = @ + 1]
    [] l.kind = "minus" /\ d.inHunk /\ d.cur.some -> [d EXCEPT !.cur.deletions = @ + 1]
    [] OTHER -> d

DetectDiff(c) ==
  LET found[i \in 0 .. Len(c)] ==
        IF i = 0 THEN [fileCount |-> 0, additions |-> 0, deletions |-> 0, cur |-> NoFile,
                       inHunk |-> FALSE, hasMinus |-> FALSE]
        ELSE DetectLine(found[i - 1], c[i])
  IN SaveFile(found[Len(c)])

-----------------------------------------------------------------------------
(* DiffOffload.EstimateBloat: the changes and the contexts in hunks *)

BloatLine(b, l) ==
  CASE l.kind \in HunkHeaders -> [b EXCEPT !.inHunk = TRUE]
    [] l.kind = "git"         -> [b EXCEPT !.inHunk = FALSE]
    [] l.kind \in {"plus", "minus"} /\ b.inHunk -> [b EXCEPT !.change = @ + 1]
    [] l.kind = "context" /\ b.inHunk           -> [b EXCEPT !.context = @ + 1]
    [] OTHER -> b

BloatCounts(c) ==
  LET b[i \in 0 .. Len(c)] ==
        IF i = 0 THEN [change |-> 0, context |-> 0, inHunk |-> FALSE]
        ELSE BloatLine(b[i - 1], c[i])
  IN b[Len(c)]
=============================================================================

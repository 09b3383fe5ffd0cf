------------------------ MODULE DiffCompressorProofs ------------------------
(***************************************************************************)
(* Proofs about DiffParser and DiffCompressor.                             *)
(***************************************************************************)
EXTENDS DiffCompressor, DataLemmas

-----------------------------------------------------------------------------
(* What parseDiff builds *)

Hunk == [header : Nat, end : Nat, additions : Nat, deletions : Nat, contexts : Nat]

File ==
  [header : Nat, old : Nat, new : Nat, isNew : BOOLEAN, isDeleted : BOOLEAN,
   isBinary : BOOLEAN, renames : Seq(Nat), hunks : Seq(Hunk)]

Parse ==
  {p \in [pre : Seq(Nat), files : Seq(File), open : BOOLEAN] :
     p.open => p.files # << >> /\ Last(p.files).hunks # << >>}

\* The last element of a sequence, and what is before it.
LEMMA LastAndFront ==
  ASSUME NEW T, NEW s \in Seq(T), s # << >>
  PROVE  Last(s) \in T /\ Front(s) \in Seq(T) /\ Len(Front(s)) = Len(s) - 1 /\ s = Append(Front(s), Last(s))
<1>1. Len(s) \in Nat /\ Len(s) # 0 /\ Len(s) \in 1 .. Len(s)
  BY EmptySeq
<1>2. Last(s) \in T
  BY <1>1 DEF Last
<1>3. Front(s) \in Seq(T) /\ Len(Front(s)) = Len(s) - 1
        /\ \A k \in 1 .. Len(s) - 1 : Front(s)[k] = s[k]
  BY <1>1 DEF Front
<1>4. s = Append(Front(s), Last(s))
  <2>1. Append(Front(s), Last(s)) \in Seq(T) /\ Len(Append(Front(s), Last(s))) = Len(s)
    BY <1>1, <1>2, <1>3
  <2>2. \A k \in 1 .. Len(s) : Append(Front(s), Last(s))[k] = s[k]
    BY <1>1, <1>2, <1>3 DEF Last
  <2> QED
    BY <2>1, <2>2, SeqEqual
<1> QED
  BY <1>2, <1>3, <1>4

\* A sequence that has got an element.
LEMMA Appended ==
  ASSUME NEW T, NEW s \in Seq(T), NEW x \in T
  PROVE  /\ Append(s, x) \in Seq(T) /\ Append(s, x) # << >>
         /\ Last(Append(s, x)) = x /\ Front(Append(s, x)) = s
BY DEF Last, Front

\* A change of the current file.
LEMMA CurrentFile ==
  ASSUME NEW p \in Parse, p.files # << >>, NEW f \in File, p.open => f.hunks # << >>
  PROVE  /\ Last(p.files) \in File
         /\ WithFile(p, f) \in Parse
         /\ WithFile(p, f) = [pre |-> p.pre, files |-> Append(Front(p.files), f), open |-> p.open]
         /\ WithFile(p, f).files # << >> /\ Last(WithFile(p, f).files) = f
         /\ Front(WithFile(p, f).files) = Front(p.files)
<1>1. p.files \in Seq(File) /\ p.pre \in Seq(Nat) /\ p.open \in BOOLEAN
  BY DEF Parse
<1>2. Last(p.files) \in File /\ Front(p.files) \in Seq(File)
  BY <1>1, LastAndFront
<1>3. PICK fs : fs = Append(Front(p.files), f)
  OBVIOUS
<1>4. fs \in Seq(File) /\ fs # << >> /\ Last(fs) = f /\ Front(fs) = Front(p.files)
  BY <1>2, <1>3, Appended
<1>5. WithFile(p, f) = [pre |-> p.pre, files |-> fs, open |-> p.open]
  <2>1. p \in [pre : Seq(Nat), files : Seq(File), open : BOOLEAN]
    BY DEF Parse
  <2>2. WithFile(p, f) = [p EXCEPT !.files = fs]
    BY <1>3 DEF WithFile
  <2> QED
    BY <2>1, <2>2
<1>6. PICK q : q = WithFile(p, f)
  OBVIOUS
<1>7. q.files = fs /\ q.open = p.open /\ q.pre = p.pre
  BY <1>5, <1>6
<1>8. q \in Parse
  <2>1. q \in [pre : Seq(Nat), files : Seq(File), open : BOOLEAN]
    BY <1>1, <1>4, <1>5, <1>6
  <2>2. q.open => q.files # << >> /\ Last(q.files).hunks # << >>
    BY <1>4, <1>7
  <2> QED
    BY <2>1, <2>2 DEF Parse
<1> QED
  BY <1>2, <1>3, <1>4, <1>5, <1>6, <1>7, <1>8

\* A change of the current hunk.
LEMMA CurrentHunk ==
  ASSUME NEW p \in Parse, p.open, NEW h \in Hunk
  PROVE  /\ LastHunk(p) \in Hunk
         /\ WithHunk(p, h) \in Parse
         /\ WithHunk(p, h) = WithFile(p, [Last(p.files) EXCEPT
                                            !.hunks = Append(Front(Last(p.files).hunks), h)])
         /\ [Last(p.files) EXCEPT !.hunks = Append(Front(Last(p.files).hunks), h)] \in File
         /\ Append(Front(Last(p.files).hunks), h) # << >>
<1>1. p.files \in Seq(File) /\ p.files # << >> /\ Last(p.files).hunks # << >>
  BY DEF Parse
<1>2. Last(p.files) \in File
  BY <1>1, LastAndFront
<1>3. PICK hs : hs = Last(p.files).hunks
  OBVIOUS
<1>4. hs \in Seq(Hunk) /\ hs # << >>
  BY <1>1, <1>2, <1>3 DEF File
<1>5. Last(hs) \in Hunk /\ Front(hs) \in Seq(Hunk)
  BY <1>4, LastAndFront
<1>6. Append(Front(hs), h) \in Seq(Hunk) /\ Append(Front(hs), h) # << >>
  BY <1>5, Appended
<1>7. PICK f : f = [Last(p.files) EXCEPT !.hunks = Append(Front(Last(p.files).hunks), h)]
  OBVIOUS
<1>8. f \in File /\ f.hunks = Append(Front(hs), h)
  BY <1>2, <1>3, <1>6, <1>7 DEF File
<1>9. WithFile(p, f) \in Parse
  BY <1>1, <1>6, <1>8, CurrentFile
<1>10. WithHunk(p, h) = WithFile(p, f)
  BY <1>7 DEF WithHunk
<1> QED
  BY <1>3, <1>5, <1>6, <1>7, <1>8, <1>9, <1>10 DEF LastHunk

\* What a line makes of the current hunk.
Counted(h, i, l) ==
  [header |-> h.header, end |-> i,
   additions |-> h.additions + (IF l.kind = "plus" THEN 1 ELSE 0),
   deletions |-> h.deletions + (IF l.kind = "minus" THEN 1 ELSE 0),
   contexts |-> h.contexts + (IF l.kind \in {"context", "empty"} THEN 1 ELSE 0)]

\* A line of the open hunk makes it longer, and is one of its changes or contexts.
LEMMA CountsOne ==
  ASSUME NEW p \in Parse, NEW i \in Nat, NEW l, Counts(p, l)
  PROVE  /\ Counted(LastHunk(p), i, l) \in Hunk
         /\ CountLine(p, i, l) = WithHunk(p, Counted(LastHunk(p), i, l))
         /\ CountLine(p, i, l) \in Parse
<1>1. PICK h : h = LastHunk(p)
  OBVIOUS
<1>2. p.open /\ l.kind \in {"plus", "minus", "context", "empty", "nonewline"}
  BY DEF Counts
<1>3. PICK h0 \in Hunk : TRUE
  <2>1. [header |-> 0, end |-> 0, additions |-> 0, deletions |-> 0, contexts |-> 0] \in Hunk
    BY DEF Hunk
  <2> QED
    BY <2>1
<1>4. h \in Hunk
  BY <1>1, <1>2, <1>3, CurrentHunk
<1>5. Counted(h, i, l) \in Hunk
  BY <1>4 DEF Counted, Hunk
<1>6. PICK g : g = [h EXCEPT !.end = i]
  OBVIOUS
<1>7. g = [header |-> h.header, end |-> i, additions |-> h.additions,
           deletions |-> h.deletions, contexts |-> h.contexts]
  BY <1>4, <1>6 DEF Hunk
<1>8. CountLine(p, i, l) = WithHunk(p, Counted(h, i, l))
  <2>1. CASE l.kind = "plus"
    <3>1. CountLine(p, i, l) = WithHunk(p, [g EXCEPT !.additions = @ + 1])
      BY <1>1, <1>6, <2>1, Zenon DEF CountLine
    <3>2. [g EXCEPT !.additions = @ + 1] = Counted(h, i, l)
      BY <1>4, <1>7, <2>1 DEF Counted, Hunk
    <3> QED
      BY <3>1, <3>2
  <2>2. CASE l.kind = "minus"
    <3>1. CountLine(p, i, l) = WithHunk(p, [g EXCEPT !.deletions = @ + 1])
      BY <1>1, <1>6, <2>2 DEF CountLine
    <3>2. [g EXCEPT !.deletions = @ + 1] = Counted(h, i, l)
      BY <1>4, <1>7, <2>2 DEF Counted, Hunk
    <3> QED
      BY <3>1, <3>2
  <2>3. CASE l.kind = "nonewline"
    <3>1. CountLine(p, i, l) = WithHunk(p, g)
      BY <1>1, <1>6, <2>3 DEF CountLine
    <3>2. g = Counted(h, i, l)
      BY <1>4, <1>7, <2>3 DEF Counted, Hunk
    <3> QED
      BY <3>1, <3>2
  <2>4. CASE l.kind \in {"context", "empty"}
    <3>1. CountLine(p, i, l) = WithHunk(p, [g EXCEPT !.contexts = @ + 1])
      BY <1>1, <1>6, <2>4 DEF CountLine
    <3>2. [g EXCEPT !.contexts = @ + 1] = Counted(h, i, l)
      BY <1>4, <1>7, <2>4 DEF Counted, Hunk
    <3> QED
      BY <3>1, <3>2
  <2> QED
    BY <1>2, <2>1, <2>2, <2>3, <2>4
<1>9. WithHunk(p, Counted(h, i, l)) \in Parse
  BY <1>2, <1>5, CurrentHunk
<1> QED
  BY <1>1, <1>5, <1>8, <1>9

\* What a line below a file's header makes of the file.
Changed(f, open, i, l) ==
  IF open /\ l.kind \in {"plus", "minus", "context", "empty", "nonewline"}
  THEN [f EXCEPT !.hunks = Append(Front(f.hunks), Counted(Last(f.hunks), i, l))]
  ELSE IF l.kind \in HunkHeaders THEN [f EXCEPT !.hunks = Append(f.hunks, NewHunk(i))]
  ELSE IF l.kind = "old" THEN [f EXCEPT !.old = i]
  ELSE IF l.kind = "new" THEN [f EXCEPT !.new = i]
  ELSE IF open
  THEN [Described(f, i, l) EXCEPT
          !.hunks = Append(Front(f.hunks), [Last(f.hunks) EXCEPT !.end = i])]
  ELSE Described(f, i, l)

\* A file and a hunk that begin are a file and a hunk.
LEMMA NewParts ==
  ASSUME NEW i \in Nat
  PROVE  NewFile(i) \in File /\ NewHunk(i) \in Hunk
<1>1. NewHunk(i) \in Hunk
  BY DEF NewHunk, Hunk
<1>2. << >> \in Seq(Nat) /\ << >> \in Seq(Hunk)
  BY EmptySeq
<1>3. NewFile(i) \in File
  BY <1>2 DEF NewFile, File
<1> QED
  BY <1>1, <1>3

\* A line of an extended header leaves the hunks of its file alone.
LEMMA DescribedType ==
  ASSUME NEW f \in File, NEW i \in Nat, NEW l
  PROVE  /\ Described(f, i, l) \in File
         /\ Described(f, i, l).hunks = f.hunks
         /\ Described(f, i, l).header = f.header
         /\ Described(f, i, l).isBinary <=> (f.isBinary \/ l.kind = "binary")
         /\ Described(f, i, l).old = f.old /\ Described(f, i, l).new = f.new
<1>1. CASE l.kind = "newmode"
  BY <1>1 DEF Described, File
<1>2. CASE l.kind = "delmode"
  BY <1>2 DEF Described, File
<1>3. CASE l.kind = "rename"
  <2>1. Append(f.renames, i) \in Seq(Nat)
    BY DEF File
  <2>2. Described(f, i, l) = [f EXCEPT !.renames = Append(f.renames, i)]
    BY <1>3 DEF Described
  <2> QED
    BY <1>3, <2>1, <2>2 DEF File
<1>4. CASE l.kind = "binary"
  BY <1>4 DEF Described, File
<1>5. CASE l.kind \notin {"newmode", "delmode", "rename", "binary"}
  BY <1>5 DEF Described, File
<1> QED
  BY <1>1, <1>2, <1>3, <1>4, <1>5

\* A line below a file's header.
LEMMA LineOfFile ==
  ASSUME NEW p \in Parse, NEW i \in Nat, NEW l,
         p.files # << >>, l.kind \notin FileHeaders
  PROVE  /\ Changed(Last(p.files), p.open, i, l) \in File
         /\ ParseLine(p, i, l) =
              [pre   |-> p.pre,
               files |-> Append(Front(p.files), Changed(Last(p.files), p.open, i, l)),
               open  |-> p.open \/ l.kind \in HunkHeaders]
         /\ ParseLine(p, i, l) \in Parse
<1>1. PICK f \in File : f = Last(p.files)
  BY LastAndFront DEF Parse
<1>2. p.open \in BOOLEAN /\ (p.open => f.hunks # << >>) /\ f.hunks \in Seq(Hunk)
  BY <1>1 DEF Parse, File
<1>3. CASE Counts(p, l)
  <2>1. p.open /\ l.kind \in {"plus", "minus", "context", "empty", "nonewline"}
    BY <1>3 DEF Counts
  <2>2. PICK h \in Hunk : h = Counted(LastHunk(p), i, l)
    BY <1>3, CountsOne
  <2>3. h = Counted(Last(f.hunks), i, l)
    BY <1>1, <2>2 DEF LastHunk
  <2>4. ParseLine(p, i, l) = WithHunk(p, h) /\ WithHunk(p, h) \in Parse
    BY <1>3, <2>2, CountsOne DEF ParseLine
  <2>5. PICK g : g = [f EXCEPT !.hunks = Append(Front(f.hunks), h)]
    OBVIOUS
  <2>6. g \in File /\ g.hunks # << >> /\ WithHunk(p, h) = WithFile(p, g)
    <3>1. /\ WithHunk(p, h) = WithFile(p, [Last(p.files) EXCEPT
                                            !.hunks = Append(Front(Last(p.files).hunks), h)])
          /\ [Last(p.files) EXCEPT !.hunks = Append(Front(Last(p.files).hunks), h)] \in File
          /\ Append(Front(Last(p.files).hunks), h) # << >>
      BY <2>1, CurrentHunk
    <3> QED
      BY <1>1, <2>5, <3>1 DEF File
  <2>7. Changed(f, p.open, i, l) = g
    BY <2>1, <2>3, <2>5 DEF Changed
  <2>8. WithFile(p, g) = [pre |-> p.pre, files |-> Append(Front(p.files), g), open |-> p.open]
    BY <2>6, CurrentFile
  <2>9. l.kind \notin HunkHeaders
    BY <2>1 DEF HunkHeaders
  <2> QED
    BY <1>1, <2>1, <2>4, <2>6, <2>7, <2>8, <2>9
<1>4. CASE ~ Counts(p, l)
  <2>0. ParseLine(p, i, l) = FileLine(p, i, l)
    BY <1>4 DEF ParseLine
  <2>c. ~ (p.open /\ l.kind \in {"plus", "minus", "context", "empty", "nonewline"})
    BY <1>4 DEF Counts
  <2>1. CASE l.kind \in HunkHeaders
    <3>1. PICK g : g = [f EXCEPT !.hunks = Append(f.hunks, NewHunk(i))]
      OBVIOUS
    <3>2. Append(f.hunks, NewHunk(i)) \in Seq(Hunk) /\ Append(f.hunks, NewHunk(i)) # << >>
      BY <1>2, NewParts, Appended
    <3>3. g \in File /\ g.hunks # << >>
      BY <3>1, <3>2 DEF File
    <3>4. PICK q : q = WithFile(p, g)
      OBVIOUS
    <3>5. /\ q = [pre |-> p.pre, files |-> Append(Front(p.files), g), open |-> p.open]
          /\ q \in Parse /\ q.files # << >> /\ Last(q.files) = g
      BY <3>3, <3>4, CurrentFile
    <3>6. FileLine(p, i, l) = [q EXCEPT !.open = TRUE]
      BY <1>1, <2>1, <3>1, <3>4 DEF FileLine, HunkHeaders, matchOldFile, matchNewFile
    <3>7. [q EXCEPT !.open = TRUE] =
            [pre |-> p.pre, files |-> Append(Front(p.files), g), open |-> TRUE]
      <4>1. PICK fs : fs = Append(Front(p.files), g)
        OBVIOUS
      <4>2. q = [pre |-> p.pre, files |-> fs, open |-> p.open]
        BY <3>5, <4>1
      <4>3. [q EXCEPT !.open = TRUE] = [pre |-> p.pre, files |-> fs, open |-> TRUE]
        <5>1. q \in [pre : {p.pre}, files : {fs}, open : BOOLEAN]
          BY <1>2, <4>2
        <5>2. q.pre = p.pre /\ q.files = fs
          BY <4>2
        <5>3. ASSUME NEW b \in BOOLEAN
              PROVE  [q EXCEPT !.open = b] = [pre |-> p.pre, files |-> fs, open |-> b]
          BY <5>1, <5>2
        <5> QED
          BY <5>3
      <4> QED
        BY <4>1, <4>3
    <3>8. [q EXCEPT !.open = TRUE] \in Parse
      BY <3>3, <3>5 DEF Parse
    <3>9. Changed(f, p.open, i, l) = g
      BY <2>c, <2>1, <3>1 DEF Changed
    <3> QED
      BY <1>1, <2>0, <2>1, <3>3, <3>6, <3>7, <3>8, <3>9
  <2>2. CASE l.kind \in {"old", "new"}
    <3>1. PICK g : g = IF l.kind = "old" THEN [f EXCEPT !.old = i] ELSE [f EXCEPT !.new = i]
      OBVIOUS
    <3>2. g \in File /\ g.hunks = f.hunks
      BY <3>1 DEF File
    <3>3. FileLine(p, i, l) = WithFile(p, g)
      BY <1>1, <2>2, <3>1 DEF FileLine, HunkHeaders, matchOldFile, matchNewFile
    <3>4. /\ WithFile(p, g) = [pre |-> p.pre, files |-> Append(Front(p.files), g), open |-> p.open]
          /\ WithFile(p, g) \in Parse
      BY <1>2, <3>2, CurrentFile
    <3>5. Changed(f, p.open, i, l) = g /\ l.kind \notin HunkHeaders
      BY <2>c, <2>2, <3>1 DEF Changed, HunkHeaders
    <3> QED
      BY <1>1, <1>2, <2>0, <3>2, <3>3, <3>4, <3>5
  <2>3. CASE l.kind \notin HunkHeaders \union {"old", "new"}
    <3>1. FileLine(p, i, l) = DescribeLine(p, i, l)
      BY <2>3 DEF FileLine, matchOldFile, matchNewFile
    <3>2. PICK g : g = Described(f, i, l)
      OBVIOUS
    <3>3. g \in File /\ g.hunks = f.hunks
      BY <3>2, DescribedType
    <3>4. PICK q : q = WithFile(p, g)
      OBVIOUS
    <3>5. /\ q = [pre |-> p.pre, files |-> Append(Front(p.files), g), open |-> p.open]
          /\ q \in Parse /\ q.files # << >> /\ Last(q.files) = g /\ Front(q.files) = Front(p.files)
      BY <1>2, <3>3, <3>4, CurrentFile
    <3>6. CASE ~ p.open
      <4>1. DescribeLine(p, i, l) = q
        BY <1>1, <3>2, <3>4, <3>6 DEF DescribeLine
      <4>2. Changed(f, p.open, i, l) = g
        BY <2>3, <3>2, <3>6 DEF Changed
      <4> QED
        BY <1>1, <1>2, <2>0, <2>3, <3>1, <3>3, <3>5, <4>1, <4>2
    <3>7. CASE p.open
      <4>1. PICK h : h = [LastHunk(q) EXCEPT !.end = i]
        OBVIOUS
      <4>2. LastHunk(q) = Last(f.hunks)
        BY <3>3, <3>5 DEF LastHunk
      <4>3. Last(f.hunks) \in Hunk
        BY <1>2, <3>7, LastAndFront
      <4>4. h \in Hunk /\ h = [Last(f.hunks) EXCEPT !.end = i]
        BY <4>1, <4>2, <4>3 DEF Hunk
      <4>5. DescribeLine(p, i, l) = WithHunk(q, h)
        BY <1>1, <3>2, <3>4, <3>7, <4>1 DEF DescribeLine
      <4>6. PICK e : e = [g EXCEPT !.hunks = Append(Front(g.hunks), h)]
        OBVIOUS
      <4>7. WithHunk(q, h) \in Parse /\ e \in File /\ e.hunks # << >> /\ WithHunk(q, h) = WithFile(q, e)
        <5>1. q.open
          BY <3>5, <3>7
        <5>2. /\ WithHunk(q, h) \in Parse
              /\ WithHunk(q, h) = WithFile(q, [Last(q.files) EXCEPT
                                            !.hunks = Append(Front(Last(q.files).hunks), h)])
              /\ [Last(q.files) EXCEPT !.hunks = Append(Front(Last(q.files).hunks), h)] \in File
              /\ Append(Front(Last(q.files).hunks), h) # << >>
          BY <3>5, <4>4, <5>1, CurrentHunk
        <5> QED
          BY <3>3, <3>5, <4>6, <5>2 DEF File
      <4>8. WithFile(q, e) = [pre |-> q.pre, files |-> Append(Front(q.files), e), open |-> q.open]
        BY <3>5, <4>7, CurrentFile
      <4>9. WithFile(q, e) = [pre |-> p.pre, files |-> Append(Front(p.files), e), open |-> p.open]
        BY <3>5, <4>8
      <4>10. Changed(f, p.open, i, l) = e
        BY <2>c, <2>3, <3>2, <3>3, <3>7, <4>4, <4>6 DEF Changed
      <4> QED
        BY <1>1, <1>2, <2>0, <2>3, <3>1, <3>7, <4>5, <4>7, <4>9, <4>10
    <3> QED
      BY <1>2, <3>6, <3>7
  <2> QED
    BY <2>1, <2>2, <2>3
<1> QED
  BY <1>3, <1>4

\* A line that begins a file.
LEMMA LineOfHeader ==
  ASSUME NEW p \in Parse, NEW i \in Nat, NEW l, l.kind \in FileHeaders
  PROVE  /\ ParseLine(p, i, l) =
              [pre |-> p.pre, files |-> Append(p.files, NewFile(i)), open |-> FALSE]
         /\ ParseLine(p, i, l) \in Parse
<1>1. p \in [pre : Seq(Nat), files : Seq(File), open : BOOLEAN]
  BY DEF Parse
<1>2. PICK fs : fs = Append(p.files, NewFile(i))
  OBVIOUS
<1>3. fs \in Seq(File)
  BY <1>1, <1>2, NewParts
<1>4. ParseLine(p, i, l) = [p EXCEPT !.files = fs, !.open = FALSE]
  BY <1>2 DEF ParseLine, Counts, FileHeaders
<1>5. PICK q : q = [p EXCEPT !.files = fs, !.open = FALSE]
  OBVIOUS
<1>6. ParseLine(p, i, l) = [pre |-> p.pre, files |-> fs, open |-> FALSE]
  <2>1. /\ q \in [pre : Seq(Nat), files : Seq(File), open : BOOLEAN]
        /\ q.pre = p.pre /\ q.files = fs /\ q.open = FALSE
    BY <1>1, <1>3, <1>5
  <2>2. q = [pre |-> q.pre, files |-> q.files, open |-> q.open]
    BY <2>1
  <2> QED
    BY <1>4, <1>5, <2>1, <2>2
<1> QED
  BY <1>1, <1>2, <1>3, <1>6 DEF Parse

\* A line before the first file.
LEMMA LineBeforeFiles ==
  ASSUME NEW p \in Parse, NEW i \in Nat, NEW l, l.kind \notin FileHeaders, p.files = << >>
  PROVE  /\ ParseLine(p, i, l) = [pre |-> Append(p.pre, i), files |-> << >>, open |-> FALSE]
         /\ ParseLine(p, i, l) \in Parse
<1>1. p \in [pre : Seq(Nat), files : Seq(File), open : BOOLEAN] /\ ~ p.open
  BY DEF Parse
<1>2. PICK s : s = Append(p.pre, i)
  OBVIOUS
<1>3. s \in Seq(Nat)
  BY <1>1, <1>2
<1>4. ParseLine(p, i, l) = [p EXCEPT !.pre = s]
  BY <1>1, <1>2 DEF ParseLine, Counts
<1>5. PICK q : q = [p EXCEPT !.pre = s]
  OBVIOUS
<1>6. ParseLine(p, i, l) = [pre |-> s, files |-> << >>, open |-> FALSE]
  <2>1. /\ q \in [pre : Seq(Nat), files : Seq(File), open : BOOLEAN]
        /\ q.pre = s /\ q.files = << >> /\ q.open = FALSE
    BY <1>1, <1>3, <1>5
  <2>2. q = [pre |-> q.pre, files |-> q.files, open |-> q.open]
    BY <2>1
  <2> QED
    BY <1>4, <1>5, <2>1, <2>2
<1> QED
  BY <1>1, <1>2, <1>3, <1>6, EmptySeq DEF Parse

NoParse == [pre |-> << >>, files |-> << >>, open |-> FALSE]

\* Every line keeps the types of what parseDiff builds.
LEMMA LineParses ==
  ASSUME NEW p \in Parse, NEW i \in Nat, NEW l
  PROVE  ParseLine(p, i, l) \in Parse
BY LineOfHeader, LineBeforeFiles, LineOfFile

\* The turns of parseDiff.
LEMMA ParseTurns ==
  ASSUME NEW n \in Nat, NEW c, Len(c) = n
  PROVE  \E t \in [0 .. n -> Parse] :
           /\ t[0] = NoParse
           /\ \A k \in 1 .. n : t[k] = ParseLine(t[k - 1], k, c[k])
           /\ parseDiff(c) = t[n]
<1> DEFINE G(p, k) == ParseLine(p, k, c[k])
           step == [k \in 1 .. n |-> [p \in Parse |-> G(p, k)]]
           F(s) == s = [i \in 0 .. Len(c) |-> IF i = 0 THEN NoParse ELSE G(s[i - 1], i)]
<1>0. NoParse \in Parse
  BY EmptySeq DEF NoParse, Parse
<1>1. \A k \in 1 .. n : \A p \in Parse : G(p, k) \in Parse
  <2>1. \A k \in 1 .. n : k \in Nat
    OBVIOUS
  <2> QED
    BY <2>1, LineParses
<1>2. step \in [1 .. n -> [Parse -> Parse]] /\ \A k \in 1 .. n : \A p \in Parse : step[k][p] = G(p, k)
  <2> HIDE DEF G
  <2> QED
    BY <1>1
<1> HIDE DEF step, G
<1>3. PICK f \in [0 .. n -> Parse] : f[0] = NoParse /\ \A k \in 1 .. n : f[k] = step[k][f[k - 1]]
  <2>1. step \in [1 .. n -> [Parse -> Parse]]
    BY <1>2
  <2> QED
    BY <1>0, <2>1, LoopExists
<1>4. ASSUME NEW k \in 1 .. n PROVE f[k] = G(f[k - 1], k)
  <2>1. f[k - 1] \in Parse
    OBVIOUS
  <2> QED
    BY <1>2, <1>3, <2>1
<1>5. F(f)
  BY <1>3, <1>4
<1> DEFINE t == CHOOSE s : F(s)
<1>6. F(t)
  <2> HIDE DEF F
  <2> QED
    BY <1>5, Zenon
<1>7. parseDiff(c) = t[n]
  <2>1. parseDiff(c) = t[Len(c)]
    BY Zenon DEF parseDiff, NoParse, G
  <2> QED
    BY <2>1
<1> HIDE DEF t
<1>8. t[0] = NoParse /\ \A k \in 1 .. n : t[k] = G(t[k - 1], k)
  BY <1>6
<1>9. t = [k \in 0 .. n |-> t[k]]
  BY <1>6
<1>10. 0 .. n \subseteq {k \in 0 .. n : t[k] \in Parse}
  <2> DEFINE S == {k \in 0 .. n : t[k] \in Parse}
  <2>1. 0 \in S
    BY <1>0, <1>8
  <2>2. ASSUME NEW k \in 1 .. n, k - 1 \in S PROVE k \in S
    BY <1>1, <1>8, <2>2
  <2> HIDE DEF S
  <2>3. 0 .. n \subseteq S
    BY <2>1, <2>2, TurnInduction
  <2> QED
    BY <2>3 DEF S
<1>11. t \in [0 .. n -> Parse]
  BY <1>9, <1>10
<1> QED
  BY <1>7, <1>8, <1>11 DEF G

-----------------------------------------------------------------------------
(* Sums over hunks and over files *)

\* Two functions that are the same on a set have the same sum over it.
LEMMA SumSame ==
  ASSUME NEW S, IsFiniteSet(S), NEW f, NEW g, \A x \in S : f[x] \in Int /\ g[x] = f[x]
  PROVE  SumOf(g, S) = SumOf(f, S)
<1>1. PICK z : z = [x \in S |-> 0]
  OBVIOUS
<1>2. \A x \in S : f[x] \in Int /\ z[x] \in Int /\ f[x] = f[x] - z[x]
  BY <1>1
<1>3. \A x \in S : f[x] \in Int /\ z[x] \in Int /\ g[x] = f[x] - z[x]
  BY <1>1
<1>4. SumOf(f, S) = SumOf(f, S) - SumOf(z, S)
  BY <1>2, SumOfDifferences
<1>5. SumOf(g, S) = SumOf(f, S) - SumOf(z, S)
  BY <1>3, SumOfDifferences
<1> QED
  BY <1>4, <1>5

\* A sum over the places of a sequence, and over those of one that is longer by
\* one element.
LEMMA SumGrows ==
  ASSUME NEW n \in Nat, NEW f, NEW g, \A k \in 1 .. n + 1 : g[k] \in Int,
         \A k \in 1 .. n : f[k] = g[k]
  PROVE  SumOf(g, 1 .. n + 1) = SumOf(f, 1 .. n) + g[n + 1] /\ SumOf(f, 1 .. n) \in Int
<1>1. IsFiniteSet(1 .. n + 1) /\ IsFiniteSet(1 .. n)
  BY FS_Interval
<1>2. n + 1 \in 1 .. n + 1 /\ (1 .. n + 1) \ {n + 1} = 1 .. n
  OBVIOUS
<1>3. SumOf(g, 1 .. n + 1) = g[n + 1] + SumOf(g, 1 .. n)
  <2>1. PICK S : S = 1 .. n + 1
    OBVIOUS
  <2>2. IsFiniteSet(S) /\ \A k \in S : g[k] \in Int
    BY <1>1, <2>1
  <2>3. PICK x : x = n + 1
    OBVIOUS
  <2>4. S \in SUBSET S /\ x \in S
    BY <1>2, <2>1, <2>3
  <2>5. SumOf(g, S) = g[x] + SumOf(g, S \ {x})
    BY <2>2, <2>4, SumRemove
  <2> QED
    BY <1>2, <2>1, <2>3, <2>5
<1>4. \A k \in 1 .. n : g[k] \in Int /\ f[k] = g[k]
  OBVIOUS
<1>5. SumOf(f, 1 .. n) = SumOf(g, 1 .. n)
  BY <1>1, <1>4, SumSame
<1>6. SumOf(g, 1 .. n) \in Int /\ g[n + 1] \in Int
  <2>1. \A R \in SUBSET (1 .. n) : SumOf(g, R) \in Int
    BY <1>1, <1>4, SumType
  <2> QED
    BY <1>2, <2>1
<1> QED
  BY <1>3, <1>5, <1>6

\* The additions and the deletions of some hunks.
AddsOf(hs) == SumOf([k \in DOMAIN hs |-> hs[k].additions], DOMAIN hs)
SubsOf(hs) == SumOf([k \in DOMAIN hs |-> hs[k].deletions], DOMAIN hs)

\* A hunk adds its changes to those of the hunks before it.
LEMMA HunkSums ==
  ASSUME NEW hs \in Seq(Hunk)
  PROVE  /\ AddsOf(hs) \in Int /\ SubsOf(hs) \in Int
         /\ hs = << >> => AddsOf(hs) = 0 /\ SubsOf(hs) = 0
         /\ \A h \in Hunk : /\ AddsOf(Append(hs, h)) = AddsOf(hs) + h.additions
                            /\ SubsOf(Append(hs, h)) = SubsOf(hs) + h.deletions
<1>1. PICK n \in Nat : n = Len(hs) /\ DOMAIN hs = 1 .. n
  OBVIOUS
<1>2. \A k \in 1 .. n : hs[k] \in Hunk
  BY <1>1
<1>3. ASSUME NEW h \in Hunk
      PROVE  /\ AddsOf(Append(hs, h)) = AddsOf(hs) + h.additions /\ AddsOf(hs) \in Int
             /\ SubsOf(Append(hs, h)) = SubsOf(hs) + h.deletions /\ SubsOf(hs) \in Int
  <2>1. PICK s : s = Append(hs, h)
    OBVIOUS
  <2>2. /\ DOMAIN s = 1 .. n + 1 /\ s[n + 1] = h
        /\ \A k \in 1 .. n : s[k] = hs[k]
    BY <1>1, <2>1
  <2>3. \A k \in 1 .. n + 1 : s[k] \in Hunk
    BY <1>2, <2>2
  <2>4. PICK fa, ga, fd, gd :
          /\ fa = [k \in DOMAIN hs |-> hs[k].additions] /\ ga = [k \in DOMAIN s |-> s[k].additions]
          /\ fd = [k \in DOMAIN hs |-> hs[k].deletions] /\ gd = [k \in DOMAIN s |-> s[k].deletions]
    OBVIOUS
  <2>5. \A k \in 1 .. n + 1 : ga[k] \in Int /\ gd[k] \in Int
    BY <2>2, <2>3, <2>4 DEF Hunk
  <2>6. \A k \in 1 .. n : fa[k] = ga[k] /\ fd[k] = gd[k]
    BY <1>1, <2>2, <2>4
  <2>7. ga[n + 1] = h.additions /\ gd[n + 1] = h.deletions
    BY <2>2, <2>4
  <2>8. SumOf(ga, 1 .. n + 1) = SumOf(fa, 1 .. n) + ga[n + 1] /\ SumOf(fa, 1 .. n) \in Int
    BY <2>5, <2>6, SumGrows
  <2>9. SumOf(gd, 1 .. n + 1) = SumOf(fd, 1 .. n) + gd[n + 1] /\ SumOf(fd, 1 .. n) \in Int
    BY <2>5, <2>6, SumGrows
  <2>10. /\ AddsOf(hs) = SumOf(fa, 1 .. n) /\ SubsOf(hs) = SumOf(fd, 1 .. n)
         /\ AddsOf(s) = SumOf(ga, 1 .. n + 1) /\ SubsOf(s) = SumOf(gd, 1 .. n + 1)
    BY <1>1, <2>2, <2>4 DEF AddsOf, SubsOf
  <2> QED
    BY <2>1, <2>7, <2>8, <2>9, <2>10
<1>4. AddsOf(hs) \in Int /\ SubsOf(hs) \in Int
  <2>1. NewHunk(0) \in Hunk
    BY NewParts
  <2> QED
    BY <1>3, <2>1
<1>5. hs = << >> => AddsOf(hs) = 0 /\ SubsOf(hs) = 0
  <2> SUFFICES ASSUME hs = << >> PROVE AddsOf(hs) = 0 /\ SubsOf(hs) = 0
    OBVIOUS
  <2>1. DOMAIN hs = {}
    BY <1>1
  <2> QED
    BY <2>1, SumEmpty DEF AddsOf, SubsOf
<1> QED
  BY <1>3, <1>4, <1>5

\* The changes of some files, and which of them have a hunk or a binary marker.
FilesAdd(fs) == Sum([k \in DOMAIN fs |-> Additions(fs[k])])
FilesSub(fs) == Sum([k \in DOMAIN fs |-> Deletions(fs[k])])
Told(f)      == f.hunks # << >> \/ f.isBinary
Listed(fs)   == {k \in DOMAIN fs : Told(fs[k])}

\* The changes of a file are those of its hunks.
LEMMA FileChanges ==
  ASSUME NEW f \in File
  PROVE  /\ Additions(f) = AddsOf(f.hunks) /\ Deletions(f) = SubsOf(f.hunks)
         /\ Additions(f) \in Int /\ Deletions(f) \in Int
         /\ f.hunks = << >> => Additions(f) = 0 /\ Deletions(f) = 0
<1>1. f.hunks \in Seq(Hunk)
  BY DEF File
<1>2. Additions(f) = AddsOf(f.hunks) /\ Deletions(f) = SubsOf(f.hunks)
  BY DEF Additions, Deletions, AddsOf, SubsOf
<1> QED
  BY <1>1, <1>2, HunkSums

\* A file adds its changes to those of the files before it, and counts when it has a
\* hunk or is binary.
LEMMA FileSums ==
  ASSUME NEW fs \in Seq(File), NEW f \in File
  PROVE  /\ FilesAdd(Append(fs, f)) = FilesAdd(fs) + Additions(f) /\ FilesAdd(fs) \in Int
         /\ FilesSub(Append(fs, f)) = FilesSub(fs) + Deletions(f) /\ FilesSub(fs) \in Int
         /\ Cardinality(Listed(fs)) \in Nat
         /\ Cardinality(Listed(Append(fs, f)))
              = Cardinality(Listed(fs)) + (IF Told(f) THEN 1 ELSE 0)
<1>1. PICK n \in Nat : n = Len(fs) /\ DOMAIN fs = 1 .. n
  OBVIOUS
<1>2. PICK s : s = Append(fs, f)
  OBVIOUS
<1>3. /\ DOMAIN s = 1 .. n + 1 /\ s[n + 1] = f
      /\ \A k \in 1 .. n : s[k] = fs[k]
  BY <1>1, <1>2
<1>4. \A k \in 1 .. n + 1 : s[k] \in File
  <2>1. \A k \in 1 .. n : fs[k] \in File
    BY <1>1
  <2> QED
    BY <1>3, <2>1
<1>5. PICK fa, ga, fd, gd :
        /\ fa = [k \in DOMAIN fs |-> Additions(fs[k])] /\ ga = [k \in DOMAIN s |-> Additions(s[k])]
        /\ fd = [k \in DOMAIN fs |-> Deletions(fs[k])] /\ gd = [k \in DOMAIN s |-> Deletions(s[k])]
  OBVIOUS
<1>6. \A k \in 1 .. n + 1 : ga[k] \in Int /\ gd[k] \in Int
  BY <1>3, <1>4, <1>5, FileChanges
<1>7. \A k \in 1 .. n : fa[k] = ga[k] /\ fd[k] = gd[k]
  BY <1>1, <1>3, <1>5
<1>8. ga[n + 1] = Additions(f) /\ gd[n + 1] = Deletions(f)
  BY <1>3, <1>5
<1>9. SumOf(ga, 1 .. n + 1) = SumOf(fa, 1 .. n) + ga[n + 1] /\ SumOf(fa, 1 .. n) \in Int
  BY <1>6, <1>7, SumGrows
<1>10. SumOf(gd, 1 .. n + 1) = SumOf(fd, 1 .. n) + gd[n + 1] /\ SumOf(fd, 1 .. n) \in Int
  BY <1>6, <1>7, SumGrows
<1>11. /\ FilesAdd(fs) = SumOf(fa, 1 .. n) /\ FilesSub(fs) = SumOf(fd, 1 .. n)
       /\ FilesAdd(s) = SumOf(ga, 1 .. n + 1) /\ FilesSub(s) = SumOf(gd, 1 .. n + 1)
  BY <1>1, <1>3, <1>5 DEF FilesAdd, FilesSub, Sum
<1>12. PICK A, B : A = Listed(fs) /\ B = Listed(s)
  OBVIOUS
<1>13. A \subseteq 1 .. n /\ n + 1 \notin A /\ B = IF Told(f) THEN A \union {n + 1} ELSE A
  BY <1>1, <1>3, <1>12 DEF Listed
<1>14. IsFiniteSet(A) /\ Cardinality(A) \in Nat
  <2>1. IsFiniteSet(1 .. n)
    BY FS_Interval
  <2>2. IsFiniteSet(A)
    BY <1>13, <2>1, FS_Subset
  <2> QED
    BY <2>2, FS_CardinalityType
<1>15. Cardinality(B) = Cardinality(A) + (IF Told(f) THEN 1 ELSE 0)
  <2>1. CASE Told(f)
    <3>1. PICK x : x = n + 1
      OBVIOUS
    <3>2. B = A \union {x} /\ x \notin A
      BY <1>13, <2>1, <3>1
    <3> QED
      BY <1>14, <2>1, <3>2, FS_AddElement
  <2>2. CASE ~ Told(f)
    BY <1>13, <1>14, <2>2
  <2> QED
    BY <2>1, <2>2
<1> QED
  BY <1>2, <1>8, <1>9, <1>10, <1>11, <1>12, <1>14, <1>15

\* No files have no changes.
LEMMA NoFileSums ==
  FilesAdd(<< >>) = 0 /\ FilesSub(<< >>) = 0 /\ Cardinality(Listed(<< >>)) = 0
<1>1. PICK s : s = << >>
  OBVIOUS
<1>2. DOMAIN s = {}
  BY <1>1
<1>3. FilesAdd(s) = 0 /\ FilesSub(s) = 0
  BY <1>2, SumEmpty DEF FilesAdd, FilesSub, Sum
<1>4. Listed(s) = {}
  BY <1>2 DEF Listed
<1> QED
  BY <1>1, <1>3, <1>4, FS_EmptySet

-----------------------------------------------------------------------------
(* DetectDiff and parseDiff read a plain diff alike *)

Current == [some : BOOLEAN, hunk : BOOLEAN, additions : Int, deletions : Int]

Found ==
  [fileCount : Int, additions : Int, deletions : Int, cur : Current,
   inHunk : BOOLEAN, hasMinus : BOOLEAN]

\* What DetectDiff has counted of the files before the current one and of the
\* current one is what parseDiff has built of them.
Agree(d, p) ==
  LET f == Last(p.files)
      before == Front(p.files)
  IN /\ (d.inHunk <=> p.open)
     /\ p.open => d.cur.some
     /\ f.hunks # << >> => p.open
     /\ (d.cur.hunk <=> Told(f))
     /\ d.cur.additions = Additions(f)
     /\ d.cur.deletions = Deletions(f)
     /\ d.fileCount = Cardinality(Listed(before))
     /\ d.additions = FilesAdd(before)
     /\ d.deletions = FilesSub(before)

\* A file that nothing is told of counts for nothing.
LEMMA Saved ==
  ASSUME NEW d \in Found, NEW p \in Parse, p.files # << >>, Agree(d, p)
  PROVE  /\ SaveFile(d).fileCount = Cardinality(Listed(p.files))
         /\ SaveFile(d).additions = FilesAdd(p.files)
         /\ SaveFile(d).deletions = FilesSub(p.files)
         /\ SaveFile(d) \in Found
         /\ ~ Told(Last(p.files)) => SaveFile(d) = d
<1>1. PICK f, before : f = Last(p.files) /\ before = Front(p.files)
  OBVIOUS
<1>2. f \in File /\ before \in Seq(File) /\ p.files = Append(before, f)
  BY <1>1, LastAndFront DEF Parse
<1>3. /\ (d.cur.hunk <=> Told(f))
      /\ d.cur.additions = Additions(f) /\ d.cur.deletions = Deletions(f)
      /\ d.fileCount = Cardinality(Listed(before))
      /\ d.additions = FilesAdd(before) /\ d.deletions = FilesSub(before)
  BY <1>1 DEF Agree
<1>4. /\ FilesAdd(p.files) = FilesAdd(before) + Additions(f) /\ FilesAdd(before) \in Int
      /\ FilesSub(p.files) = FilesSub(before) + Deletions(f) /\ FilesSub(before) \in Int
      /\ Cardinality(Listed(before)) \in Nat
      /\ Cardinality(Listed(p.files)) = Cardinality(Listed(before)) + (IF Told(f) THEN 1 ELSE 0)
  BY <1>2, FileSums
<1>5. Additions(f) \in Int /\ Deletions(f) \in Int
  BY <1>2, FileChanges
<1>6. CASE Told(f)
  <2>1. NoFile \in Current
    BY DEF NoFile, Current
  <2>2. SaveFile(d) = [d EXCEPT !.fileCount = @ + 1, !.additions = @ + d.cur.additions,
                                !.deletions = @ + d.cur.deletions, !.cur = NoFile]
    BY <1>3, <1>6 DEF SaveFile
  <2>3. /\ SaveFile(d) \in Found
        /\ SaveFile(d).fileCount = d.fileCount + 1
        /\ SaveFile(d).additions = d.additions + d.cur.additions
        /\ SaveFile(d).deletions = d.deletions + d.cur.deletions
    <3>1. PICK a, b : a = d.additions + d.cur.additions /\ b = d.deletions + d.cur.deletions
      OBVIOUS
    <3>2. a \in Int /\ b \in Int /\ d.fileCount + 1 \in Int
      BY <3>1 DEF Found, Current
    <3>3. SaveFile(d) = [d EXCEPT !.fileCount = @ + 1, !.additions = a, !.deletions = b,
                                  !.cur = NoFile]
      BY <2>2, <3>1
    <3> QED
      BY <2>1, <3>1, <3>2, <3>3 DEF Found
  <2> QED
    BY <1>1, <1>3, <1>4, <1>6, <2>3
<1>7. CASE ~ Told(f)
  <2>1. SaveFile(d) = d
    BY <1>3, <1>7 DEF SaveFile
  <2>2. Additions(f) = 0 /\ Deletions(f) = 0
    BY <1>2, <1>7, FileChanges DEF Told
  <2> QED
    BY <1>3, <1>4, <1>7, <2>1, <2>2
<1> QED
  BY <1>6, <1>7

\* What a line adds to the changes of its file.
LEMMA LineAdds ==
  ASSUME NEW f \in File, NEW open \in BOOLEAN, open => f.hunks # << >>, NEW i \in Nat, NEW l,
         NEW g \in File, g = Changed(f, open, i, l)
  PROVE  /\ Additions(g) = Additions(f) + (IF open /\ l.kind = "plus" THEN 1 ELSE 0)
         /\ Deletions(g) = Deletions(f) + (IF open /\ l.kind = "minus" THEN 1 ELSE 0)
         /\ g.hunks # << >> <=> (f.hunks # << >> \/ l.kind \in HunkHeaders)
         /\ g.isBinary <=> (f.isBinary \/ l.kind = "binary")
         /\ g.header = f.header
<1>1. PICK hs \in Seq(Hunk) : hs = f.hunks
  BY DEF File
<1>2. /\ AddsOf(hs) \in Int /\ SubsOf(hs) \in Int
      /\ \A h \in Hunk : /\ AddsOf(Append(hs, h)) = AddsOf(hs) + h.additions
                         /\ SubsOf(Append(hs, h)) = SubsOf(hs) + h.deletions
  BY HunkSums
<1>3. /\ Additions(f) = AddsOf(hs) /\ Deletions(f) = SubsOf(hs)
      /\ Additions(g) = AddsOf(g.hunks) /\ Deletions(g) = SubsOf(g.hunks)
  BY <1>1, FileChanges
<1>4. ASSUME hs # << >>, NEW h \in Hunk
      PROVE  /\ AddsOf(Append(Front(hs), h)) = AddsOf(hs) - Last(hs).additions + h.additions
             /\ SubsOf(Append(Front(hs), h)) = SubsOf(hs) - Last(hs).deletions + h.deletions
             /\ Append(Front(hs), h) # << >> /\ Last(hs) \in Hunk
  <2>1. PICK fr, la : fr = Front(hs) /\ la = Last(hs)
    OBVIOUS
  <2>2. fr \in Seq(Hunk) /\ la \in Hunk /\ hs = Append(fr, la)
    BY <1>4, <2>1, LastAndFront
  <2>3. /\ AddsOf(fr) \in Int /\ SubsOf(fr) \in Int
        /\ \A x \in Hunk : /\ AddsOf(Append(fr, x)) = AddsOf(fr) + x.additions
                           /\ SubsOf(Append(fr, x)) = SubsOf(fr) + x.deletions
    BY <2>2, HunkSums
  <2>4. /\ AddsOf(hs) = AddsOf(fr) + la.additions /\ SubsOf(hs) = SubsOf(fr) + la.deletions
        /\ AddsOf(Append(fr, h)) = AddsOf(fr) + h.additions
        /\ SubsOf(Append(fr, h)) = SubsOf(fr) + h.deletions
    BY <2>2, <2>3
  <2>5. la.additions \in Nat /\ la.deletions \in Nat /\ h.additions \in Nat /\ h.deletions \in Nat
    BY <2>2 DEF Hunk
  <2>6. Append(fr, h) # << >>
    BY <2>2, Appended
  <2>7. /\ AddsOf(Append(fr, h)) = AddsOf(hs) - la.additions + h.additions
        /\ SubsOf(Append(fr, h)) = SubsOf(hs) - la.deletions + h.deletions
    BY <2>3, <2>4, <2>5
  <2> QED
    BY <2>1, <2>2, <2>6, <2>7
<1>5. CASE open /\ l.kind \in {"plus", "minus", "context", "empty", "nonewline"}
  <2>1. PICK h : h = Counted(Last(hs), i, l)
    OBVIOUS
  <2>2. Last(hs) \in Hunk
    BY <1>1, <1>5, LastAndFront
  <2>3. /\ h \in Hunk
        /\ h.additions = Last(hs).additions + (IF l.kind = "plus" THEN 1 ELSE 0)
        /\ h.deletions = Last(hs).deletions + (IF l.kind = "minus" THEN 1 ELSE 0)
    BY <2>1, <2>2 DEF Counted, Hunk
  <2>4. g = [f EXCEPT !.hunks = Append(Front(hs), h)]
    BY <1>1, <1>5, <2>1 DEF Changed
  <2>5. g.hunks = Append(Front(hs), h) /\ g.isBinary = f.isBinary /\ g.header = f.header
    BY <2>4 DEF File
  <2>6. /\ AddsOf(g.hunks) = AddsOf(hs) - Last(hs).additions + h.additions
        /\ SubsOf(g.hunks) = SubsOf(hs) - Last(hs).deletions + h.deletions
        /\ g.hunks # << >>
    BY <1>1, <1>4, <1>5, <2>3, <2>5
  <2>7. Last(hs).additions \in Nat /\ Last(hs).deletions \in Nat
    BY <2>2 DEF Hunk
  <2>8. l.kind # "binary" /\ l.kind \notin HunkHeaders /\ f.isBinary \in BOOLEAN
    BY <1>5 DEF HunkHeaders, File
  <2>9. /\ AddsOf(g.hunks) = AddsOf(hs) + (IF l.kind = "plus" THEN 1 ELSE 0)
        /\ SubsOf(g.hunks) = SubsOf(hs) + (IF l.kind = "minus" THEN 1 ELSE 0)
    BY <1>2, <2>3, <2>6, <2>7
  <2> QED
    BY <1>1, <1>3, <1>5, <2>5, <2>6, <2>8, <2>9
<1>6. CASE ~ (open /\ l.kind \in {"plus", "minus", "context", "empty", "nonewline"})
  <2>0. ~ (open /\ l.kind = "plus") /\ ~ (open /\ l.kind = "minus")
    BY <1>6
  <2>1. CASE l.kind \in HunkHeaders
    <3>1. NewHunk(i) \in Hunk /\ NewHunk(i).additions = 0 /\ NewHunk(i).deletions = 0
      BY NewParts DEF NewHunk
    <3>2. g = [f EXCEPT !.hunks = Append(hs, NewHunk(i))]
      BY <1>1, <1>6, <2>1 DEF Changed
    <3>3. g.hunks = Append(hs, NewHunk(i)) /\ g.isBinary = f.isBinary /\ g.header = f.header
      BY <3>2 DEF File
    <3>4. g.hunks # << >>
      BY <3>1, <3>3, Appended
    <3>5. AddsOf(g.hunks) = AddsOf(hs) /\ SubsOf(g.hunks) = SubsOf(hs)
      BY <1>2, <3>1, <3>3
    <3>6. l.kind # "binary" /\ f.isBinary \in BOOLEAN
      BY <2>1 DEF HunkHeaders, File
    <3> QED
      BY <1>2, <1>3, <2>0, <2>1, <3>3, <3>4, <3>5, <3>6
  <2>2. CASE l.kind \in {"old", "new"}
    <3>1. g = [f EXCEPT !.old = i] \/ g = [f EXCEPT !.new = i]
      BY <1>6, <2>2 DEF Changed, HunkHeaders
    <3>2. g.hunks = hs /\ g.isBinary = f.isBinary /\ g.header = f.header
      BY <1>1, <3>1 DEF File
    <3>3. l.kind # "binary" /\ l.kind \notin HunkHeaders /\ f.isBinary \in BOOLEAN
      BY <2>2 DEF HunkHeaders, File
    <3> QED
      BY <1>1, <1>2, <1>3, <2>0, <3>2, <3>3
  <2>3. CASE l.kind \notin HunkHeaders \union {"old", "new"}
    <3>1. PICK e \in File : e = Described(f, i, l)
      BY DescribedType
    <3>2. e.hunks = hs /\ e.header = f.header /\ (e.isBinary <=> f.isBinary \/ l.kind = "binary")
      <4>1. /\ Described(f, i, l).hunks = f.hunks /\ Described(f, i, l).header = f.header
            /\ Described(f, i, l).isBinary <=> (f.isBinary \/ l.kind = "binary")
        BY <1>1, DescribedType
      <4> QED
        BY ONLY <1>1, <3>1, <4>1
    <3>3. CASE ~ open
      <4>1. g = e
        BY <1>6, <2>3, <3>1, <3>3 DEF Changed
      <4> QED
        BY <1>1, <1>2, <1>3, <2>0, <2>3, <3>2, <4>1
    <3>4. CASE open
      <4>1. PICK h : h = [Last(hs) EXCEPT !.end = i]
        OBVIOUS
      <4>2. Last(hs) \in Hunk
        BY <1>1, <3>4, LastAndFront
      <4>3. /\ h \in Hunk
            /\ h.additions = Last(hs).additions /\ h.deletions = Last(hs).deletions
        BY <4>1, <4>2 DEF Hunk
      <4>4. g = [e EXCEPT !.hunks = Append(Front(hs), h)]
        BY <1>1, <1>6, <2>3, <3>1, <3>4, <4>1 DEF Changed
      <4>5. g.hunks = Append(Front(hs), h) /\ g.isBinary = e.isBinary /\ g.header = e.header
        BY <4>4 DEF File
      <4>6. AddsOf(g.hunks) = AddsOf(hs) /\ SubsOf(g.hunks) = SubsOf(hs) /\ g.hunks # << >>
        <5>1. /\ AddsOf(g.hunks) = AddsOf(hs) - Last(hs).additions + h.additions
              /\ SubsOf(g.hunks) = SubsOf(hs) - Last(hs).deletions + h.deletions
              /\ g.hunks # << >>
          BY <1>1, <1>4, <3>4, <4>3, <4>5
        <5>2. Last(hs).additions \in Nat /\ Last(hs).deletions \in Nat
          BY <4>2 DEF Hunk
        <5> QED
          BY <1>2, <4>3, <5>1, <5>2
      <4>7. /\ g.isBinary <=> f.isBinary \/ l.kind = "binary"
            /\ g.header = f.header
        BY <3>2, <4>5
      <4> QED
        <5>1. Additions(g) = Additions(f) /\ Deletions(g) = Deletions(f)
          BY <1>3, <4>6
        <5>2. Additions(f) \in Int /\ Deletions(f) \in Int
          BY <1>2, <1>3
        <5>3. /\ Additions(g) = Additions(f) + (IF open /\ l.kind = "plus" THEN 1 ELSE 0)
              /\ Deletions(g) = Deletions(f) + (IF open /\ l.kind = "minus" THEN 1 ELSE 0)
          BY <2>0, <5>1, <5>2
        <5>4. g.hunks # << >> <=> (f.hunks # << >> \/ l.kind \in HunkHeaders)
          BY <3>4, <4>6
        <5> QED
          BY <4>7, <5>3, <5>4
    <3> QED
      BY <3>3, <3>4
  <2> QED
    BY <2>1, <2>2, <2>3
<1> QED
  BY <1>5, <1>6

\* The two scanners stay together, line by line.
LEMMA AgreeKeeps ==
  ASSUME NEW d \in Found, NEW p \in Parse, p.files # << >>, Agree(d, p), NEW i \in Nat, NEW l,
         l.kind \notin {"combined", "hunk3", "plus3", "minus3"},
         l.kind \in {"old", "new", "binary"} => ~ p.open,
         Last(p.files).isBinary => l.kind = "git"
  PROVE  /\ DetectLine(d, l) \in Found
         /\ Agree(DetectLine(d, l), ParseLine(p, i, l))
         /\ ParseLine(p, i, l).files # << >>
         /\ Last(ParseLine(p, i, l).files).isBinary => l.kind = "binary"
<1>1. PICK q \in Parse : q = ParseLine(p, i, l)
  BY LineParses
<1>2. PICK f \in File : f = Last(p.files)
  BY LastAndFront DEF Parse
<1>3. PICK before \in Seq(File) : before = Front(p.files)
  BY LastAndFront DEF Parse
<1>4. /\ p.open \in BOOLEAN /\ (p.open => f.hunks # << >>) /\ p.files \in Seq(File)
      /\ f.isBinary \in BOOLEAN
  BY <1>2 DEF Parse, File
<1>5. /\ (d.inHunk <=> p.open) /\ (p.open => d.cur.some) /\ (f.hunks # << >> => p.open)
      /\ (d.cur.hunk <=> Told(f))
      /\ d.cur.additions = Additions(f) /\ d.cur.deletions = Deletions(f)
      /\ d.fileCount = Cardinality(Listed(before))
      /\ d.additions = FilesAdd(before) /\ d.deletions = FilesSub(before)
  BY <1>2, <1>3 DEF Agree
<1>6. /\ d.cur \in Current /\ d.fileCount \in Int /\ d.additions \in Int /\ d.deletions \in Int
      /\ d.inHunk \in BOOLEAN /\ d.hasMinus \in BOOLEAN
  BY DEF Found
<1>7. PICK e : e = DetectLine(d, l)
  OBVIOUS
<1>8. CASE l.kind = "git"
  <2>1. PICK s \in Found : s = SaveFile(d)
    BY Saved
  <2>2. SomeFile \in Current /\ SomeFile.additions = 0 /\ SomeFile.deletions = 0 /\ ~ SomeFile.hunk
    <3>1. NoFile = [some |-> FALSE, hunk |-> FALSE, additions |-> 0, deletions |-> 0]
      BY DEF NoFile
    <3>2. NoFile \in Current /\ NoFile.additions = 0 /\ NoFile.deletions = 0 /\ NoFile.hunk = FALSE
      BY <3>1 DEF Current
    <3>3. SomeFile = [NoFile EXCEPT !.some = TRUE]
      BY DEF SomeFile
    <3> HIDE DEF NoFile
    <3> QED
      BY <3>2, <3>3 DEF Current
  <2>3. e = [s EXCEPT !.cur = SomeFile, !.inHunk = FALSE, !.hasMinus = FALSE]
    BY <1>7, <1>8, <2>1 DEF DetectLine, Added
  <2>4. /\ e \in Found /\ e.cur = SomeFile /\ ~ e.inHunk
        /\ e.fileCount = s.fileCount /\ e.additions = s.additions /\ e.deletions = s.deletions
    BY <2>2, <2>3 DEF Found
  <2>5. PICK nf \in File : nf = NewFile(i) /\ nf.hunks = << >> /\ ~ nf.isBinary
    BY NewParts DEF NewFile
  <2>6. q.files = Append(p.files, nf) /\ ~ q.open
    BY <1>1, <1>8, <2>5, LineOfHeader DEF FileHeaders
  <2>7. q.files # << >> /\ Last(q.files) = nf /\ Front(q.files) = p.files
    BY <1>4, <2>5, <2>6, Appended
  <2>8. /\ s.fileCount = Cardinality(Listed(p.files))
        /\ s.additions = FilesAdd(p.files) /\ s.deletions = FilesSub(p.files)
    BY <2>1, Saved
  <2>9. Additions(nf) = 0 /\ Deletions(nf) = 0 /\ ~ Told(nf)
    BY <2>5, FileChanges DEF Told
  <2>10. (e.inHunk <=> q.open) /\ (e.cur.hunk <=> Told(nf))
    <3>1. e.inHunk \in BOOLEAN /\ q.open \in BOOLEAN /\ e.cur.hunk \in BOOLEAN /\ Told(nf) \in BOOLEAN
      BY <2>4, <2>5 DEF Found, Parse, Current, Told, File
    <3> QED
      BY <2>2, <2>4, <2>6, <2>9, <3>1
  <2>11. Agree(e, q)
    BY <2>2, <2>4, <2>5, <2>6, <2>7, <2>8, <2>9, <2>10 DEF Agree
  <2> QED
    BY <1>1, <1>7, <2>4, <2>5, <2>7, <2>11
<1>9. CASE l.kind # "git"
  <2>h. l.kind \notin FileHeaders /\ (l.kind \in HunkHeaders <=> l.kind = "hunk") /\ ~ f.isBinary
    BY <1>2, <1>9 DEF FileHeaders, HunkHeaders
  <2>1. PICK g \in File : g = Changed(f, p.open, i, l)
    BY <1>2, <2>h, LineOfFile
  <2>2. /\ q.files = Append(before, g)
        /\ q.open = (p.open \/ l.kind \in HunkHeaders)
    BY <1>1, <1>2, <1>3, <2>h, <2>1, LineOfFile
  <2>3. q.files # << >> /\ Last(q.files) = g /\ Front(q.files) = before
    BY <1>3, <2>1, <2>2, Appended
  <2>4. /\ Additions(g) = Additions(f) + (IF p.open /\ l.kind = "plus" THEN 1 ELSE 0)
        /\ Deletions(g) = Deletions(f) + (IF p.open /\ l.kind = "minus" THEN 1 ELSE 0)
        /\ g.hunks # << >> <=> (f.hunks # << >> \/ l.kind = "hunk")
        /\ g.isBinary <=> l.kind = "binary"
    BY <1>4, <2>h, <2>1, LineAdds
  <2>5. Told(f) \in BOOLEAN /\ Told(g) \in BOOLEAN /\ q.open \in BOOLEAN
    BY <1>4, <2>1 DEF Told, File, Parse
  <2>6. (Told(g) <=> Told(f) \/ l.kind \in {"hunk", "binary"}) /\ (q.open <=> p.open \/ l.kind = "hunk")
    BY <2>h, <2>2, <2>4, <2>5 DEF Told
  <2>7. Additions(f) \in Int /\ Deletions(f) \in Int
    BY FileChanges
  <2>8. SUFFICES ASSUME TRUE
        PROVE  /\ e \in Found
               /\ (e.inHunk <=> q.open) /\ (q.open => e.cur.some)
               /\ (e.cur.hunk <=> Told(g))
               /\ e.cur.additions = Additions(g) /\ e.cur.deletions = Deletions(g)
               /\ e.fileCount = d.fileCount /\ e.additions = d.additions
               /\ e.deletions = d.deletions
    <3>1. g.hunks # << >> => q.open
      BY <1>5, <2>4, <2>6
    <3>2. Agree(e, q)
      BY <1>5, <2>3, <2>8, <3>1 DEF Agree
    <3> QED
      BY <1>1, <1>7, <2>3, <2>4, <2>8, <3>2
  <2>9. CASE l.kind = "binary"
    <3>1. e = [d EXCEPT !.cur.some = TRUE, !.cur.hunk = TRUE]
      BY <1>7, <2>9 DEF DetectLine, Added
    <3>2. /\ e \in Found /\ e.cur.hunk = TRUE
          /\ e.cur.additions = d.cur.additions /\ e.cur.deletions = d.cur.deletions
          /\ e.inHunk = d.inHunk
          /\ e.fileCount = d.fileCount /\ e.additions = d.additions /\ e.deletions = d.deletions
      BY <1>6, <3>1 DEF Found, Current
    <3>3. ~ p.open /\ ~ q.open /\ Told(g)
      BY <2>6, <2>9
    <3> QED
      BY <1>4, <1>5, <2>4, <2>5, <2>7, <3>2, <3>3
  <2>10. CASE l.kind = "old"
    <3>1. ~ p.open /\ ~ Told(f)
      BY <1>5, <2>h, <2>10 DEF Told
    <3>2. SaveFile(d) = d
      BY <1>2, <3>1, Saved
    <3>3. e = [d EXCEPT !.hasMinus = TRUE, !.inHunk = FALSE]
      BY <1>7, <2>10, <3>2 DEF DetectLine, Added
    <3>4. e \in Found /\ e.cur = d.cur /\ e.inHunk = FALSE
          /\ e.fileCount = d.fileCount /\ e.additions = d.additions /\ e.deletions = d.deletions
      BY <3>3 DEF Found
    <3> QED
      BY <1>4, <1>5, <2>4, <2>5, <2>6, <2>7, <2>10, <3>1, <3>4
  <2>11. CASE l.kind = "new"
    <3>1. ~ p.open /\ ~ d.inHunk
      BY <1>4, <1>5, <1>6, <2>11
    <3>2. CASE d.hasMinus
      <4>1. e = [d EXCEPT !.cur.some = TRUE, !.inHunk = FALSE]
        BY <1>7, <2>11, <3>2 DEF DetectLine, Added
      <4>2. /\ e \in Found /\ e.cur.hunk = d.cur.hunk
            /\ e.cur.additions = d.cur.additions /\ e.cur.deletions = d.cur.deletions
            /\ e.inHunk = FALSE
            /\ e.fileCount = d.fileCount /\ e.additions = d.additions /\ e.deletions = d.deletions
        BY <1>6, <4>1 DEF Found, Current
      <4> QED
        BY <1>4, <1>5, <2>4, <2>5, <2>6, <2>7, <2>11, <3>1, <4>2
    <3>3. CASE ~ d.hasMinus
      <4>1. e = d
        BY <1>7, <2>11, <3>1, <3>3 DEF DetectLine, Added
      <4> QED
        BY <1>4, <1>5, <1>6, <2>4, <2>5, <2>6, <2>7, <2>11, <3>1, <4>1
    <3> QED
      BY <3>2, <3>3
  <2>12. CASE l.kind = "hunk"
    <3>1. e = [d EXCEPT !.cur.some = TRUE, !.cur.hunk = TRUE, !.inHunk = TRUE]
      BY <1>7, <2>12 DEF DetectLine, Added
    <3>2. /\ e \in Found /\ e.cur.hunk = TRUE /\ e.cur.some = TRUE /\ e.inHunk = TRUE
          /\ e.cur.additions = d.cur.additions /\ e.cur.deletions = d.cur.deletions
          /\ e.fileCount = d.fileCount /\ e.additions = d.additions /\ e.deletions = d.deletions
      BY <1>6, <3>1 DEF Found, Current
    <3> QED
      BY <1>4, <1>5, <2>4, <2>5, <2>6, <2>7, <2>12, <3>2
  <2>13. CASE l.kind \in {"plus", "minus"} /\ p.open
    <3>1. d.inHunk /\ d.cur.some
      BY <1>5, <2>13
    <3>2. \/ l.kind = "plus" /\ e = [d EXCEPT !.cur.additions = @ + 1]
          \/ l.kind = "minus" /\ e = [d EXCEPT !.cur.deletions = @ + 1]
      BY <1>7, <2>13, <3>1 DEF DetectLine, Added
    <3>3. /\ e \in Found /\ e.cur.hunk = d.cur.hunk /\ e.cur.some = d.cur.some
          /\ e.cur.additions = d.cur.additions + (IF l.kind = "plus" THEN 1 ELSE 0)
          /\ e.cur.deletions = d.cur.deletions + (IF l.kind = "minus" THEN 1 ELSE 0)
          /\ e.inHunk = d.inHunk
          /\ e.fileCount = d.fileCount /\ e.additions = d.additions /\ e.deletions = d.deletions
      BY <1>6, <3>2 DEF Found, Current
    <3> QED
      BY <1>4, <1>5, <2>4, <2>5, <2>6, <2>7, <2>13, <3>1, <3>3
  <2>14. CASE /\ l.kind \notin {"git", "binary", "old", "new", "hunk"}
              /\ ~ (l.kind \in {"plus", "minus"} /\ p.open)
    <3>1. l.kind \in {"plus", "minus"} => ~ d.inHunk
      BY <1>4, <1>5, <1>6, <2>14
    <3>2. e = d
      BY <1>7, <2>14, <3>1 DEF DetectLine, Added
    <3> QED
      BY <1>4, <1>5, <1>6, <2>4, <2>5, <2>6, <2>7, <2>14, <3>2
  <2> QED
    BY <1>9, <2>9, <2>10, <2>11, <2>12, <2>13, <2>14
<1> QED
  BY <1>8, <1>9

\* Saving the current file keeps the types of what DetectDiff finds.
LEMMA SavedType == ASSUME NEW d \in Found PROVE SaveFile(d) \in Found
<1>1. NoFile \in Current
  <2>1. NoFile = [some |-> FALSE, hunk |-> FALSE, additions |-> 0, deletions |-> 0]
    BY DEF NoFile
  <2> QED
    BY <2>1 DEF Current
<1>2. CASE d.cur.hunk
  <2>1. PICK a, b : a = d.additions + d.cur.additions /\ b = d.deletions + d.cur.deletions
    OBVIOUS
  <2>2. a \in Int /\ b \in Int /\ d.fileCount + 1 \in Int
    BY <2>1 DEF Found, Current
  <2>3. SaveFile(d) = [d EXCEPT !.fileCount = @ + 1, !.additions = a, !.deletions = b, !.cur = NoFile]
    BY <1>2, <2>1 DEF SaveFile
  <2> QED
    BY <1>1, <2>2, <2>3 DEF Found
<1>3. CASE ~ d.cur.hunk
  BY <1>3 DEF SaveFile
<1> QED
  BY <1>2, <1>3

\* Every line keeps the types of what DetectDiff finds.
LEMMA DetectType == ASSUME NEW d \in Found, NEW l PROVE DetectLine(d, l) \in Found
<1>1. PICK e : e = DetectLine(d, l)
  OBVIOUS
<1>2. PICK s \in Found : s = SaveFile(d)
  BY SavedType
<1>3. SomeFile \in Current
  <2>1. NoFile = [some |-> FALSE, hunk |-> FALSE, additions |-> 0, deletions |-> 0]
    BY DEF NoFile
  <2>2. NoFile \in Current
    BY <2>1 DEF Current
  <2>3. SomeFile = [NoFile EXCEPT !.some = TRUE]
    BY DEF SomeFile
  <2> HIDE DEF NoFile
  <2> QED
    BY <2>2, <2>3 DEF Current
<1>4. /\ d.cur \in Current /\ d.cur.additions + 1 \in Int /\ d.cur.deletions + 1 \in Int
  BY DEF Found, Current
<1>5. \/ e = [s EXCEPT !.cur = SomeFile, !.inHunk = FALSE, !.hasMinus = FALSE]
      \/ e = [d EXCEPT !.cur.some = TRUE, !.cur.hunk = TRUE]
      \/ e = [s EXCEPT !.hasMinus = TRUE, !.inHunk = FALSE]
      \/ e = [d EXCEPT !.cur.some = TRUE, !.inHunk = FALSE]
      \/ e = [d EXCEPT !.cur.some = TRUE, !.cur.hunk = TRUE, !.inHunk = TRUE]
      \/ e = [d EXCEPT !.cur.additions = @ + 1]
      \/ e = [d EXCEPT !.cur.deletions = @ + 1]
      \/ e = d
  <2> DEFINE again == l.kind \in {"new", "plus3"} /\ d.hasMinus
             adds  == l.kind \in Added /\ (l.kind = "plus" \/ ~ d.hasMinus) /\ d.inHunk /\ d.cur.some
             subs  == l.kind = "minus" /\ d.inHunk /\ d.cur.some
  <2>1. CASE l.kind = "git"
    BY <1>1, <1>2, <2>1 DEF DetectLine, Added
  <2>2. CASE l.kind = "binary"
    BY <1>1, <2>2 DEF DetectLine, Added
  <2>3. CASE l.kind \in {"old", "minus3"}
    BY <1>1, <1>2, <2>3 DEF DetectLine, Added
  <2>4. CASE again
    BY <1>1, <2>4 DEF DetectLine, Added
  <2>5. CASE l.kind = "hunk"
    BY <1>1, <2>5 DEF DetectLine, Added
  <2>6. CASE adds /\ ~ again
    BY <1>1, <2>6 DEF DetectLine, Added
  <2>7. CASE subs
    BY <1>1, <2>7 DEF DetectLine, Added
  <2>8. CASE l.kind \notin {"git", "binary", "old", "minus3", "hunk"} /\ ~ again /\ ~ adds /\ ~ subs
    <3>1. e = d
      BY <1>1, <2>8, Zenon DEF DetectLine
    <3> QED
      BY <3>1
  <2> QED
    BY <2>1, <2>2, <2>3, <2>4, <2>5, <2>6, <2>7, <2>8
<1>6. e \in Found
  <2>1. CASE e = [s EXCEPT !.cur = SomeFile, !.inHunk = FALSE, !.hasMinus = FALSE]
    BY <1>3, <2>1 DEF Found
  <2>2. CASE e = [d EXCEPT !.cur.some = TRUE, !.cur.hunk = TRUE]
    BY <1>4, <2>2 DEF Found, Current
  <2>3. CASE e = [s EXCEPT !.hasMinus = TRUE, !.inHunk = FALSE]
    BY <2>3 DEF Found
  <2>4. CASE e = [d EXCEPT !.cur.some = TRUE, !.inHunk = FALSE]
    BY <1>4, <2>4 DEF Found, Current
  <2>5. CASE e = [d EXCEPT !.cur.some = TRUE, !.cur.hunk = TRUE, !.inHunk = TRUE]
    BY <1>4, <2>5 DEF Found, Current
  <2>6. CASE e = [d EXCEPT !.cur.additions = @ + 1]
    BY <1>4, <2>6 DEF Found, Current
  <2>7. CASE e = [d EXCEPT !.cur.deletions = @ + 1]
    BY <1>4, <2>7 DEF Found, Current
  <2> QED
    BY <1>5, <2>1, <2>2, <2>3, <2>4, <2>5, <2>6, <2>7
<1> QED
  BY <1>1, <1>6

Nothing ==
  [fileCount |-> 0, additions |-> 0, deletions |-> 0, cur |-> NoFile,
   inHunk |-> FALSE, hasMinus |-> FALSE]

\* The turns of DetectDiff.
LEMMA DetectTurns ==
  ASSUME NEW n \in Nat, NEW c, Len(c) = n
  PROVE  \E t \in [0 .. n -> Found] :
           /\ t[0] = Nothing
           /\ \A k \in 1 .. n : t[k] = DetectLine(t[k - 1], c[k])
           /\ DetectDiff(c) = SaveFile(t[n])
<1> DEFINE G(p, k) == DetectLine(p, c[k])
           step == [k \in 1 .. n |-> [p \in Found |-> G(p, k)]]
           F(s) == s = [i \in 0 .. Len(c) |-> IF i = 0 THEN Nothing ELSE G(s[i - 1], i)]
<1>0. Nothing \in Found
  <2>1. NoFile = [some |-> FALSE, hunk |-> FALSE, additions |-> 0, deletions |-> 0]
    BY DEF NoFile
  <2>2. NoFile \in Current
    BY <2>1 DEF Current
  <2> HIDE DEF NoFile
  <2> QED
    BY <2>2 DEF Nothing, Found
<1>1. \A k \in 1 .. n : \A p \in Found : G(p, k) \in Found
  BY DetectType
<1>2. step \in [1 .. n -> [Found -> Found]] /\ \A k \in 1 .. n : \A p \in Found : step[k][p] = G(p, k)
  <2> HIDE DEF G
  <2> QED
    BY <1>1
<1> HIDE DEF step, G
<1>3. PICK f \in [0 .. n -> Found] : f[0] = Nothing /\ \A k \in 1 .. n : f[k] = step[k][f[k - 1]]
  <2>1. step \in [1 .. n -> [Found -> Found]]
    BY <1>2
  <2> QED
    BY <1>0, <2>1, LoopExists
<1>4. ASSUME NEW k \in 1 .. n PROVE f[k] = G(f[k - 1], k)
  <2>1. f[k - 1] \in Found
    OBVIOUS
  <2> QED
    BY <1>2, <1>3, <2>1
<1>5. F(f)
  BY <1>3, <1>4
<1> DEFINE t == CHOOSE s : F(s)
<1>6. F(t)
  <2> HIDE DEF F
  <2> QED
    BY <1>5, Zenon
<1>7. DetectDiff(c) = SaveFile(t[n])
  <2>1. DetectDiff(c) = SaveFile(t[Len(c)])
    BY Zenon DEF DetectDiff, Nothing, G
  <2> QED
    BY <2>1
<1> HIDE DEF t
<1>8. t[0] = Nothing /\ \A k \in 1 .. n : t[k] = G(t[k - 1], k)
  BY <1>6
<1>9. t = [k \in 0 .. n |-> t[k]]
  BY <1>6
<1>10. 0 .. n \subseteq {k \in 0 .. n : t[k] \in Found}
  <2> DEFINE S == {k \in 0 .. n : t[k] \in Found}
  <2>1. 0 \in S
    BY <1>0, <1>8
  <2>2. ASSUME NEW k \in 1 .. n, k - 1 \in S PROVE k \in S
    BY <1>1, <1>8, <2>2
  <2> HIDE DEF S
  <2>3. 0 .. n \subseteq S
    BY <2>1, <2>2, TurnInduction
  <2> QED
    BY <2>3 DEF S
<1>11. t \in [0 .. n -> Found]
  BY <1>9, <1>10
<1> QED
  BY <1>7, <1>8, <1>11 DEF G

\* While a hunk is open, the lines since its header have none of a file.
LEMMA OpenSince ==
  ASSUME NEW n \in Nat, NEW c, NEW t \in [0 .. n -> Parse], t[0] = NoParse,
         \A k \in 1 .. n : t[k] = ParseLine(t[k - 1], k, c[k])
  PROVE  \A k \in 0 .. n : t[k].open =>
           \E j \in 1 .. k : c[j].kind \in HunkHeaders /\ \A m \in j .. k : c[m].kind \notin FileHeaders
<1> DEFINE Since(k) == \E j \in 1 .. k : /\ c[j].kind \in HunkHeaders
                                         /\ \A m \in j .. k : c[m].kind \notin FileHeaders
           S == {k \in 0 .. n : t[k].open => Since(k)}
<1>1. 0 \in S
  BY DEF NoParse
<1>2. ASSUME NEW k \in 1 .. n, k - 1 \in S PROVE k \in S
  <2>1. PICK p \in Parse : p = t[k - 1]
    OBVIOUS
  <2>2. t[k] = ParseLine(p, k, c[k]) /\ k \in Nat
    BY <2>1
  <2>3. SUFFICES ASSUME t[k].open PROVE Since(k)
    OBVIOUS
  <2>4. c[k].kind \notin FileHeaders /\ p.files # << >>
    BY <2>2, <2>3, LineOfHeader, LineBeforeFiles
  <2>5. p.open \/ c[k].kind \in HunkHeaders
    <3>1. t[k].open = (p.open \/ c[k].kind \in HunkHeaders)
      BY <2>2, <2>4, LineOfFile
    <3> QED
      BY <2>3, <3>1
  <2>6. CASE c[k].kind \in HunkHeaders
    <3>1. k \in 1 .. k /\ \A m \in k .. k : m = k
      OBVIOUS
    <3> QED
      BY <2>4, <2>6, <3>1
  <2>7. CASE p.open
    <3>1. PICK j \in 1 .. k - 1 : /\ c[j].kind \in HunkHeaders
                                  /\ \A m \in j .. k - 1 : c[m].kind \notin FileHeaders
      BY <1>2, <2>1, <2>7
    <3>2. j \in 1 .. k /\ \A m \in j .. k : m = k \/ m \in j .. k - 1
      OBVIOUS
    <3> QED
      BY <2>4, <3>1, <3>2
  <2> QED
    BY <2>5, <2>6, <2>7
<1> HIDE DEF S
<1>3. 0 .. n \subseteq S
  BY <1>1, <1>2, TurnInduction
<1> QED
  BY <1>3 DEF S

\* A line in an open hunk is below that hunk's header.
LEMMA BelowHeader ==
  ASSUME NEW i \in Nat, NEW j \in 1 .. i - 1, content[j].kind \in HunkHeaders,
         \A m \in j .. i : content[m].kind \notin FileHeaders
  PROVE  HeaderOf(i) # 0
<1> DEFINE above == {m \in 1 .. i - 1 : content[m].kind \in HunkHeaders}
           at == CHOOSE m \in above : \A k \in above : k <= m
<1>1. above \subseteq Int /\ j \in above /\ above # {}
  OBVIOUS
<1>2. IsFiniteSet(above)
  <2>1. IsFiniteSet(1 .. i - 1)
    BY FS_Interval
  <2>2. above \subseteq 1 .. i - 1
    OBVIOUS
  <2> HIDE DEF above
  <2> QED
    BY <2>1, <2>2, FS_Subset
<1>3. \E m \in above : \A k \in above : k <= m
  <2> HIDE DEF above
  <2> QED
    BY <1>1, <1>2, GreatestElement
<1>4. at \in above /\ \A k \in above : k <= at
  <2> HIDE DEF above
  <2> QED
    BY <1>3
<1>5. at \in 1 .. i - 1 /\ j <= at
  <2> HIDE DEF at
  <2> QED
    BY <1>1, <1>4
<1>6. \A m \in at .. i : content[m].kind \notin FileHeaders
  <2> HIDE DEF at
  <2> QED
    BY <1>5
<1>7. HeaderOf(i) = at
  BY <1>1, <1>6, Zenon DEF HeaderOf
<1> HIDE DEF at
<1> QED
  BY <1>5, <1>7

ChunkLines == UNION {{c[i] : i \in DOMAIN c} : c \in Chunks}

\* The two scanners count the same in any content.
LEMMA DetectorsAgreeOn ==
  ASSUME content \in Seq(ChunkLines)
  PROVE  DetectorsAgree
<1>1. PICK n \in Nat : n = Len(content) /\ DOMAIN content = 1 .. n
  OBVIOUS
<1>2. SUFFICES ASSUME Plain PROVE LET found  == DetectDiff(content)
                                     parsed == parseDiff(content).files
                                 IN /\ found.fileCount = Cardinality(Listed(parsed))
                                    /\ found.additions = FilesAdd(parsed)
                                    /\ found.deletions = FilesSub(parsed)
  BY DEF DetectorsAgree, Listed, FilesAdd, FilesSub, Told
<1>3. /\ content[1].kind = "git" /\ content # << >>
      /\ \A i \in 1 .. n :
           /\ content[i].kind \notin {"combined", "hunk3", "plus3", "minus3"}
           /\ content[i].kind \in {"old", "new", "binary"} => HeaderOf(i) = 0
           /\ i > 1 /\ content[i - 1].kind = "binary" => content[i].kind = "git"
  BY <1>1, <1>2 DEF Plain
<1>4. n >= 1
  BY <1>1, <1>3
<1>5. PICK t \in [0 .. n -> Parse] :
        /\ t[0] = NoParse
        /\ \A k \in 1 .. n : t[k] = ParseLine(t[k - 1], k, content[k])
        /\ parseDiff(content) = t[n]
  BY <1>1, ParseTurns
<1>6. PICK d \in [0 .. n -> Found] :
        /\ d[0] = Nothing
        /\ \A k \in 1 .. n : d[k] = DetectLine(d[k - 1], content[k])
        /\ DetectDiff(content) = SaveFile(d[n])
  BY <1>1, DetectTurns
<1>7. \A k \in 0 .. n : t[k].open =>
        \E j \in 1 .. k : /\ content[j].kind \in HunkHeaders
                          /\ \A m \in j .. k : content[m].kind \notin FileHeaders
  BY <1>5, OpenSince
<1> DEFINE S == {k \in 0 .. n : k > 0 => /\ t[k].files # << >>
                                          /\ Agree(d[k], t[k])
                                          /\ Last(t[k].files).isBinary => content[k].kind = "binary"}
<1>8. 0 \in S
  OBVIOUS
<1>9. ASSUME NEW k \in 1 .. n, k - 1 \in S PROVE k \in S
  <2>1. PICK p \in Parse, e \in Found : p = t[k - 1] /\ e = d[k - 1]
    OBVIOUS
  <2>2. t[k] = ParseLine(p, k, content[k]) /\ d[k] = DetectLine(e, content[k]) /\ k \in Nat
    BY <1>5, <1>6, <2>1
  <2>3. CASE k = 1
    <3>1. p = NoParse /\ e = Nothing
      BY <1>5, <1>6, <2>1, <2>3
    <3>2. NewFile(1) \in File /\ NewFile(1).hunks = << >> /\ NewFile(1).isBinary = FALSE
      BY NewParts DEF NewFile
    <3>3. t[1] = [pre |-> p.pre, files |-> Append(p.files, NewFile(1)), open |-> FALSE]
      <4>1. content[1].kind \in FileHeaders
        BY <1>3 DEF FileHeaders
      <4>2. ParseLine(p, k, content[1]) =
              [pre |-> p.pre, files |-> Append(p.files, NewFile(k)), open |-> FALSE]
        BY <2>2, <4>1, LineOfHeader
      <4> QED
        BY <2>2, <2>3, <4>2
    <3>4. p.files = << >>
      BY <3>1 DEF NoParse
    <3>5. /\ t[1].files # << >> /\ Last(t[1].files) = NewFile(1) /\ Front(t[1].files) = << >>
          /\ ~ t[1].open
      <4>1. << >> \in Seq(File)
        BY EmptySeq
      <4>2. t[1].files = Append(<< >>, NewFile(1)) /\ ~ t[1].open
        BY <3>3, <3>4
      <4>3. PICK s, f : s = << >> /\ f = NewFile(1)
        OBVIOUS
      <4>4. /\ Append(s, f) # << >> /\ Last(Append(s, f)) = f /\ Front(Append(s, f)) = s
        <5>1. s \in Seq(File) /\ f \in File
          BY <3>2, <4>1, <4>3
        <5> HIDE <4>3
        <5> QED
          BY <5>1, Appended
      <4> QED
        BY <4>2, <4>3, <4>4
    <3>6. /\ d[1].inHunk = FALSE /\ d[1].cur.hunk = FALSE
          /\ d[1].cur.additions = 0 /\ d[1].cur.deletions = 0
          /\ d[1].fileCount = 0 /\ d[1].additions = 0 /\ d[1].deletions = 0
      <4>1. NoFile = [some |-> FALSE, hunk |-> FALSE, additions |-> 0, deletions |-> 0]
        BY DEF NoFile
      <4>2. NoFile.hunk = FALSE /\ NoFile.additions = 0 /\ NoFile.deletions = 0
        BY <4>1
      <4>3. SomeFile.hunk = FALSE /\ SomeFile.additions = 0 /\ SomeFile.deletions = 0
        BY <4>1 DEF SomeFile
      <4>4. e.cur = NoFile /\ e.fileCount = 0 /\ e.additions = 0 /\ e.deletions = 0
        BY <3>1 DEF Nothing
      <4> HIDE DEF NoFile, SomeFile
      <4>5. SaveFile(e) = e
        BY <4>2, <4>4 DEF SaveFile
      <4>6. d[1] = [e EXCEPT !.cur = SomeFile, !.inHunk = FALSE, !.hasMinus = FALSE]
        BY <1>3, <2>2, <2>3, <4>5 DEF DetectLine, Added
      <4> QED
        BY <4>3, <4>4, <4>6 DEF Found
    <3>7. Additions(NewFile(1)) = 0 /\ Deletions(NewFile(1)) = 0 /\ ~ Told(NewFile(1))
      BY <3>2, FileChanges DEF Told
    <3>8. Agree(d[1], t[1])
      BY <3>2, <3>5, <3>6, <3>7, NoFileSums DEF Agree
    <3> QED
      BY <2>3, <3>2, <3>5, <3>8
  <2>4. CASE k > 1
    <3>1. /\ p.files # << >> /\ Agree(e, p)
          /\ Last(p.files).isBinary => content[k - 1].kind = "binary"
      BY <1>9, <2>1, <2>4
    <3>2. Last(p.files).isBinary => content[k].kind = "git"
      BY <1>3, <2>4, <3>1
    <3>3. content[k].kind \in {"old", "new", "binary"} => ~ p.open
      <4> SUFFICES ASSUME content[k].kind \in {"old", "new", "binary"}, p.open PROVE FALSE
        OBVIOUS
      <4>1. PICK j \in 1 .. k - 1 : /\ content[j].kind \in HunkHeaders
                                    /\ \A m \in j .. k - 1 : content[m].kind \notin FileHeaders
        BY <1>7, <2>1
      <4>2. \A m \in j .. k : m = k \/ m \in j .. k - 1
        OBVIOUS
      <4>3. \A m \in j .. k : content[m].kind \notin FileHeaders
        BY <4>1, <4>2 DEF FileHeaders
      <4>4. HeaderOf(k) # 0
        BY <2>2, <4>1, <4>3, BelowHeader
      <4> QED
        BY <1>3, <4>4
    <3>4. content[k].kind \notin {"combined", "hunk3", "plus3", "minus3"}
      BY <1>3
    <3>5. /\ Agree(d[k], t[k]) /\ t[k].files # << >>
          /\ Last(t[k].files).isBinary => content[k].kind = "binary"
      BY <2>2, <3>1, <3>2, <3>3, <3>4, AgreeKeeps
    <3> QED
      BY <3>5
  <2> QED
    BY <2>3, <2>4
<1> HIDE DEF S
<1>10. 0 .. n \subseteq S
  BY <1>8, <1>9, TurnInduction
<1>11. n \in 0 .. n /\ n > 0
  BY <1>4
<1>12. t[n].files # << >> /\ Agree(d[n], t[n]) /\ t[n] \in Parse /\ d[n] \in Found
  <2>1. n \in S
    BY <1>10, <1>11
  <2> QED
    BY <1>11, <2>1 DEF S
<1> QED
  BY <1>5, <1>6, <1>12, Saved

-----------------------------------------------------------------------------
(* DetectorsAgree *)

\* The content is a sequence of lines, whatever the chunks.
ContentIsLines == content \in Seq(ChunkLines)

\* The content consists of lines at any time.
LEMMA LinesStay == Spec => []ContentIsLines
<1>1. Init => ContentIsLines
  BY EmptySeq DEF Init, ContentIsLines
<1>2. ContentIsLines /\ [Next]_vars => ContentIsLines'
  <2> SUFFICES ASSUME ContentIsLines, [Next]_vars PROVE ContentIsLines'
    OBVIOUS
  <2>1. ASSUME NEW k \in Chunks, Receive(k) PROVE ContentIsLines'
    <3>1. k \in Seq({k[i] : i \in DOMAIN k}) /\ {k[i] : i \in DOMAIN k} \subseteq ChunkLines
      BY DiffAssumption DEF ChunkLines
    <3>2. k \in Seq(ChunkLines)
      BY <3>1, SeqMonotonic
    <3>3. content' = content \o k
      BY <2>1 DEF Receive
    <3> QED
      BY <3>2, <3>3 DEF ContentIsLines
  <2>2. CASE NoiseLeaves \/ NoiseDrops \/ DiffLeaves \/ DiffCompresses \/ UNCHANGED vars
    BY <2>2 DEF NoiseLeaves, NoiseDrops, DiffLeaves, DiffCompresses, vars, ContentIsLines
  <2> QED
    BY <2>1, <2>2 DEF Next
<1> QED
  BY <1>1, <1>2, PTL DEF Spec

\* Content detection and the compressor find the same files and the same changes
\* in every diff as git prints it (unidiff.go:40-153; diffcompressor.go:588-736).
THEOREM ScannersAgree == Spec => []DetectorsAgree
<1>1. ContentIsLines => DetectorsAgree
  BY DetectorsAgreeOn DEF ContentIsLines
<1> QED
  BY <1>1, LinesStay, PTL

-----------------------------------------------------------------------------
(* Sequences of sequences, one after the other *)

\* n sequences.
Lists(n, T) == [1 .. n -> Seq(T)]

\* Each element of flat has a place in the first m sequences of s: P gives it,
\* in order, and there is one for each.
Placed(P, s, m, flat) ==
  /\ \A k \in 1 .. Len(flat) :
       /\ P[k] \in Nat \X Nat
       /\ P[k][1] \in 1 .. m /\ P[k][2] \in 1 .. Len(s[P[k][1]])
       /\ flat[k] = s[P[k][1]][P[k][2]]
  /\ \A k, l \in 1 .. Len(flat) : k < l =>
       P[k][1] < P[l][1] \/ (P[k][1] = P[l][1] /\ P[k][2] < P[l][2])
  /\ \A j \in 1 .. m : \A i \in 1 .. Len(s[j]) : \E k \in 1 .. Len(flat) : P[k] = <<j, i>>

\* One more sequence.
LEMMA PlacedNext ==
  ASSUME NEW T, NEW n \in Nat, NEW s \in [1 .. n -> Seq(T)], NEW m \in 1 .. n,
         NEW flat \in Seq(T), NEW P, Placed(P, s, m - 1, flat)
  PROVE  \E Q : Placed(Q, s, m, flat \o s[m])
<1>1. PICK a \in Nat, b \in Nat : a = Len(flat) /\ b = Len(s[m]) /\ s[m] \in Seq(T)
  OBVIOUS
<1>2. PICK r : r = flat \o s[m]
  OBVIOUS
<1>3. /\ r \in Seq(T) /\ Len(r) = a + b
      /\ \A k \in 1 .. a : r[k] = flat[k]
      /\ \A k \in a + 1 .. a + b : r[k] = s[m][k - a]
  BY <1>1, <1>2, ConcatProperties
<1>4. PICK Q : Q = [k \in 1 .. a + b |-> IF k <= a THEN P[k] ELSE <<m, k - a>>]
  OBVIOUS
<1>5. /\ \A k \in 1 .. a : Q[k] = P[k]
      /\ \A k \in a + 1 .. a + b : Q[k] = <<m, k - a>>
  BY <1>1, <1>4
<1>6. \A k \in 1 .. a :
        /\ P[k] \in Nat \X Nat
        /\ P[k][1] \in 1 .. m - 1 /\ P[k][2] \in 1 .. Len(s[P[k][1]])
        /\ flat[k] = s[P[k][1]][P[k][2]]
  BY <1>1 DEF Placed
<1>7. \A k \in a + 1 .. a + b : /\ Q[k] \in Nat \X Nat /\ Q[k][1] = m /\ Q[k][2] = k - a
                                /\ k - a \in 1 .. b
  <2> SUFFICES ASSUME NEW k \in a + 1 .. a + b
               PROVE  /\ Q[k] \in Nat \X Nat /\ Q[k][1] = m /\ Q[k][2] = k - a
                      /\ k - a \in 1 .. b
    OBVIOUS
  <2>1. PICK i : i = k - a
    OBVIOUS
  <2>2. i \in 1 .. b /\ i \in Nat /\ m \in Nat
    BY <1>1, <2>1
  <2>3. Q[k] = <<m, i>>
    BY <1>5, <2>1
  <2> QED
    BY <2>1, <2>2, <2>3
<1>8. ASSUME NEW k \in 1 .. a + b
      PROVE  /\ Q[k] \in Nat \X Nat
             /\ Q[k][1] \in 1 .. m /\ Q[k][2] \in 1 .. Len(s[Q[k][1]])
             /\ r[k] = s[Q[k][1]][Q[k][2]]
  <2>1. CASE k \in 1 .. a
    <3>1. /\ P[k] \in Nat \X Nat
          /\ P[k][1] \in 1 .. m - 1 /\ P[k][2] \in 1 .. Len(s[P[k][1]])
          /\ flat[k] = s[P[k][1]][P[k][2]]
      BY <1>6, <2>1
    <3>2. Q[k] = P[k] /\ r[k] = flat[k]
      BY <1>3, <1>5, <2>1
    <3>3. P[k][1] \in 1 .. m
      BY <3>1
    <3> QED
      BY <3>1, <3>2, <3>3
  <2>2. CASE k \in a + 1 .. a + b
    <3>1. Q[k] \in Nat \X Nat /\ Q[k][1] = m /\ Q[k][2] = k - a /\ k - a \in 1 .. b
      BY <1>7, <2>2
    <3>2. r[k] = s[m][k - a] /\ Len(s[m]) = b /\ m \in 1 .. m
      <4>1. r[k] = s[m][k - a]
        BY <1>3, <2>2
      <4>2. m \in 1 .. m
        OBVIOUS
      <4> QED
        BY <1>1, <4>1, <4>2
    <3> QED
      BY <3>1, <3>2
  <2> QED
    BY <1>1, <2>1, <2>2
<1>9. ASSUME NEW k \in 1 .. a + b, NEW l \in 1 .. a + b, k < l
      PROVE  Q[k][1] < Q[l][1] \/ (Q[k][1] = Q[l][1] /\ Q[k][2] < Q[l][2])
  <2>1. CASE l \in 1 .. a
    <3>1. k \in 1 .. a
      BY <1>9, <2>1
    <3>2. P[k][1] < P[l][1] \/ (P[k][1] = P[l][1] /\ P[k][2] < P[l][2])
      BY <1>1, <1>9, <2>1, <3>1 DEF Placed
    <3> QED
      BY <1>5, <2>1, <3>1, <3>2
  <2>2. CASE k \in 1 .. a /\ l \in a + 1 .. a + b
    <3>1. P[k][1] \in 1 .. m - 1 /\ Q[k] = P[k] /\ Q[l][1] = m
      BY <1>5, <1>6, <1>7, <2>2
    <3>2. P[k][1] < m
      BY <3>1
    <3> QED
      BY ONLY <3>1, <3>2, Zenon
  <2>3. CASE k \in a + 1 .. a + b
    <3>1. l \in a + 1 .. a + b
      BY <1>1, <1>9, <2>3
    <3>2. Q[k][1] = m /\ Q[k][2] = k - a /\ Q[l][1] = m /\ Q[l][2] = l - a
      BY <1>7, <2>3, <3>1
    <3> QED
      BY <1>1, <1>9, <3>2
  <2> QED
    BY <1>1, <2>1, <2>2, <2>3
<1>10. ASSUME NEW j \in 1 .. m, NEW i \in 1 .. Len(s[j])
       PROVE  \E k \in 1 .. a + b : Q[k] = <<j, i>>
  <2>1. CASE j \in 1 .. m - 1
    <3>1. PICK k \in 1 .. a : P[k] = <<j, i>>
      BY <1>1, <2>1 DEF Placed
    <3>2. k \in 1 .. a + b /\ Q[k] = P[k]
      BY <1>1, <1>5
    <3> QED
      BY <3>1, <3>2
  <2>2. CASE j = m
    <3>1. a + i \in a + 1 .. a + b /\ (a + i) - a = i /\ a + i \in 1 .. a + b
      BY <1>1, <2>2
    <3>2. Q[a + i] = <<m, i>>
      BY <1>5, <3>1
    <3> QED
      BY <2>2, <3>1, <3>2
  <2>3. j \in 1 .. m - 1 \/ j = m
    OBVIOUS
  <2> QED
    BY <2>1, <2>2, <2>3, Zenon
<1>11. Placed(Q, s, m, r)
  <2>1. Len(r) = a + b
    BY <1>3
  <2>2. \A k \in 1 .. Len(r) :
       /\ Q[k] \in Nat \X Nat
       /\ Q[k][1] \in 1 .. m /\ Q[k][2] \in 1 .. Len(s[Q[k][1]])
       /\ r[k] = s[Q[k][1]][Q[k][2]]
    BY <1>8, <2>1
  <2>3. \A k, l \in 1 .. Len(r) : k < l =>
       Q[k][1] < Q[l][1] \/ (Q[k][1] = Q[l][1] /\ Q[k][2] < Q[l][2])
    BY <1>9, <2>1
  <2>4. \A j \in 1 .. m : \A i \in 1 .. Len(s[j]) : \E k \in 1 .. Len(r) : Q[k] = <<j, i>>
    BY <1>10, <2>1
  <2> QED
    BY <2>2, <2>3, <2>4 DEF Placed
<1> QED
  BY <1>2, <1>11

\* FlattenSeq.
LEMMA Flattened ==
  ASSUME NEW T, NEW n \in Nat, NEW s \in Lists(n, T)
  PROVE  /\ FlattenSeq(s) \in Seq(T)
         /\ \E P : Placed(P, s, n, FlattenSeq(s))
<1>0. \A k \in 1 .. n : s[k] \in Seq(T)
  BY DEF Lists
<1>1. s \in Seq(Seq(T)) /\ Len(s) = n /\ DOMAIN s = 1 .. n
  BY SeqDef DEF Lists
<1>2. CASE n = 0
  <2>1. FlattenSeq(s) = s /\ s = << >>
    BY <1>1, <1>2 DEF FlattenSeq
  <2>2. << >> \in Seq(T) /\ Len(<< >>) = 0
    BY EmptySeq
  <2>3. Placed(<< >>, s, n, << >>)
    BY <1>2, <2>2 DEF Placed
  <2> QED
    BY <2>1, <2>2, <2>3
<1>3. CASE n # 0
  <2> DEFINE G(p, k) == p \o s[k]
             step == [k \in 1 .. n |-> [p \in Seq(T) |-> G(p, k)]]
             F(h) == h = [i \in 1 .. Len(s) |-> IF i = 1 THEN s[i] ELSE h[i - 1] \o s[i]]
             h == CHOOSE x : F(x)
  <2>1. \A k \in 1 .. n : \A p \in Seq(T) : G(p, k) \in Seq(T)
    BY <1>0, ConcatProperties
  <2>2. step \in [1 .. n -> [Seq(T) -> Seq(T)]] /\ \A k \in 1 .. n : \A p \in Seq(T) : step[k][p] = G(p, k)
    <3> HIDE DEF G
    <3> QED
      BY <2>1
  <2> HIDE DEF step
  <2>3. PICK f \in [0 .. n -> Seq(T)] : f[0] = << >> /\ \A k \in 1 .. n : f[k] = step[k][f[k - 1]]
    <3>1. PICK D : D = Seq(T)
      OBVIOUS
    <3>2. PICK base \in D : base = << >>
      BY <3>1, EmptySeq
    <3>3. PICK turn \in [1 .. n -> [D -> D]] : turn = step
      BY <2>2, <3>1
    <3> HIDE DEF G, F, h
    <3>4. \E f \in [0 .. n -> D] : f[0] = base /\ \A k \in 1 .. n : f[k] = turn[k][f[k - 1]]
      BY LoopExists, SMTT(30)
    <3>5. PICK f \in [0 .. n -> D] : f[0] = base /\ \A k \in 1 .. n : f[k] = turn[k][f[k - 1]]
      BY <3>4, Zenon
    <3> QED
      BY <3>1, <3>2, <3>3, <3>5
  <2>4. ASSUME NEW k \in 1 .. n PROVE f[k] = f[k - 1] \o s[k]
    <3>1. f[k - 1] \in Seq(T)
      OBVIOUS
    <3> QED
      BY <2>2, <2>3, <3>1
  <2>5. f[1] = s[1]
    <3>1. 1 \in 1 .. n /\ s[1] \in Seq(T)
      BY <1>0, <1>3
    <3>2. f[1] = f[0] \o s[1]
      <4>1. PICK x, y : x = 1 /\ y = x - 1
        OBVIOUS
      <4>2. f[x] = f[y] \o s[x]
        BY <2>4, <3>1, <4>1
      <4>3. y = 0
        BY <4>1
      <4> QED
        BY <4>1, <4>2, <4>3
    <3>3. << >> \o s[1] = s[1]
      BY <3>1, ConcatEmptySeq
    <3> QED
      BY <2>3, <3>2, <3>3
  <2>6. \E x : F(x)
    <3>1. PICK x : x = [i \in 1 .. n |-> f[i]]
      OBVIOUS
    <3>2. \A i \in 1 .. n : i # 1 => i - 1 \in 1 .. n
      OBVIOUS
    <3>3. x = [i \in 1 .. n |-> IF i = 1 THEN s[i] ELSE x[i - 1] \o s[i]]
      BY <2>4, <2>5, <3>1, <3>2
    <3> QED
      BY <1>1, <3>3
  <2>7. F(h)
    <3> HIDE DEF F
    <3> QED
      BY <2>6, Zenon
  <2>8. FlattenSeq(s) = h[n]
    <3>1. FlattenSeq(s) = h[Len(s)]
      BY <1>1, <1>3, Zenon DEF FlattenSeq
    <3> QED
      BY <1>1, <3>1
  <2> HIDE DEF h
  <2>9. h[1] = s[1] /\ \A k \in 1 .. n : k # 1 => h[k] = h[k - 1] \o s[k]
    <3>1. h = [i \in 1 .. n |-> IF i = 1 THEN s[i] ELSE h[i - 1] \o s[i]]
      BY <1>1, <2>7
    <3>2. \A i \in 1 .. n : h[i] = IF i = 1 THEN s[i] ELSE h[i - 1] \o s[i]
      BY <3>1
    <3>3. 1 \in 1 .. n
      BY <1>3
    <3> QED
      BY <3>2, <3>3
  <2> DEFINE S == {k \in 0 .. n : k > 0 => h[k] \in Seq(T) /\ \E P : Placed(P, s, k, h[k])}
  <2>10. 0 \in S
    OBVIOUS
  <2>11. ASSUME NEW k \in 1 .. n, k - 1 \in S PROVE k \in S
    <3>0. s[k] \in Seq(T)
      BY <1>0
    <3>1. CASE k = 1
      <4>1. << >> \in Seq(T) /\ Len(<< >>) = 0
        BY EmptySeq
      <4>2. Placed(<< >>, s, k - 1, << >>)
        BY <3>1, <4>1 DEF Placed
      <4>3. \E Q : Placed(Q, s, k, << >> \o s[k])
        BY <4>1, <4>2, PlacedNext DEF Lists
      <4>4. << >> \o s[k] = s[k]
        BY <3>0, ConcatEmptySeq
      <4> QED
        BY <2>9, <3>0, <3>1, <4>3, <4>4
    <3>2. CASE k # 1
      <4>1. h[k - 1] \in Seq(T) /\ \E P : Placed(P, s, k - 1, h[k - 1])
        BY <2>11, <3>2
      <4>2. h[k] = h[k - 1] \o s[k]
        BY <2>9, <3>2
      <4>3. h[k] \in Seq(T)
        BY <3>0, <4>1, <4>2, ConcatProperties
      <4>4. \E Q : Placed(Q, s, k, h[k - 1] \o s[k])
        BY <4>1, PlacedNext DEF Lists
      <4>5. \E Q : Placed(Q, s, k, h[k])
        BY <4>2, <4>4
      <4> HIDE DEF h
      <4> QED
        BY <4>3, <4>5
    <3> QED
      BY <3>1, <3>2
  <2> HIDE DEF S
  <2>12. 0 .. n \subseteq S
    BY <2>10, <2>11, TurnInduction
  <2>13. n \in S /\ n > 0
    BY <1>3, <2>12
  <2> QED
    BY <2>8, <2>13 DEF S
<1> QED
  BY <1>2, <1>3

-----------------------------------------------------------------------------
(* Where the parts of a parsed diff are in it *)

Headers == FileHeaders \union HunkHeaders

NoHeader(c, i, j) == \A m \in i .. j : c[m].kind \notin Headers

\* The lines of a hunk that are of one kind.
OfKind(c, h, kind) == {i \in HunkLines(h) : c[i].kind = kind}

\* A hunk of the first n lines: it goes on to the next header, but for names
\* right above that.
HunkLaid(h, c, n) ==
  /\ h.header \in 1 .. n /\ h.end \in h.header .. n
  /\ c[h.header].kind \in HunkHeaders
  /\ NoHeader(c, h.header + 1, h.end)
  /\ \A i \in h.end + 1 .. n : c[i].kind \in {"old", "new"} \/ ~ NoHeader(c, h.header + 1, i)
  /\ h.additions = Cardinality(OfKind(c, h, "plus"))
  /\ h.deletions = Cardinality(OfKind(c, h, "minus"))

\* The hunks of a file whose header is at a.
HunksLaid(hs, a, c, n) ==
  /\ \A j \in 1 .. Len(hs) :
       /\ HunkLaid(hs[j], c, n) /\ a < hs[j].header
       /\ \A i \in a + 1 .. hs[j].header : c[i].kind \notin FileHeaders
  /\ \A j, l \in 1 .. Len(hs) : j < l => hs[j].header < hs[l].header

\* The names of a file.
NamesLaid(f, c, n) ==
  /\ f.header \in 1 .. n /\ c[f.header].kind \in FileHeaders
  /\ f.old # 0 => f.old \in 1 .. n /\ c[f.old].kind = "old"
  /\ f.new # 0 => f.new \in 1 .. n /\ c[f.new].kind = "new"
  /\ \A j \in 1 .. Len(f.renames) : f.renames[j] \in 1 .. n /\ c[f.renames[j]].kind = "rename"

FileLaid(f, c, n) == NamesLaid(f, c, n) /\ HunksLaid(f.hunks, f.header, c, n)

\* The lines of a hunk are finitely many.
LEMMA HunkLinesFinite ==
  ASSUME NEW h, h.header \in Nat, h.end \in Nat
  PROVE  IsFiniteSet(HunkLines(h)) /\ HunkLines(h) \subseteq Nat
<1>1. h.header + 1 \in Int /\ h.end \in Int
  OBVIOUS
<1>2. IsFiniteSet(h.header + 1 .. h.end)
  BY <1>1, FS_Interval
<1> QED
  BY <1>2 DEF HunkLines

\* A hunk that another header has closed.
LEMMA HunkStays ==
  ASSUME NEW n \in Nat \ {0}, NEW c, NEW h \in Hunk, HunkLaid(h, c, n - 1),
         ~ NoHeader(c, h.header + 1, n) \/ c[n].kind \in {"old", "new"}
  PROVE  HunkLaid(h, c, n)
<1>1. h.header \in 1 .. n /\ h.end \in h.header .. n /\ h.end \in Nat /\ h.header \in Nat
  BY DEF HunkLaid
<1>2. ASSUME NEW i \in h.end + 1 .. n
      PROVE  c[i].kind \in {"old", "new"} \/ ~ NoHeader(c, h.header + 1, i)
  <2>1. CASE i = n
    BY <2>1
  <2>2. CASE i # n
    <3>1. i \in h.end + 1 .. n - 1
      BY <1>1, <2>2
    <3> QED
      BY <3>1 DEF HunkLaid
  <2> QED
    BY <2>1, <2>2
<1> QED
  BY <1>1, <1>2 DEF HunkLaid

\* The open hunk and one more line, counted or not.
LEMMA HunkGrows ==
  ASSUME NEW n \in Nat \ {0}, NEW c, NEW h \in Hunk, HunkLaid(h, c, n - 1),
         NoHeader(c, h.header + 1, n - 1), c[n].kind \notin Headers,
         NEW g \in Hunk, g.header = h.header, g.end = n,
         g.additions = h.additions + (IF c[n].kind = "plus" THEN 1 ELSE 0),
         g.deletions = h.deletions + (IF c[n].kind = "minus" THEN 1 ELSE 0)
  PROVE  HunkLaid(g, c, n)
<1>1. h.header \in 1 .. n - 1 /\ h.end \in h.header .. n - 1 /\ h.end \in Nat /\ h.header \in Nat
  BY DEF HunkLaid
<1>2. HunkLines(h) \subseteq HunkLines(g) /\ n \in HunkLines(g) /\ n \notin HunkLines(h)
  BY <1>1 DEF HunkLines
<1>3. \A i \in HunkLines(g) : i = n \/ i \in HunkLines(h) \/ c[i].kind \in {"old", "new"}
  <2> SUFFICES ASSUME NEW i \in HunkLines(g), i # n, i \notin HunkLines(h)
               PROVE  c[i].kind \in {"old", "new"}
    OBVIOUS
  <2>1. i \in h.end + 1 .. n - 1
    BY <1>1 DEF HunkLines
  <2>2. NoHeader(c, h.header + 1, i)
    BY <1>1, <2>1 DEF NoHeader
  <2> QED
    BY <2>1, <2>2 DEF HunkLaid
<1>4. ASSUME NEW kind \in {"plus", "minus"}
      PROVE  Cardinality(OfKind(c, g, kind)) =
               Cardinality(OfKind(c, h, kind)) + (IF c[n].kind = kind THEN 1 ELSE 0)
  <2>1. PICK A : A = OfKind(c, h, kind)
    OBVIOUS
  <2>2. IsFiniteSet(A) /\ n \notin A /\ Cardinality(A) \in Nat
    <3>1. IsFiniteSet(HunkLines(h)) /\ A \subseteq HunkLines(h)
      BY <1>1, <2>1, HunkLinesFinite DEF OfKind
    <3>2. IsFiniteSet(A)
      BY <3>1, FS_Subset
    <3> QED
      BY <1>2, <3>1, <3>2, FS_CardinalityType
  <2>3. CASE c[n].kind = kind
    <3>1. OfKind(c, g, kind) = A \union {n}
      BY <1>2, <1>3, <2>1, <2>3 DEF OfKind
    <3>2. Cardinality(A \union {n}) = Cardinality(A) + 1
      BY <2>2, FS_AddElement
    <3> QED
      BY <2>1, <2>3, <3>1, <3>2
  <2>4. CASE c[n].kind # kind
    <3>1. OfKind(c, g, kind) = A
      BY <1>2, <1>3, <2>1, <2>4 DEF OfKind
    <3> QED
      BY <2>1, <2>2, <2>4, <3>1
  <2> QED
    BY <2>3, <2>4
<1>5. /\ g.additions = Cardinality(OfKind(c, g, "plus"))
      /\ g.deletions = Cardinality(OfKind(c, g, "minus"))
  BY <1>4 DEF HunkLaid
<1>6. /\ g.header \in 1 .. n /\ g.end \in g.header .. n
      /\ \A i \in g.end + 1 .. n : FALSE
  BY <1>1
<1>7. NoHeader(c, g.header + 1, g.end)
  <2>1. \A m \in h.header + 1 .. n : m = n \/ m \in h.header + 1 .. n - 1
    BY <1>1
  <2> QED
    BY <2>1 DEF NoHeader
<1>8. c[g.header].kind \in HunkHeaders
  BY DEF HunkLaid
<1> QED
  BY <1>5, <1>6, <1>7, <1>8 DEF HunkLaid

\* A hunk that has begun.
LEMMA HunkBegins ==
  ASSUME NEW n \in Nat \ {0}, NEW c, c[n].kind \in HunkHeaders
  PROVE  HunkLaid(NewHunk(n), c, n)
<1>1. PICK h : h = NewHunk(n)
  OBVIOUS
<1>2. h.header = n /\ h.end = n /\ h.additions = 0 /\ h.deletions = 0
  BY <1>1 DEF NewHunk
<1>3. \A kind : OfKind(c, h, kind) = {}
  <2>1. HunkLines(h) = {}
    BY <1>2 DEF HunkLines
  <2> QED
    BY <2>1 DEF OfKind
<1>4. Cardinality({}) = 0
  BY FS_EmptySet
<1>5. NoHeader(c, n + 1, n) /\ n \in 1 .. n /\ n \in n .. n /\ \A i \in n + 1 .. n : FALSE
  BY DEF NoHeader
<1> QED
  BY <1>1, <1>2, <1>3, <1>4, <1>5 DEF HunkLaid

\* Hunks that are closed, all of them.
LEMMA HunksStay ==
  ASSUME NEW n \in Nat \ {0}, NEW c, NEW a \in Nat, NEW hs \in Seq(Hunk), HunksLaid(hs, a, c, n - 1),
         \A j \in 1 .. Len(hs) : ~ NoHeader(c, hs[j].header + 1, n) \/ c[n].kind \in {"old", "new"}
  PROVE  HunksLaid(hs, a, c, n)
<1>1. ASSUME NEW j \in 1 .. Len(hs) PROVE HunkLaid(hs[j], c, n)
  <2>1. hs[j] \in Hunk /\ HunkLaid(hs[j], c, n - 1)
    BY DEF HunksLaid
  <2> QED
    BY <2>1, HunkStays
<1> QED
  BY <1>1 DEF HunksLaid

\* The last hunk is replaced.
LEMMA LastHunkLaid ==
  ASSUME NEW n \in Nat \ {0}, NEW c, NEW a \in Nat, NEW hs \in Seq(Hunk), hs # << >>,
         HunksLaid(hs, a, c, n - 1), NEW h \in Hunk, h.header = Last(hs).header, HunkLaid(h, c, n)
  PROVE  HunksLaid(Append(Front(hs), h), a, c, n)
<1>1. PICK F : F = Front(hs)
  OBVIOUS
<1>2. PICK q : q = Last(hs)
  OBVIOUS
<1>3. F \in Seq(Hunk) /\ q \in Hunk /\ hs = Append(F, q)
  BY <1>1, <1>2, LastAndFront
<1>4. PICK m \in Nat : m = Len(F)
  BY <1>3
<1>5. Len(hs) = m + 1 /\ hs[m + 1] = q /\ \A j \in 1 .. m : hs[j] = F[j] /\ F[j] \in Hunk
  BY <1>3, <1>4
<1>6. PICK gs : gs = Append(F, h)
  OBVIOUS
<1>7. Len(gs) = m + 1 /\ gs[m + 1] = h /\ \A j \in 1 .. m : gs[j] = F[j]
  BY <1>3, <1>4, <1>6
<1>8. \A j \in 1 .. m + 1 : gs[j].header = hs[j].header
  BY <1>2, <1>5, <1>7
<1>9. ASSUME NEW j \in 1 .. m PROVE HunkLaid(gs[j], c, n)
  <2>1. hs[j] \in Hunk /\ HunkLaid(hs[j], c, n - 1) /\ hs[j].header < q.header
    <3>1. j < m + 1 /\ j \in 1 .. m + 1 /\ m + 1 \in 1 .. m + 1
      OBVIOUS
    <3>2. hs[j].header < hs[m + 1].header
      BY <1>5, <3>1 DEF HunksLaid
    <3> QED
      BY <1>5, <3>1, <3>2 DEF HunksLaid
  <2>2. q.header \in 1 .. n - 1 /\ c[q.header].kind \in HunkHeaders
    <3>1. m + 1 \in 1 .. Len(hs)
      BY <1>5
    <3>2. HunkLaid(q, c, n - 1)
      BY <1>5, <3>1 DEF HunksLaid
    <3> QED
      BY <3>2 DEF HunkLaid
  <2>3. hs[j].header \in Nat
    BY <2>1 DEF Hunk
  <2>4. q.header \in hs[j].header + 1 .. n
    BY <2>1, <2>2, <2>3
  <2>5. ~ NoHeader(c, hs[j].header + 1, n)
    BY <2>2, <2>4 DEF NoHeader, Headers
  <2> QED
    BY <1>5, <1>7, <2>1, <2>5, HunkStays
<1>10. ASSUME NEW j \in 1 .. m + 1
       PROVE  /\ HunkLaid(gs[j], c, n) /\ a < gs[j].header
              /\ \A i \in a + 1 .. gs[j].header : c[i].kind \notin FileHeaders
  <2>1. HunkLaid(gs[j], c, n)
    <3>1. j = m + 1 \/ j \in 1 .. m
      OBVIOUS
    <3> QED
      BY <1>7, <1>9, <3>1
  <2>2. a < hs[j].header /\ \A i \in a + 1 .. hs[j].header : c[i].kind \notin FileHeaders
    BY <1>5 DEF HunksLaid
  <2> QED
    BY <1>8, <2>1, <2>2
<1>11. \A j, l \in 1 .. m + 1 : j < l => gs[j].header < gs[l].header
  BY <1>5, <1>8 DEF HunksLaid
<1>12. HunksLaid(gs, a, c, n)
  BY <1>7, <1>10, <1>11 DEF HunksLaid
<1> QED
  BY <1>1, <1>6, <1>12

\* One more hunk.
LEMMA NextHunkLaid ==
  ASSUME NEW n \in Nat \ {0}, NEW c, NEW a \in Nat, a < n, NEW hs \in Seq(Hunk),
         HunksLaid(hs, a, c, n - 1), c[n].kind \in HunkHeaders,
         \A i \in a + 1 .. n : c[i].kind \notin FileHeaders
  PROVE  HunksLaid(Append(hs, NewHunk(n)), a, c, n)
<1>1. PICK h \in Hunk : h = NewHunk(n) /\ h.header = n /\ HunkLaid(h, c, n)
  <2>1. n \in Nat
    OBVIOUS
  <2>2. NewHunk(n) \in Hunk /\ HunkLaid(NewHunk(n), c, n)
    BY <2>1, NewParts, HunkBegins
  <2>3. NewHunk(n).header = n
    BY DEF NewHunk
  <2> QED
    BY <2>2, <2>3
<1>2. PICK m \in Nat : m = Len(hs)
  OBVIOUS
<1>3. PICK gs : gs = Append(hs, h)
  OBVIOUS
<1>4. Len(gs) = m + 1 /\ gs[m + 1] = h /\ \A j \in 1 .. m : gs[j] = hs[j] /\ hs[j] \in Hunk
  BY <1>2, <1>3
<1>5. \A j \in 1 .. m : /\ HunkLaid(hs[j], c, n - 1) /\ a < hs[j].header
                        /\ \A i \in a + 1 .. hs[j].header : c[i].kind \notin FileHeaders
  BY <1>2 DEF HunksLaid
<1>6. \A j \in 1 .. m : hs[j].header \in 1 .. n - 1
  BY <1>5 DEF HunkLaid
<1>7. ASSUME NEW j \in 1 .. m PROVE HunkLaid(gs[j], c, n)
  <2>1. n \in hs[j].header + 1 .. n
    BY <1>6
  <2>2. ~ NoHeader(c, hs[j].header + 1, n)
    BY <2>1 DEF NoHeader, Headers
  <2>3. hs[j] \in Hunk /\ HunkLaid(hs[j], c, n - 1)
    BY <1>4, <1>5
  <2> QED
    BY <1>4, <2>2, <2>3, HunkStays
<1>8. ASSUME NEW j \in 1 .. m + 1
      PROVE  /\ HunkLaid(gs[j], c, n) /\ a < gs[j].header
             /\ \A i \in a + 1 .. gs[j].header : c[i].kind \notin FileHeaders
  <2>1. CASE j = m + 1
    BY <1>1, <1>4, <2>1
  <2>2. CASE j \in 1 .. m
    BY <1>4, <1>5, <1>7, <2>2
  <2> QED
    BY <2>1, <2>2
<1>9. ASSUME NEW j \in 1 .. m + 1, NEW l \in 1 .. m + 1, j < l
      PROVE  gs[j].header < gs[l].header
  <2>1. CASE l = m + 1
    <3>1. j \in 1 .. m
      BY <1>9, <2>1
    <3> QED
      BY <1>1, <1>4, <1>6, <2>1, <3>1
  <2>2. CASE l \in 1 .. m
    <3>1. j \in 1 .. m
      BY <1>9, <2>2
    <3>2. hs[j].header < hs[l].header
      BY <1>2, <1>9, <2>2, <3>1 DEF HunksLaid
    <3> QED
      BY <1>4, <2>2, <3>1, <3>2
  <2> QED
    BY <2>1, <2>2
<1>10. HunksLaid(gs, a, c, n)
  BY <1>4, <1>8, <1>9 DEF HunksLaid
<1> QED
  BY <1>1, <1>3, <1>10

\* The last hunk is at a place.
LEMMA LastHunkAt ==
  ASSUME NEW hs \in Seq(Hunk), hs # << >>
  PROVE  Len(hs) \in 1 .. Len(hs) /\ hs[Len(hs)] = Last(hs) /\ Last(hs) \in Hunk
<1>1. Len(hs) \in Nat /\ Len(hs) # 0
  BY EmptySeq
<1>2. hs[Len(hs)] = Last(hs)
  BY DEF Last
<1> QED
  BY <1>1, <1>2, LastAndFront

\* The headers of some hunks.
Heads(hs) == {hs[j].header : j \in 1 .. Len(hs)}

\* What a line of the extended header leaves alone.
LEMMA DescribedParts ==
  \A f \in File, i \in Nat : \A l :
    /\ Described(f, i, l) \in File /\ Described(f, i, l).hunks = f.hunks
    /\ Described(f, i, l).header = f.header
    /\ Described(f, i, l).old = f.old /\ Described(f, i, l).new = f.new
BY DescribedType

\* f is the current file of p when the lines before n have been parsed.
CurrentIs(f, p, c, n) ==
  /\ FileLaid(f, c, n - 1)
  /\ p.open <=> f.hunks # << >>
  /\ p.open => NoHeader(c, Last(f.hunks).header + 1, n - 1)
  /\ \A i \in f.header + 1 .. n : c[i].kind \notin FileHeaders

\* And g is what line n makes of it.
Advanced(g, f, p, c, n) ==
  /\ FileLaid(g, c, n) /\ g.header = f.header
  /\ g.hunks # << >> <=> (p.open \/ c[n].kind \in HunkHeaders)
  /\ g.hunks # << >> => NoHeader(c, Last(g.hunks).header + 1, n)
  /\ Heads(g.hunks) = Heads(f.hunks) \union (IF c[n].kind \in HunkHeaders THEN {n} ELSE {})

\* What a line below a file's header adds to the parts of the file.
LEMMA ChangedLaid ==
  ASSUME NEW n \in Nat \ {0}, NEW c, NEW f \in File, NEW p \in Parse, CurrentIs(f, p, c, n),
         NEW g \in File, g = Changed(f, p.open, n, c[n])
  PROVE  Advanced(g, f, p, c, n)
<1> DEFINE l == c[n]
<1>o. PICK open \in BOOLEAN : open = p.open
  BY DEF Parse
<1>a. /\ open <=> f.hunks # << >>
      /\ open => NoHeader(c, Last(f.hunks).header + 1, n - 1)
      /\ g = Changed(f, open, n, c[n]) /\ FileLaid(f, c, n - 1)
  BY <1>o DEF CurrentIs
<1>0. /\ f.hunks \in Seq(Hunk) /\ f.header \in Nat /\ f.header < n /\ f.renames \in Seq(Nat)
      /\ NamesLaid(f, c, n - 1) /\ HunksLaid(f.hunks, f.header, c, n - 1)
      /\ f.header \in 1 .. n - 1
  BY <1>a DEF FileLaid, NamesLaid, File
<1>f. \A i \in f.header + 1 .. n : c[i].kind \notin FileHeaders
  BY DEF CurrentIs
<1>n. l.kind \notin FileHeaders
  BY <1>a, <1>0, <1>f
<1>s. NamesLaid(f, c, n)
  <2>1. \A x : x \in 1 .. n - 1 => x \in 1 .. n
    OBVIOUS
  <2> QED
    BY <1>a, <1>0, <2>1 DEF NamesLaid
<1>g. SUFFICES /\ NamesLaid(g, c, n) /\ g.header = f.header
               /\ HunksLaid(g.hunks, f.header, c, n)
               /\ g.hunks # << >> <=> (open \/ l.kind \in HunkHeaders)
               /\ g.hunks # << >> => NoHeader(c, Last(g.hunks).header + 1, n)
               /\ Heads(g.hunks) = Heads(f.hunks) \union (IF l.kind \in HunkHeaders THEN {n} ELSE {})
  BY <1>o DEF FileLaid, Advanced
\* The last hunk replaced.
<1>r. ASSUME open, l.kind \notin Headers,
             NEW h \in Hunk, h.header = Last(f.hunks).header, HunkLaid(h, c, n),
             g.hunks = Append(Front(f.hunks), h)
      PROVE  /\ HunksLaid(g.hunks, f.header, c, n) /\ g.hunks # << >>
             /\ NoHeader(c, Last(g.hunks).header + 1, n)
             /\ Heads(g.hunks) = Heads(f.hunks)
  <2>1. HunksLaid(g.hunks, f.header, c, n)
    BY <1>a, <1>0, <1>r, LastHunkLaid
  <2>2. PICK F, q : F = Front(f.hunks) /\ q = Last(f.hunks)
    OBVIOUS
  <2>3. F \in Seq(Hunk) /\ q \in Hunk /\ f.hunks = Append(F, q)
    BY <1>a, <1>0, <1>r, <2>2, LastAndFront
  <2>4. g.hunks # << >> /\ Last(g.hunks) = h
    BY <1>a, <1>r, <2>2, <2>3, Appended
  <2>5. NoHeader(c, h.header + 1, n)
    <3>1. h.header \in Nat /\ NoHeader(c, h.header + 1, n - 1)
      BY <1>a, <1>r DEF Hunk
    <3>2. \A m \in h.header + 1 .. n : m = n \/ m \in h.header + 1 .. n - 1
      BY <3>1
    <3> QED
      BY <1>a, <1>r, <3>1, <3>2 DEF NoHeader
  <2>6. Heads(g.hunks) = Heads(f.hunks)
    <3>1. PICK m \in Nat : m = Len(F)
      BY <2>3
    <3>a. PICK fs, gs : fs = f.hunks /\ gs = g.hunks
      OBVIOUS
    <3>b. fs = Append(F, q) /\ gs = Append(F, h) /\ h.header = q.header
      BY <1>a, <1>r, <2>2, <2>3, <3>a
    <3>2. /\ Len(fs) = m + 1 /\ fs[m + 1] = q /\ \A j \in 1 .. m : fs[j] = F[j]
          /\ Len(gs) = m + 1 /\ gs[m + 1] = h /\ \A j \in 1 .. m : gs[j] = F[j]
      BY <2>3, <3>1, <3>b
    <3>4. \A j \in 1 .. m + 1 : gs[j].header = fs[j].header
      <4>1. \A j \in 1 .. m + 1 : j = m + 1 \/ j \in 1 .. m
        OBVIOUS
      <4> QED
        BY <3>2, <3>b, <4>1
    <3>5. Heads(gs) = Heads(fs)
      BY <3>2, <3>4 DEF Heads
    <3> QED
      BY <3>5, <3>a
  <2> QED
    BY <2>1, <2>4, <2>5, <2>6
\* The hunks as they are.
<1>k. ASSUME l.kind \notin Headers, g.hunks = f.hunks, ~ open \/ l.kind \in {"old", "new"}
      PROVE  /\ HunksLaid(g.hunks, f.header, c, n)
             /\ g.hunks # << >> => NoHeader(c, Last(g.hunks).header + 1, n)
             /\ Heads(g.hunks) = Heads(f.hunks)
  <2>1. HunksLaid(g.hunks, f.header, c, n)
    <3>1. \A j \in 1 .. Len(f.hunks) :
            ~ NoHeader(c, f.hunks[j].header + 1, n) \/ c[n].kind \in {"old", "new"}
      <4>1. ~ open => Len(f.hunks) = 0
        BY <1>a, <1>0, EmptySeq
      <4> QED
        BY <1>k, <4>1
    <3> QED
      BY <1>a, <1>0, <1>k, <3>1, HunksStay
  <2>2. ASSUME g.hunks # << >> PROVE NoHeader(c, Last(g.hunks).header + 1, n)
    <3>1. PICK h \in Hunk : h = Last(f.hunks)
      BY <1>a, <1>0, <1>k, <2>2, LastHunkAt
    <3>2. h.header \in Nat /\ NoHeader(c, h.header + 1, n - 1)
      BY <1>a, <1>k, <2>2, <3>1 DEF Hunk
    <3>3. \A m \in h.header + 1 .. n : m = n \/ m \in h.header + 1 .. n - 1
      BY <3>2
    <3> QED
      BY <1>k, <3>1, <3>2, <3>3 DEF NoHeader
  <2> QED
    BY <1>k, <2>1, <2>2
<1>l. open => /\ Last(f.hunks) \in Hunk /\ HunkLaid(Last(f.hunks), c, n - 1)
              /\ Len(f.hunks) \in 1 .. Len(f.hunks)
  <2> SUFFICES ASSUME open PROVE /\ Last(f.hunks) \in Hunk /\ HunkLaid(Last(f.hunks), c, n - 1)
                                 /\ Len(f.hunks) \in 1 .. Len(f.hunks)
    OBVIOUS
  <2>1. Len(f.hunks) \in 1 .. Len(f.hunks) /\ f.hunks[Len(f.hunks)] = Last(f.hunks) /\ Last(f.hunks) \in Hunk
    BY <1>a, <1>0, LastHunkAt
  <2> QED
    BY <1>a, <1>0, <2>1 DEF HunksLaid
<1>1. CASE open /\ l.kind \in {"plus", "minus", "context", "empty", "nonewline"}
  <2>1. PICK q \in Hunk : q = Last(f.hunks) /\ HunkLaid(q, c, n - 1) /\ NoHeader(c, q.header + 1, n - 1)
    BY <1>a, <1>1, <1>l
  <2>2. PICK h : h = Counted(q, n, l)
    OBVIOUS
  <2>3. h \in Hunk
    BY <2>1, <2>2 DEF Counted, Hunk
  <2>4. /\ h.header = q.header /\ h.end = n
        /\ h.additions = q.additions + (IF l.kind = "plus" THEN 1 ELSE 0)
        /\ h.deletions = q.deletions + (IF l.kind = "minus" THEN 1 ELSE 0)
    BY <2>2 DEF Counted
  <2>5. l.kind \notin Headers
    BY <1>a, <1>1 DEF Headers, FileHeaders, HunkHeaders
  <2>6. HunkLaid(h, c, n)
    BY <2>1, <2>3, <2>4, <2>5, HunkGrows
  <2>7. g = [f EXCEPT !.hunks = Append(Front(f.hunks), h)]
    BY <1>a, <1>1, <2>1, <2>2 DEF Changed
  <2>8. /\ g.hunks = Append(Front(f.hunks), h) /\ g.header = f.header
        /\ g.old = f.old /\ g.new = f.new /\ g.renames = f.renames
    BY <2>7 DEF File
  <2>9. /\ HunksLaid(g.hunks, f.header, c, n) /\ g.hunks # << >>
        /\ NoHeader(c, Last(g.hunks).header + 1, n)
        /\ Heads(g.hunks) = Heads(f.hunks)
    BY <1>a, <1>1, <1>r, <2>1, <2>3, <2>4, <2>5, <2>6, <2>8
  <2>10. NamesLaid(g, c, n)
    BY <1>s, <2>8 DEF NamesLaid
  <2>11. l.kind \notin HunkHeaders
    BY <2>5 DEF Headers
  <2> QED
    BY <1>a, <1>1, <2>8, <2>9, <2>10, <2>11
<1>2. CASE l.kind \in HunkHeaders
  <2>1. g = [f EXCEPT !.hunks = Append(f.hunks, NewHunk(n))]
    BY <1>a, <1>2 DEF Changed, HunkHeaders
  <2>2. /\ g.hunks = Append(f.hunks, NewHunk(n)) /\ g.header = f.header
        /\ g.old = f.old /\ g.new = f.new /\ g.renames = f.renames
    BY <2>1 DEF File
  <2>3. HunksLaid(g.hunks, f.header, c, n)
    BY <1>a, <1>0, <1>2, <1>f, <2>2, NextHunkLaid
  <2>4. PICK h \in Hunk : h = NewHunk(n) /\ h.header = n
    <3>1. NewHunk(n) \in Hunk
      BY NewParts
    <3> QED
      BY <3>1 DEF NewHunk
  <2>5. g.hunks # << >> /\ Last(g.hunks) = h
    <3>1. PICK hs \in Seq(Hunk) : hs = f.hunks
      BY DEF File
    <3>2. Append(hs, h) # << >> /\ Last(Append(hs, h)) = h
      BY <2>4, Appended
    <3> QED
      BY <2>2, <2>4, <3>1, <3>2
  <2>6. NoHeader(c, n + 1, n)
    BY DEF NoHeader
  <2>7. Heads(g.hunks) = Heads(f.hunks) \union {n}
    <3>1. PICK m \in Nat : m = Len(f.hunks)
      BY <1>0
    <3>2. Len(g.hunks) = m + 1 /\ g.hunks[m + 1] = h /\ \A j \in 1 .. m : g.hunks[j] = f.hunks[j]
      BY <1>a, <1>0, <2>2, <2>4, <3>1
    <3>3. /\ \A j \in 1 .. m + 1 : j = m + 1 \/ j \in 1 .. m
          /\ m + 1 \in 1 .. m + 1 /\ \A j \in 1 .. m : j \in 1 .. m + 1
      OBVIOUS
    <3>4. Heads(g.hunks) \subseteq Heads(f.hunks) \union {n}
      <4> SUFFICES ASSUME NEW x \in Heads(g.hunks) PROVE x = n \/ x \in Heads(f.hunks)
        OBVIOUS
      <4>1. PICK j \in 1 .. m + 1 : x = g.hunks[j].header
        BY <3>2 DEF Heads
      <4>2. j = m + 1 \/ (j \in 1 .. m /\ x = f.hunks[j].header)
        BY <3>2, <3>3, <4>1
      <4> QED
        BY <2>4, <3>1, <3>2, <4>1, <4>2 DEF Heads
    <3>5. Heads(f.hunks) \subseteq Heads(g.hunks)
      BY <3>1, <3>2, <3>3 DEF Heads
    <3>6. n \in Heads(g.hunks)
      BY <2>4, <3>2, <3>3 DEF Heads
    <3> QED
      BY <3>4, <3>5, <3>6
  <2>8. NamesLaid(g, c, n)
    BY <1>s, <2>2 DEF NamesLaid
  <2> QED
    BY <1>a, <1>2, <2>2, <2>3, <2>4, <2>5, <2>6, <2>7, <2>8
<1>3. CASE l.kind \in {"old", "new"}
  <2>1. l.kind \notin Headers /\ l.kind \notin HunkHeaders
    BY <1>a, <1>3 DEF Headers, FileHeaders, HunkHeaders
  <2>2. g = IF l.kind = "old" THEN [f EXCEPT !.old = n] ELSE [f EXCEPT !.new = n]
    BY <1>a, <1>3, <2>1 DEF Changed
  <2>3. /\ g.hunks = f.hunks /\ g.header = f.header /\ g.renames = f.renames
        /\ g.old = f.old \/ (g.old = n /\ l.kind = "old")
        /\ g.new = f.new \/ (g.new = n /\ l.kind = "new")
    BY <1>a, <1>3, <2>2 DEF File
  <2>4. NamesLaid(g, c, n)
    <3>1. n \in 1 .. n
      OBVIOUS
    <3> QED
      BY <1>s, <2>3, <3>1 DEF NamesLaid
  <2>5. /\ HunksLaid(g.hunks, f.header, c, n)
        /\ g.hunks # << >> => NoHeader(c, Last(g.hunks).header + 1, n)
        /\ Heads(g.hunks) = Heads(f.hunks)
    BY <1>a, <1>3, <1>k, <2>1, <2>3
  <2>6. g.hunks # << >> <=> open
    BY <1>a, <2>3
  <2> QED
    BY <2>1, <2>3, <2>4, <2>5, <2>6
<1>4. CASE /\ l.kind \notin HunkHeaders \union {"old", "new"}
           /\ ~ (open /\ l.kind \in {"plus", "minus", "context", "empty", "nonewline"})
  <2>1. PICK d : d = Described(f, n, l)
    OBVIOUS
  <2>2. d \in File /\ d.hunks = f.hunks /\ d.header = f.header /\ d.old = f.old /\ d.new = f.new
    <3>1. n \in Nat
      OBVIOUS
    <3>2. /\ Described(f, n, l) \in File /\ Described(f, n, l).hunks = f.hunks
          /\ Described(f, n, l).header = f.header
          /\ Described(f, n, l).old = f.old /\ Described(f, n, l).new = f.new
      BY <3>1, DescribedParts
    <3> QED
      BY <2>1, <3>2
  <2>3. d.renames = f.renames \/ (l.kind = "rename" /\ d.renames = Append(f.renames, n))
    <3>1. CASE l.kind = "rename"
      <4>1. d = [f EXCEPT !.renames = Append(f.renames, n)]
        BY <2>1, <3>1 DEF Described
      <4> QED
        BY <3>1, <4>1 DEF File
    <3>2. CASE l.kind # "rename"
      <4>1. CASE l.kind = "newmode"
        BY <2>1, <4>1 DEF Described, File
      <4>2. CASE l.kind = "delmode"
        BY <2>1, <4>2 DEF Described, File
      <4>3. CASE l.kind = "binary"
        BY <2>1, <4>3 DEF Described, File
      <4>4. CASE l.kind \notin {"newmode", "delmode", "rename", "binary"}
        BY <2>1, <4>4 DEF Described, File
      <4> QED
        BY <3>2, <4>1, <4>2, <4>3, <4>4
    <3> QED
      BY <3>1, <3>2
  <2>4. NamesLaid(d, c, n)
    <3>1. \A j \in 1 .. Len(d.renames) : d.renames[j] \in 1 .. n /\ c[d.renames[j]].kind = "rename"
      <4>1. CASE d.renames = f.renames
        BY <1>s, <4>1 DEF NamesLaid
      <4>2. CASE l.kind = "rename" /\ d.renames = Append(f.renames, n)
        <5>1. PICK m \in Nat : m = Len(f.renames)
          BY <1>0
        <5>2. Len(d.renames) = m + 1 /\ d.renames[m + 1] = n /\ \A j \in 1 .. m : d.renames[j] = f.renames[j]
          BY <1>a, <1>0, <4>2, <5>1
        <5>3. \A j \in 1 .. m : f.renames[j] \in 1 .. n /\ c[f.renames[j]].kind = "rename"
          BY <1>s, <5>1 DEF NamesLaid
        <5>4. n \in 1 .. n
          OBVIOUS
        <5>5. \A j \in 1 .. m + 1 : j = m + 1 \/ j \in 1 .. m
          OBVIOUS
        <5> QED
          BY <4>2, <5>2, <5>3, <5>4, <5>5
      <4> QED
        BY <2>3, <4>1, <4>2
    <3> QED
      BY <1>s, <2>2, <3>1 DEF NamesLaid
  <2>5. l.kind \notin Headers
    BY <1>n, <1>4 DEF Headers
  <2>6. CASE ~ open
    <3>1. g = d
      BY <1>a, <1>4, <2>1, <2>6 DEF Changed
    <3>2. /\ HunksLaid(g.hunks, f.header, c, n)
          /\ g.hunks # << >> => NoHeader(c, Last(g.hunks).header + 1, n)
          /\ Heads(g.hunks) = Heads(f.hunks)
      BY <1>a, <1>k, <2>2, <2>5, <2>6, <3>1
    <3> QED
      BY <1>a, <1>4, <2>2, <2>4, <2>6, <3>1, <3>2
  <2>7. CASE open
    <3>1. PICK q \in Hunk : q = Last(f.hunks) /\ HunkLaid(q, c, n - 1) /\ NoHeader(c, q.header + 1, n - 1)
      BY <1>a, <2>7, <1>l
    <3>2. PICK h : h = [q EXCEPT !.end = n]
      OBVIOUS
    <3>3. /\ h \in Hunk /\ h.header = q.header /\ h.end = n
          /\ h.additions = q.additions /\ h.deletions = q.deletions
      BY <3>1, <3>2 DEF Hunk
    <3>4. l.kind \notin {"plus", "minus"}
      BY <1>a, <1>4, <2>7
    <3>5. q.additions \in Nat /\ q.deletions \in Nat
      BY DEF Hunk
    <3>6. HunkLaid(h, c, n)
      <4>1. /\ h.additions = q.additions + (IF c[n].kind = "plus" THEN 1 ELSE 0)
            /\ h.deletions = q.deletions + (IF c[n].kind = "minus" THEN 1 ELSE 0)
        BY <3>3, <3>4, <3>5
      <4> QED
        BY <2>5, <3>1, <3>3, <4>1, HunkGrows
    <3>7. g = [d EXCEPT !.hunks = Append(Front(f.hunks), h)]
      BY <1>a, <1>4, <2>1, <2>7, <3>1, <3>2 DEF Changed
    <3>8. /\ g.hunks = Append(Front(f.hunks), h) /\ g.header = f.header
          /\ g.old = d.old /\ g.new = d.new /\ g.renames = d.renames
      BY <2>2, <3>7 DEF File
    <3>9. /\ HunksLaid(g.hunks, f.header, c, n) /\ g.hunks # << >>
          /\ NoHeader(c, Last(g.hunks).header + 1, n)
          /\ Heads(g.hunks) = Heads(f.hunks)
      BY <1>a, <1>r, <2>5, <2>7, <3>1, <3>3, <3>6, <3>8
    <3>10. NamesLaid(g, c, n)
      BY <2>2, <2>4, <3>8 DEF NamesLaid
    <3> QED
      BY <1>a, <1>4, <2>7, <3>8, <3>9, <3>10
  <2> QED
    BY <2>6, <2>7
<1> QED
  BY <1>a, <1>1, <1>2, <1>3, <1>4

\* What has been parsed of the first n lines.
Layout(p, c, n) ==
  /\ \A k \in 1 .. Len(p.pre) : p.pre[k] = k /\ c[k].kind \notin FileHeaders
  /\ Len(p.pre) <= n
  /\ p.files = << >> => Len(p.pre) = n
  /\ p.files # << >> => p.files[1].header = Len(p.pre) + 1
  /\ \A k \in 1 .. Len(p.files) : FileLaid(p.files[k], c, n)
  /\ \A k, l \in 1 .. Len(p.files) : k < l => p.files[k].header < p.files[l].header
  /\ \A g \in 1 .. n : c[g].kind \in HunkHeaders =>
       g <= Len(p.pre) \/ \E k \in 1 .. Len(p.files) : g \in Heads(p.files[k].hunks)

\* What is known of the last file.
LastFileLaid(p, c, n) ==
  p.files # << >> =>
    /\ \A i \in Last(p.files).header + 1 .. n : c[i].kind \notin FileHeaders
    /\ p.open <=> Last(p.files).hunks # << >>
    /\ p.open => NoHeader(c, Last(Last(p.files).hunks).header + 1, n)

\* A file that is followed by a header at g.
LEMMA FileStays ==
  ASSUME NEW n \in Nat \ {0}, NEW c, NEW f \in File, FileLaid(f, c, n - 1),
         NEW g \in 1 .. n, f.header < g, c[g].kind \in Headers,
         c[g].kind \in FileHeaders \/ g = n
  PROVE  FileLaid(f, c, n)
<1>1. f.hunks \in Seq(Hunk) /\ f.header \in Nat
  BY DEF File
<1>2. ASSUME NEW j \in 1 .. Len(f.hunks) PROVE ~ NoHeader(c, f.hunks[j].header + 1, n)
  <2>1. /\ HunkLaid(f.hunks[j], c, n - 1) /\ f.hunks[j].header \in Nat
        /\ \A i \in f.header + 1 .. f.hunks[j].header : c[i].kind \notin FileHeaders
    <3>1. f.hunks[j] \in Hunk
      BY <1>1
    <3> QED
      BY <3>1 DEF FileLaid, HunksLaid, Hunk
  <2>2. f.hunks[j].header < g
    <3>1. f.hunks[j].header <= n - 1
      BY <2>1 DEF HunkLaid
    <3>2. c[g].kind \in FileHeaders => g \notin f.header + 1 .. f.hunks[j].header
      BY <2>1
    <3> QED
      BY <1>1, <2>1, <3>1, <3>2
  <2>3. g \in f.hunks[j].header + 1 .. n
    BY <2>1, <2>2
  <2> QED
    BY <2>3 DEF NoHeader
<1>3. HunksLaid(f.hunks, f.header, c, n)
  BY <1>1, <1>2, HunksStay DEF FileLaid
<1>4. NamesLaid(f, c, n)
  <2>1. \A x : x \in 1 .. n - 1 => x \in 1 .. n
    OBVIOUS
  <2> QED
    BY <2>1 DEF FileLaid, NamesLaid
<1> QED
  BY <1>3, <1>4 DEF FileLaid

\* A line before the first file.
LEMMA PreLaid ==
  ASSUME NEW n \in Nat \ {0}, NEW c, NEW p \in Parse, Layout(p, c, n - 1),
         c[n].kind \notin FileHeaders, p.files = << >>
  PROVE  Layout(ParseLine(p, n, c[n]), c, n) /\ LastFileLaid(ParseLine(p, n, c[n]), c, n)
<1>1. PICK q : q = ParseLine(p, n, c[n])
  OBVIOUS
<1>2. q = [pre |-> Append(p.pre, n), files |-> << >>, open |-> FALSE]
  <2>1. n \in Nat
    OBVIOUS
  <2>2. PICK l : l = c[n]
    OBVIOUS
  <2> QED
    BY <1>1, <2>1, <2>2, LineBeforeFiles
<1>3. p.pre \in Seq(Nat) /\ Len(p.pre) = n - 1 /\ \A k \in 1 .. n - 1 : p.pre[k] = k /\ c[k].kind \notin FileHeaders
  BY DEF Parse, Layout
<1>4. q.pre = Append(p.pre, n) /\ q.files = << >>
  BY <1>2
<1>5. Len(q.pre) = n /\ \A k \in 1 .. n : q.pre[k] = k /\ c[k].kind \notin FileHeaders
  <2>1. Len(q.pre) = n /\ q.pre[n] = n /\ \A k \in 1 .. n - 1 : q.pre[k] = p.pre[k]
    BY <1>3, <1>4
  <2>2. \A k \in 1 .. n : k = n \/ k \in 1 .. n - 1
    OBVIOUS
  <2> QED
    BY <1>3, <2>1, <2>2
<1>6. Layout(q, c, n)
  <2>1. Len(<< >>) = 0
    BY EmptySeq
  <2> QED
    BY <1>4, <1>5, <2>1 DEF Layout
<1>7. LastFileLaid(q, c, n)
  BY <1>4 DEF LastFileLaid
<1> QED
  BY <1>1, <1>6, <1>7

\* A line that begins a file.
LEMMA HeaderLaid ==
  ASSUME NEW n \in Nat \ {0}, NEW c, NEW p \in Parse, Layout(p, c, n - 1), c[n].kind \in FileHeaders
  PROVE  Layout(ParseLine(p, n, c[n]), c, n) /\ LastFileLaid(ParseLine(p, n, c[n]), c, n)
<1>1. PICK q : q = ParseLine(p, n, c[n])
  OBVIOUS
<1>2. PICK e : e = NewFile(n)
  OBVIOUS
<1>3. q = [pre |-> p.pre, files |-> Append(p.files, e), open |-> FALSE]
  <2>1. n \in Nat
    OBVIOUS
  <2>2. PICK l : l = c[n]
    OBVIOUS
  <2> QED
    BY <1>1, <1>2, <2>1, <2>2, LineOfHeader
<1>4. p.files \in Seq(File) /\ p.pre \in Seq(Nat)
  BY DEF Parse
<1>5. e \in File /\ e.header = n /\ e.hunks = << >> /\ e.old = 0 /\ e.new = 0 /\ e.renames = << >>
  <2>1. NewFile(n) \in File
    <3>1. n \in Nat
      OBVIOUS
    <3> QED
      BY <3>1, NewParts
  <2> QED
    BY <1>2, <2>1 DEF NewFile
<1>6. PICK m \in Nat : m = Len(p.files)
  BY <1>4
<1>7. PICK fs : fs = Append(p.files, e)
  OBVIOUS
<1>8. Len(fs) = m + 1 /\ fs[m + 1] = e /\ \A k \in 1 .. m : fs[k] = p.files[k] /\ p.files[k] \in File
  BY <1>4, <1>5, <1>6, <1>7
<1>9. FileLaid(e, c, n)
  <2>1. Len(<< >>) = 0 /\ n \in 1 .. n
    BY EmptySeq
  <2> QED
    BY <1>5, <2>1 DEF FileLaid, NamesLaid, HunksLaid
<1>10. \A k \in 1 .. m : FileLaid(p.files[k], c, n - 1) /\ p.files[k].header \in 1 .. n - 1
  BY <1>6 DEF Layout, FileLaid, NamesLaid
<1>11. \A k \in 1 .. m : FileLaid(fs[k], c, n)
  <2> SUFFICES ASSUME NEW k \in 1 .. m PROVE FileLaid(fs[k], c, n)
    OBVIOUS
  <2>1. FileLaid(p.files[k], c, n - 1) /\ p.files[k].header < n /\ p.files[k] \in File
    BY <1>8, <1>10
  <2>2. n \in 1 .. n /\ c[n].kind \in Headers
    BY DEF Headers
  <2> QED
    BY <1>8, <2>1, <2>2, FileStays
<1>12. \A k \in 1 .. m + 1 : k = m + 1 \/ k \in 1 .. m
  OBVIOUS
<1>13. q.files = fs /\ q.pre = p.pre /\ q.open = FALSE
  BY <1>3, <1>7
<1>14. \A k, l \in 1 .. m + 1 : k < l => fs[k].header < fs[l].header
  <2> SUFFICES ASSUME NEW k \in 1 .. m + 1, NEW l \in 1 .. m + 1, k < l
               PROVE  fs[k].header < fs[l].header
    OBVIOUS
  <2>1. k \in 1 .. m
    OBVIOUS
  <2>2. CASE l = m + 1
    BY <1>5, <1>8, <1>10, <2>1, <2>2
  <2>3. CASE l \in 1 .. m
    <3>1. p.files[k].header < p.files[l].header
      BY <1>6, <2>1, <2>3 DEF Layout
    <3> QED
      BY <1>8, <2>1, <2>3, <3>1
  <2> QED
    BY <1>12, <2>2, <2>3
<1>15. fs # << >> /\ fs[1].header = Len(p.pre) + 1
  <2>1. fs # << >>
    BY <1>4, <1>5, <1>7, Appended
  <2>2. CASE m = 0
    <3>1. p.files = << >>
      BY <1>4, <1>6, <2>2, EmptySeq
    <3>2. Len(p.pre) = n - 1
      BY <3>1 DEF Layout
    <3>3. m + 1 = 1
      BY <2>2
    <3>4. fs[1] = e
      BY <1>8, <3>3
    <3> QED
      BY <1>5, <2>1, <3>2, <3>4
  <2>3. CASE m # 0
    <3>1. 1 \in 1 .. m
      BY <2>3
    <3>2. p.files # << >>
      BY <1>6, <2>3, EmptySeq
    <3>3. p.files[1].header = Len(p.pre) + 1
      BY <3>2 DEF Layout
    <3> QED
      BY <1>8, <2>1, <3>1, <3>3
  <2> QED
    BY <2>2, <2>3
<1>16. ASSUME NEW g \in 1 .. n, c[g].kind \in HunkHeaders
       PROVE  g <= Len(p.pre) \/ \E k \in 1 .. m + 1 : g \in Heads(fs[k].hunks)
  <2>1. g # n
    BY <1>16 DEF HunkHeaders, FileHeaders
  <2>2. g \in 1 .. n - 1
    BY <2>1
  <2>3. g <= Len(p.pre) \/ \E k \in 1 .. m : g \in Heads(p.files[k].hunks)
    BY <1>6, <1>16, <2>2 DEF Layout
  <2>4. \A k \in 1 .. m : k \in 1 .. m + 1
    OBVIOUS
  <2> QED
    BY <1>8, <2>3, <2>4
<1>17. Layout(q, c, n)
  <2>1. \A k \in 1 .. m + 1 : FileLaid(fs[k], c, n)
    BY <1>8, <1>9, <1>11, <1>12
  <2>2. Len(p.pre) <= n /\ \A k \in 1 .. Len(p.pre) : p.pre[k] = k /\ c[k].kind \notin FileHeaders
    <3>1. Len(p.pre) \in Nat
      BY <1>4
    <3> QED
      BY <3>1 DEF Layout
  <2> QED
    BY <1>8, <1>13, <1>14, <1>15, <1>16, <2>1, <2>2 DEF Layout
<1>18. LastFileLaid(q, c, n)
  <2>1. Last(fs) = e
    BY <1>4, <1>5, <1>7, Appended
  <2>2. \A i \in n + 1 .. n : FALSE
    OBVIOUS
  <2> QED
    BY <1>5, <1>13, <2>1, <2>2 DEF LastFileLaid
<1> QED
  BY <1>1, <1>17, <1>18

\* A line below a file's header.
LEMMA BelowLaid ==
  ASSUME NEW n \in Nat \ {0}, NEW c, NEW p \in Parse, Layout(p, c, n - 1), LastFileLaid(p, c, n - 1),
         c[n].kind \notin FileHeaders, p.files # << >>
  PROVE  Layout(ParseLine(p, n, c[n]), c, n) /\ LastFileLaid(ParseLine(p, n, c[n]), c, n)
<1>1. PICK q : q = ParseLine(p, n, c[n])
  OBVIOUS
<1>2. PICK F, f : F = Front(p.files) /\ f = Last(p.files)
  OBVIOUS
<1>3. p.files \in Seq(File) /\ p.pre \in Seq(Nat) /\ p.open \in BOOLEAN
  BY DEF Parse
<1>4. F \in Seq(File) /\ f \in File /\ p.files = Append(F, f)
  BY <1>2, <1>3, LastAndFront
<1>5. PICK g : g = Changed(f, p.open, n, c[n])
  OBVIOUS
<1>6. g \in File /\ q = [pre |-> p.pre, files |-> Append(F, g), open |-> p.open \/ c[n].kind \in HunkHeaders]
  <2>1. n \in Nat
    OBVIOUS
  <2>2. PICK l : l = c[n]
    OBVIOUS
  <2> QED
    BY <1>1, <1>2, <1>5, <2>1, <2>2, LineOfFile
<1>7. PICK m \in Nat : m = Len(F)
  BY <1>4
<1>8. Len(p.files) = m + 1 /\ p.files[m + 1] = f /\ \A k \in 1 .. m : p.files[k] = F[k] /\ F[k] \in File
  BY <1>4, <1>7
<1>9. PICK fs : fs = Append(F, g)
  OBVIOUS
<1>10. Len(fs) = m + 1 /\ fs[m + 1] = g /\ \A k \in 1 .. m : fs[k] = F[k]
  BY <1>4, <1>6, <1>7, <1>9
<1>11. q.pre = p.pre /\ q.files = fs /\ (q.open <=> p.open \/ c[n].kind \in HunkHeaders)
  BY <1>3, <1>6, <1>9
<1>12. /\ \A k \in 1 .. m + 1 : k = m + 1 \/ k \in 1 .. m
       /\ m + 1 \in 1 .. m + 1 /\ \A k \in 1 .. m : k \in 1 .. m + 1 /\ k < m + 1
  OBVIOUS
<1>13. \A k \in 1 .. m + 1 : FileLaid(p.files[k], c, n - 1) /\ p.files[k].header \in 1 .. n - 1
  BY <1>8 DEF Layout, FileLaid, NamesLaid
<1>14. FileLaid(f, c, n - 1) /\ f.header \in 1 .. n - 1 /\ c[f.header].kind \in FileHeaders
  <2>1. FileLaid(f, c, n - 1)
    BY <1>8, <1>12, <1>13
  <2> QED
    BY <2>1 DEF FileLaid, NamesLaid
<1>15. /\ \A i \in f.header + 1 .. n - 1 : c[i].kind \notin FileHeaders
       /\ p.open <=> f.hunks # << >>
       /\ p.open => NoHeader(c, Last(f.hunks).header + 1, n - 1)
  BY <1>2 DEF LastFileLaid
<1>16. \A i \in f.header + 1 .. n : c[i].kind \notin FileHeaders
  <2>1. \A i \in f.header + 1 .. n : i = n \/ i \in f.header + 1 .. n - 1
    BY <1>14
  <2> QED
    BY <1>15, <2>1
<1>17. /\ FileLaid(g, c, n) /\ g.header = f.header
       /\ g.hunks # << >> <=> (p.open \/ c[n].kind \in HunkHeaders)
       /\ g.hunks # << >> => NoHeader(c, Last(g.hunks).header + 1, n)
       /\ Heads(g.hunks) = Heads(f.hunks) \union (IF c[n].kind \in HunkHeaders THEN {n} ELSE {})
  <2>1. CurrentIs(f, p, c, n)
    BY <1>14, <1>15, <1>16 DEF CurrentIs
  <2>2. Advanced(g, f, p, c, n)
    BY <1>4, <1>5, <1>6, <2>1, ChangedLaid
  <2> QED
    BY <2>2 DEF Advanced
<1>18. /\ \A x \in Heads(f.hunks) : x \in Heads(g.hunks)
       /\ c[n].kind \in HunkHeaders => n \in Heads(g.hunks)
  BY <1>17
<1>19. \A k \in 1 .. m + 1 : FileLaid(fs[k], c, n) /\ fs[k].header = p.files[k].header
  <2> SUFFICES ASSUME NEW k \in 1 .. m PROVE FileLaid(F[k], c, n)
    BY <1>8, <1>10, <1>12, <1>17
  <2>1. FileLaid(F[k], c, n - 1) /\ F[k] \in File
    BY <1>8, <1>12, <1>13
  <2>2. F[k].header < f.header
    <3>1. p.files[k].header < p.files[m + 1].header
      BY <1>8, <1>12 DEF Layout
    <3> QED
      BY <1>8, <3>1
  <2>3. f.header \in 1 .. n /\ c[f.header].kind \in Headers
    BY <1>14 DEF Headers
  <2> QED
    BY <1>14, <2>1, <2>2, <2>3, FileStays
<1>20. \A k, l \in 1 .. m + 1 : k < l => fs[k].header < fs[l].header
  <2>1. \A k, l \in 1 .. m + 1 : k < l => p.files[k].header < p.files[l].header
    BY <1>8 DEF Layout
  <2> QED
    BY <1>19, <2>1
<1>21. ASSUME NEW x \in 1 .. n, c[x].kind \in HunkHeaders
       PROVE  x <= Len(p.pre) \/ \E k \in 1 .. m + 1 : x \in Heads(fs[k].hunks)
  <2>1. CASE x = n
    <3>1. n \in Heads(g.hunks)
      BY <1>18, <1>21, <2>1
    <3> QED
      BY <1>10, <1>12, <2>1, <3>1
  <2>2. CASE x # n
    <3>1. x \in 1 .. n - 1
      BY <2>2
    <3>2. x <= Len(p.pre) \/ \E k \in 1 .. m + 1 : x \in Heads(p.files[k].hunks)
      BY <1>8, <1>21, <3>1 DEF Layout
    <3>3. ASSUME NEW k \in 1 .. m + 1, x \in Heads(p.files[k].hunks)
          PROVE  x \in Heads(fs[k].hunks)
      BY <1>8, <1>10, <1>12, <1>18, <3>3
    <3> QED
      BY <3>2, <3>3
  <2> QED
    BY <2>1, <2>2
<1>22. fs # << >> /\ fs[1].header = Len(p.pre) + 1
  <2>1. fs # << >>
    BY <1>4, <1>6, <1>9, Appended
  <2>2. p.files[1].header = Len(p.pre) + 1
    BY DEF Layout
  <2>3. 1 \in 1 .. m + 1
    OBVIOUS
  <2> QED
    BY <1>19, <2>1, <2>2, <2>3
<1>23. Layout(q, c, n)
  <2>1. Len(p.pre) <= n /\ \A k \in 1 .. Len(p.pre) : p.pre[k] = k /\ c[k].kind \notin FileHeaders
    <3>1. Len(p.pre) \in Nat
      BY <1>3
    <3> QED
      BY <3>1 DEF Layout
  <2>2. \A k \in 1 .. m + 1 : FileLaid(fs[k], c, n)
    BY <1>19
  <2> QED
    BY <1>10, <1>11, <1>20, <1>21, <1>22, <2>1, <2>2 DEF Layout
<1>24. LastFileLaid(q, c, n)
  <2>1. Last(fs) = g
    BY <1>4, <1>6, <1>9, Appended
  <2> QED
    BY <1>11, <1>16, <1>17, <2>1 DEF LastFileLaid
<1> QED
  BY <1>1, <1>23, <1>24

\* Where the parts of a diff are, when all of it has been parsed.
LEMMA DiffLaid ==
  ASSUME NEW n \in Nat, NEW c, Len(c) = n
  PROVE  parseDiff(c) \in Parse /\ Layout(parseDiff(c), c, n)
<1>1. PICK t \in [0 .. n -> Parse] :
        /\ t[0] = NoParse
        /\ \A k \in 1 .. n : t[k] = ParseLine(t[k - 1], k, c[k])
        /\ parseDiff(c) = t[n]
  BY ParseTurns
<1> DEFINE S == {k \in 0 .. n : Layout(t[k], c, k) /\ LastFileLaid(t[k], c, k)}
<1>2. 0 \in S
  <2>1. t[0].pre = << >> /\ t[0].files = << >>
    BY <1>1 DEF NoParse
  <2>2. Len(<< >>) = 0
    BY EmptySeq
  <2>3. Layout(t[0], c, 0)
    BY <2>1, <2>2 DEF Layout
  <2>4. LastFileLaid(t[0], c, 0)
    BY <2>1 DEF LastFileLaid
  <2> QED
    BY <2>3, <2>4
<1>3. ASSUME NEW k \in 1 .. n, k - 1 \in S PROVE k \in S
  <2>1. PICK p \in Parse : p = t[k - 1]
    OBVIOUS
  <2>2. Layout(p, c, k - 1) /\ LastFileLaid(p, c, k - 1) /\ t[k] = ParseLine(p, k, c[k])
    BY <1>1, <1>3, <2>1
  <2>3. k \in Nat \ {0}
    OBVIOUS
  <2>4. Layout(t[k], c, k) /\ LastFileLaid(t[k], c, k)
    <3>1. CASE c[k].kind \in FileHeaders
      BY <2>2, <2>3, <3>1, HeaderLaid
    <3>2. CASE c[k].kind \notin FileHeaders /\ p.files = << >>
      BY <2>2, <2>3, <3>2, PreLaid
    <3>3. CASE c[k].kind \notin FileHeaders /\ p.files # << >>
      BY <2>2, <2>3, <3>3, BelowLaid
    <3> QED
      BY <3>1, <3>2, <3>3
  <2> QED
    BY <2>4
<1> HIDE DEF S
<1>4. 0 .. n \subseteq S
  BY <1>2, <1>3, TurnInduction
<1>5. n \in S /\ t[n] \in Parse
  BY <1>4
<1> QED
  BY <1>1, <1>5 DEF S

-----------------------------------------------------------------------------
(* What is in a sequence of line numbers, and in which order *)

Elems(s) == {s[k] : k \in 1 .. Len(s)}

Distinct(s) == \A k, l \in 1 .. Len(s) : k # l => s[k] # s[l]

\* Those of B are in ascending order.
Ordered(s, B) == \A k, l \in 1 .. Len(s) : k < l /\ s[k] \in B /\ s[l] \in B => s[k] < s[l]

\* Two sequences, one after the other.
LEMMA Joined ==
  ASSUME NEW T, NEW s \in Seq(T), NEW t \in Seq(T)
  PROVE  /\ s \o t \in Seq(T) /\ Elems(s \o t) = Elems(s) \union Elems(t)
         /\ \A B : /\ Ordered(s, B) /\ Ordered(t, B)
                   /\ Elems(s) \intersect B = {} \/ Elems(t) \intersect B = {}
                   => Ordered(s \o t, B)
<1>1. PICK a \in Nat, b \in Nat : a = Len(s) /\ b = Len(t)
  OBVIOUS
<1>2. PICK r : r = s \o t
  OBVIOUS
<1>3. /\ r \in Seq(T) /\ Len(r) = a + b
      /\ \A k \in 1 .. a : r[k] = s[k]
      /\ \A k \in a + 1 .. a + b : r[k] = t[k - a]
  BY <1>1, <1>2, ConcatProperties
<1>4. /\ \A k \in 1 .. a + b : k \in 1 .. a \/ (k \in a + 1 .. a + b /\ k - a \in 1 .. b)
      /\ \A k \in 1 .. a : k \in 1 .. a + b
      /\ \A k \in 1 .. b : a + k \in a + 1 .. a + b /\ a + k \in 1 .. a + b /\ (a + k) - a = k
  OBVIOUS
<1>5. Elems(r) \subseteq Elems(s) \union Elems(t)
  <2> SUFFICES ASSUME NEW x \in Elems(r) PROVE x \in Elems(s) \/ x \in Elems(t)
    OBVIOUS
  <2>1. PICK k \in 1 .. a + b : x = r[k]
    BY <1>3 DEF Elems
  <2>2. CASE k \in 1 .. a
    BY <1>1, <1>3, <2>1, <2>2 DEF Elems
  <2>3. CASE k \in a + 1 .. a + b /\ k - a \in 1 .. b
    BY <1>1, <1>3, <2>1, <2>3 DEF Elems
  <2> QED
    BY <1>4, <2>2, <2>3
<1>6. Elems(s) \subseteq Elems(r)
  BY <1>1, <1>3, <1>4 DEF Elems
<1>7. Elems(t) \subseteq Elems(r)
  <2> SUFFICES ASSUME NEW k \in 1 .. b PROVE t[k] \in Elems(r)
    BY <1>1 DEF Elems
  <2>1. r[a + k] = t[k] /\ a + k \in 1 .. Len(r)
    BY <1>3, <1>4
  <2> QED
    BY <2>1 DEF Elems
<1>8. ASSUME NEW B, Ordered(s, B), Ordered(t, B),
             Elems(s) \intersect B = {} \/ Elems(t) \intersect B = {}
      PROVE  Ordered(r, B)
  <2> SUFFICES ASSUME NEW k \in 1 .. a + b, NEW l \in 1 .. a + b, k < l, r[k] \in B, r[l] \in B
               PROVE  r[k] < r[l]
    BY <1>3 DEF Ordered
  <2>1. CASE l \in 1 .. a
    <3>1. k \in 1 .. a
      BY <2>1
    <3> QED
      BY <1>1, <1>3, <1>8, <2>1, <3>1 DEF Ordered
  <2>2. CASE k \in 1 .. a /\ l \in a + 1 .. a + b
    <3>1. s[k] \in Elems(s) /\ t[l - a] \in Elems(t)
      <4>1. l - a \in 1 .. b
        BY <2>2
      <4> QED
        BY <1>1, <2>2, <4>1 DEF Elems
    <3>2. r[k] = s[k] /\ r[l] = t[l - a]
      BY <1>3, <2>2
    <3> QED
      BY <1>8, <3>1, <3>2
  <2>3. CASE k \in a + 1 .. a + b
    <3>1. l \in a + 1 .. a + b /\ k - a \in 1 .. b /\ l - a \in 1 .. b /\ k - a < l - a
      BY <2>3
    <3>2. r[k] = t[k - a] /\ r[l] = t[l - a]
      BY <1>3, <2>3, <3>1
    <3> QED
      BY <1>1, <1>8, <3>1, <3>2 DEF Ordered
  <2> QED
    BY <1>4, <2>1, <2>2, <2>3
<1> QED
  BY <1>2, <1>3, <1>5, <1>6, <1>7, <1>8

\* Sequences, one after the other.
LEMMA AllJoined ==
  ASSUME NEW T, NEW n \in Nat, NEW s \in Lists(n, T)
  PROVE  /\ FlattenSeq(s) \in Seq(T)
         /\ \A x : x \in Elems(FlattenSeq(s)) <=> \E k \in 1 .. n : x \in Elems(s[k])
         /\ \A B : /\ \A k \in 1 .. n : Ordered(s[k], B)
                   /\ \A j, k \in 1 .. n : j # k =>
                        Elems(s[j]) \intersect B = {} \/ Elems(s[k]) \intersect B = {}
                   => Ordered(FlattenSeq(s), B)
<1>1. PICK r : r = FlattenSeq(s)
  OBVIOUS
<1>2. r \in Seq(T) /\ \E P : Placed(P, s, n, r)
  BY <1>1, Flattened
<1>3. PICK P : Placed(P, s, n, r)
  BY <1>2
<1>4. PICK m \in Nat : m = Len(r)
  BY <1>2
<1>5. \A k \in 1 .. m :
       /\ P[k] \in Nat \X Nat
       /\ P[k][1] \in 1 .. n /\ P[k][2] \in 1 .. Len(s[P[k][1]])
       /\ r[k] = s[P[k][1]][P[k][2]]
  BY <1>3, <1>4 DEF Placed
<1>6. ASSUME NEW x \in Elems(r) PROVE \E k \in 1 .. n : x \in Elems(s[k])
  <2>1. PICK k \in 1 .. m : x = r[k]
    BY <1>4 DEF Elems
  <2>2. PICK j \in 1 .. n : j = P[k][1]
    BY <1>5
  <2>3. PICK i \in 1 .. Len(s[j]) : i = P[k][2]
    BY <1>5, <2>2
  <2>4. x = s[j][i]
    BY <1>5, <2>1, <2>2, <2>3
  <2> QED
    BY <2>4 DEF Elems
<1>7. ASSUME NEW j \in 1 .. n, NEW x \in Elems(s[j]) PROVE x \in Elems(r)
  <2>1. PICK i \in 1 .. Len(s[j]) : x = s[j][i]
    BY DEF Elems
  <2>2. PICK k \in 1 .. m : P[k] = <<j, i>>
    BY <1>3, <1>4 DEF Placed
  <2>3. r[k] = s[j][i]
    <3>1. r[k] = s[P[k][1]][P[k][2]]
      BY <1>5
    <3> QED
      BY <2>2, <3>1
  <2> QED
    BY <1>4, <2>1, <2>3 DEF Elems
<1>8. ASSUME NEW B, \A k \in 1 .. n : Ordered(s[k], B),
             \A j, k \in 1 .. n : j # k =>
               Elems(s[j]) \intersect B = {} \/ Elems(s[k]) \intersect B = {}
      PROVE  Ordered(r, B)
  <2> SUFFICES ASSUME NEW k \in 1 .. m, NEW l \in 1 .. m, k < l, r[k] \in B, r[l] \in B
               PROVE  r[k] < r[l]
    BY <1>4 DEF Ordered
  <2>1. PICK j \in 1 .. n, i \in Nat :
          j = P[k][1] /\ i = P[k][2] /\ i \in 1 .. Len(s[j]) /\ r[k] = s[j][i]
    BY <1>5
  <2>2. PICK v \in 1 .. n, u \in Nat :
          v = P[l][1] /\ u = P[l][2] /\ u \in 1 .. Len(s[v]) /\ r[l] = s[v][u]
    BY <1>5
  <2>3. j = v
    <3>1. r[k] \in Elems(s[j]) \intersect B /\ r[l] \in Elems(s[v]) \intersect B
      BY <2>1, <2>2 DEF Elems
    <3> QED
      BY <1>8, <3>1
  <2>4. i < u
    <3>1. P[k][1] < P[l][1] \/ (P[k][1] = P[l][1] /\ P[k][2] < P[l][2])
      BY <1>3, <1>4 DEF Placed
    <3> QED
      BY <2>1, <2>2, <2>3, <3>1
  <2> QED
    BY <1>8, <2>1, <2>2, <2>3, <2>4 DEF Ordered
<1>9. \A x : x \in Elems(r) <=> \E k \in 1 .. n : x \in Elems(s[k])
  BY <1>6, <1>7
<1>10. \A B : /\ \A k \in 1 .. n : Ordered(s[k], B)
              /\ \A j, k \in 1 .. n : j # k =>
                   Elems(s[j]) \intersect B = {} \/ Elems(s[k]) \intersect B = {}
              => Ordered(r, B)
  BY <1>8
<1> QED
  BY <1>1, <1>2, <1>9, <1>10

\* Sequences with one element or none.
LEMMA Shortest ==
  ASSUME NEW T, NEW x \in T
  PROVE  /\ << >> \in Seq(T) /\ Elems(<< >>) = {} /\ \A B : Ordered(<< >>, B)
         /\ <<x>> \in Seq(T) /\ Elems(<<x>>) = {x} /\ \A B : Ordered(<<x>>, B)
<1>1. << >> \in Seq(T) /\ Len(<< >>) = 0
  BY EmptySeq
<1>2. <<x>> \in Seq(T) /\ Len(<<x>>) = 1 /\ <<x>>[1] = x
  OBVIOUS
<1>3. \A k \in 1 .. 1 : k = 1
  OBVIOUS
<1>4. Elems(<< >>) = {} /\ \A B : Ordered(<< >>, B)
  BY <1>1 DEF Elems, Ordered
<1>5. Elems(<<x>>) = {x}
  <2>1. PICK s : s = <<x>>
    OBVIOUS
  <2>2. Len(s) = 1 /\ s[1] = x
    BY <1>2, <2>1
  <2>3. Elems(s) = {x}
    BY <1>3, <2>2 DEF Elems
  <2> QED
    BY <2>1, <2>3
<1>6. \A B : Ordered(<<x>>, B)
  BY <1>2, <1>3 DEF Ordered
<1> QED
  BY <1>1, <1>2, <1>4, <1>5, <1>6

\* Some sequence of the elements of another, none of them twice.
Chosen(r, s) ==
  \E P \in Seq(1 .. Len(s)) : Distinct(P) /\ r = [k \in 1 .. Len(P) |-> s[P[k]]]

-----------------------------------------------------------------------------
(* The hunks that are kept *)

\* A set of indices in a sequence, in order.
LEMMA InOrderAscends ==
  ASSUME NEW S, IsFiniteSet(S), S \subseteq Int
  PROVE  /\ InOrder(S) \in Seq(S) /\ Len(InOrder(S)) = Cardinality(S) /\ Elems(InOrder(S)) = S
         /\ \A k, l \in 1 .. Len(InOrder(S)) : k < l => InOrder(S)[k] < InOrder(S)[l]
<1>1. PICK r : r = InOrder(S)
  OBVIOUS
<1>2. PICK n \in Nat : n = Cardinality(S)
  BY FS_CardinalityType
<1>3. /\ r \in [1 .. n -> S] /\ Len(r) = n
      /\ \A k \in 1 .. n : r[k] \in S /\ Cardinality({j \in S : j < r[k]}) = k - 1
      /\ \A x \in S : \E k \in 1 .. n : r[k] = x
  <2>1. /\ r \in [1 .. Cardinality(S) -> S] /\ Len(r) = Cardinality(S)
        /\ \A k \in 1 .. Cardinality(S) : r[k] \in S /\ Cardinality({j \in S : j < r[k]}) = k - 1
        /\ \A x \in S : \E k \in 1 .. Cardinality(S) : r[k] = x
    <3>1. /\ InOrder(S) \in [1 .. Cardinality(S) -> S] /\ Len(InOrder(S)) = Cardinality(S)
          /\ \A k \in 1 .. Cardinality(S) :
               InOrder(S)[k] \in S /\ Cardinality({j \in S : j < InOrder(S)[k]}) = k - 1
          /\ \A x \in S : \E k \in 1 .. Cardinality(S) : InOrder(S)[k] = x
      BY InOrderLists
    <3> QED
      BY <1>1, <3>1
  <2> QED
    BY <1>2, <2>1
<1>4. r \in Seq(S)
  BY <1>3, SeqDef
<1>5. Elems(r) = S
  BY <1>3 DEF Elems
<1>6. ASSUME NEW k \in 1 .. n, NEW l \in 1 .. n, k < l PROVE r[k] < r[l]
  <2>1. PICK x \in S, y \in S : x = r[k] /\ y = r[l]
    BY <1>3
  <2>2. y < x => Cardinality({j \in S : j < y}) < Cardinality({j \in S : j < x})
    BY RankGrows
  <2>3. Cardinality({j \in S : j < x}) = k - 1 /\ Cardinality({j \in S : j < y}) = l - 1
    BY <1>3, <2>1
  <2>4. ~ (y < x) /\ x # y
    BY <1>6, <2>2, <2>3
  <2>5. x \in Int /\ y \in Int
    OBVIOUS
  <2> QED
    BY <2>1, <2>4, <2>5
<1> QED
  BY <1>1, <1>2, <1>3, <1>4, <1>5, <1>6

\* A line has a start that can be compared.
Started(c) == \A i \in 1 .. Len(c) : c[i].start \in Nat

\* A hunk's score can be compared.
LEMMA ScoreIsNumber ==
  ASSUME NEW c, NEW h \in Hunk
  PROVE  Score(c, h) \in Int
<1>1. PICK named : named = {w \in Query : \E i \in HunkLines(h) : w \in c[i].words}
  OBVIOUS
<1>2. Cardinality(named) \in Nat
  <2>1. IsFiniteSet(named)
    BY <1>1, DiffAssumption, FS_Subset
  <2> QED
    BY <2>1, FS_CardinalityType
<1>3. PICK m \in Nat : m = Cardinality(named)
  BY <1>2
<1>4. PICK b \in {0, 30} : b = IF \E i \in HunkLines(h) : "priority" \in c[i].words THEN 30 ELSE 0
  OBVIOUS
<1>5. AtMost(3 * (h.additions + h.deletions), 30) \in Int
  BY DEF AtMost, Hunk
<1>6. PICK a \in Int : a = AtMost(3 * (h.additions + h.deletions), 30)
  BY <1>5
<1>7. Score(c, h) = AtMost(a + 20 * m + b, 100)
  BY <1>1, <1>3, <1>4, <1>6 DEF Score
<1> QED
  BY <1>7 DEF AtMost

\* The middle hunks that are kept.
LEMMA MiddleKept ==
  ASSUME NEW c, NEW hs \in Seq(Hunk)
  PROVE  KeptMiddle(c, hs) \in Seq(Middle(hs)) /\ Distinct(KeptMiddle(c, hs))
<1> DEFINE better(i, j) == Score(c, hs[i]) > Score(c, hs[j])
           S == FirstBy(Middle(hs), AtLeast(MaxHunksPerFile - 2, 0), better)
<1>1. /\ IsFiniteSet(Middle(hs)) /\ Middle(hs) \subseteq Int
      /\ \A i \in Middle(hs) : i \in 1 .. Len(hs) /\ hs[i] \in Hunk
  <2>1. IsFiniteSet(2 .. Len(hs) - 1)
    <3>1. Len(hs) - 1 \in Int /\ 2 \in Int
      OBVIOUS
    <3> QED
      BY <3>1, FS_Interval
  <2> QED
    BY <2>1 DEF Middle
<1>2. S \subseteq Middle(hs)
  BY DEF FirstBy
<1>3. PICK A : A = S /\ IsFiniteSet(A) /\ A \subseteq Middle(hs) /\ A \subseteq Int
  BY <1>1, <1>2, FS_Subset
<1> HIDE DEF S
<1>4. PICK s : s = InOrder(A)
  OBVIOUS
<1>5. PICK n \in Nat : n = Len(s) /\ s \in Seq(A) /\ \A k, l \in 1 .. n : k < l => s[k] < s[l]
  <2>1. /\ s \in Seq(A) /\ \A k, l \in 1 .. Len(s) : k < l => s[k] < s[l]
    BY <1>3, <1>4, InOrderAscends
  <2>2. Len(s) \in Nat
    BY <2>1
  <2> QED
    BY <2>1, <2>2
<1>6. PICK key : key = [k \in 1 .. n |-> Score(c, hs[s[k]])]
  OBVIOUS
<1>7. key \in [1 .. n -> Int] /\ DOMAIN s = 1 .. n /\ \A k \in 1 .. n : s[k] \in A /\ s[k] \in Int
  <2>1. \A k \in 1 .. n : s[k] \in A
    BY <1>5
  <2>2. \A k \in 1 .. n : hs[s[k]] \in Hunk
    BY <1>1, <1>3, <2>1
  <2>3. \A k \in 1 .. n : Score(c, hs[s[k]]) \in Int
    BY <2>2, ScoreIsNumber
  <2>4. key \in [1 .. n -> Int]
    BY <1>6, <2>3
  <2>5. \A k \in 1 .. n : s[k] \in Int
    BY <1>3, <2>1
  <2>6. DOMAIN s = 1 .. n
    BY <1>5
  <2> QED
    BY <2>1, <2>4, <2>5, <2>6
<1>8. \A i, j \in 1 .. n : better(s[i], s[j]) <=> key[i] > key[j]
  BY <1>6
<1> DEFINE rank == [i \in DOMAIN s |-> Cardinality({j \in DOMAIN s :
                      better(s[j], s[i]) \/ (j < i /\ ~ better(s[i], s[j]))})]
<1>9. SortedBy(n, key, s, ByRank(s, rank))
  <2>1. ASSUME NEW i \in 1 .. n PROVE rank[i] = Cardinality(Higher(n, key, i))
    <3> HIDE DEF better
    <3>1. {j \in DOMAIN s : better(s[j], s[i]) \/ (j < i /\ ~ better(s[i], s[j]))} =
            Higher(n, key, i)
      BY <1>7, <1>8 DEF Higher
    <3>2. i \in DOMAIN s
      BY <1>7
    <3>3. rank[i] = Cardinality({j \in DOMAIN s : better(s[j], s[i]) \/ (j < i /\ ~ better(s[i], s[j]))})
      BY <3>2
    <3> HIDE DEF rank
    <3> QED
      BY <3>1, <3>3
  <2> HIDE DEF rank
  <2>2. RankedBy(n, key, rank)
    BY <2>1 DEF RankedBy
  <2> QED
    BY <1>7, <2>2, SortedPlaces
<1>10. PICK r : r = ByRank(s, rank)
  OBVIOUS
<1>11. KeptMiddle(c, hs) = r
  <2>1. KeptMiddle(c, hs) = StableSort(InOrder(S), better)
    BY Zenon DEF KeptMiddle, S
  <2>2. StableSort(s, better) = ByRank(s, rank)
    BY Zenon DEF StableSort
  <2> HIDE DEF better, rank
  <2> QED
    BY <1>3, <1>4, <1>10, <2>1, <2>2
<1>12. PICK P \in [1 .. n -> 1 .. n] :
         /\ r = [k \in 1 .. n |-> s[P[k]]]
         /\ \A k, l \in 1 .. n : k < l =>
              key[P[k]] > key[P[l]] \/ (key[P[k]] = key[P[l]] /\ P[k] < P[l])
  <2> HIDE DEF rank
  <2> QED
    BY <1>9, <1>10 DEF SortedBy
<1>13. r \in [1 .. n -> Middle(hs)] /\ r \in Seq(Middle(hs)) /\ Len(r) = n
  <2>1. r \in [1 .. n -> Middle(hs)]
    BY <1>3, <1>7, <1>12
  <2> QED
    BY <2>1, SeqDef
<1>14. ASSUME NEW k \in 1 .. n, NEW l \in 1 .. n, k < l PROVE r[k] # r[l]
  <2>1. PICK x \in 1 .. n, y \in 1 .. n : x = P[k] /\ y = P[l]
    OBVIOUS
  <2>2. key[x] > key[y] \/ (key[x] = key[y] /\ x < y)
    BY <1>12, <1>14, <2>1
  <2>3. x # y
    <3>1. key[x] \in Int /\ key[y] \in Int
      BY <1>7
    <3> QED
      BY <2>2, <3>1
  <2>4. s[x] \in Int /\ s[y] \in Int /\ (x < y => s[x] < s[y]) /\ (y < x => s[y] < s[x])
    BY <1>5, <1>7
  <2>5. s[x] # s[y]
    <3>1. PICK u \in Int, v \in Int : u = s[x] /\ v = s[y]
      BY <2>4
    <3>2. u < v \/ v < u
      BY <2>3, <2>4, <3>1
    <3> QED
      BY <3>1, <3>2
  <2> QED
    BY <1>12, <2>1, <2>5
<1>15. Distinct(r)
  <2>1. \A k, l \in 1 .. n : k # l => k < l \/ l < k
    OBVIOUS
  <2> QED
    BY <1>13, <1>14, <2>1 DEF Distinct
<1> QED
  BY <1>11, <1>13, <1>15

\* The hunks that are kept are some of the file's, none of them twice.
LEMMA SelectedHunks ==
  ASSUME NEW c, NEW hs \in Seq(Hunk), Started(c),
         \A k \in 1 .. Len(hs) : hs[k].header \in 1 .. Len(c)
  PROVE  Chosen(selectHunks(c, hs), hs)
<1>1. PICK n \in Nat : n = Len(hs)
  OBVIOUS
<1>2. \A k \in 1 .. n : hs[k] \in Hunk /\ hs[k].header \in 1 .. Len(c) /\ c[hs[k].header].start \in Nat
  BY <1>1 DEF Started
<1>3. CASE n <= MaxHunksPerFile
  <2>1. selectHunks(c, hs) = hs
    BY <1>1, <1>3 DEF selectHunks
  <2>2. PICK P : P = [k \in 1 .. n |-> k]
    OBVIOUS
  <2>3. P \in Seq(1 .. n) /\ Len(P) = n /\ \A k \in 1 .. n : P[k] = k
    BY <2>2, SeqDef
  <2>4. Distinct(P)
    BY <2>3 DEF Distinct
  <2>5. hs = [k \in 1 .. n |-> hs[P[k]]]
    BY <1>1, <2>3
  <2> QED
    BY <1>1, <2>1, <2>3, <2>4, <2>5 DEF Chosen
<1>4. CASE ~ (n <= MaxHunksPerFile)
  <2>1. n > 0 /\ 1 \in 1 .. n /\ n \in 1 .. n
    BY <1>4, DiffAssumption
  <2> DEFINE before(i, j) == c[hs[i].header].start < c[hs[j].header].start
             tail == IF n > 1 THEN <<n>> ELSE << >>
  <2>2. PICK s : s = <<1>> \o KeptMiddle(c, hs) \o tail
    OBVIOUS
  <2>3. s \in Seq(1 .. n) /\ Distinct(s)
    <3>1. PICK km : km = KeptMiddle(c, hs)
      OBVIOUS
    <3>2. km \in Seq(2 .. n - 1) /\ Distinct(km)
      BY <1>1, <3>1, MiddleKept DEF Middle
    <3>3. PICK m \in Nat : m = Len(km) /\ \A k \in 1 .. m : km[k] \in 2 .. n - 1
      <4>1. PICK T : T = 2 .. n - 1
        OBVIOUS
      <4>2. km \in Seq(T)
        BY <3>2, <4>1
      <4>3. Len(km) \in Nat /\ \A k \in 1 .. Len(km) : km[k] \in T
        BY <4>2
      <4> QED
        BY <4>1, <4>3
    <3>4. \A k, l \in 1 .. m : k # l => km[k] # km[l]
      BY <3>2, <3>3 DEF Distinct
    <3>5. km \in Seq(1 .. n)
      BY <3>2, <3>3
    <3>6. CASE n > 1
      <4>1. s = <<1>> \o km \o <<n>>
        BY <2>2, <3>1, <3>6
      <4>2. /\ s \in Seq(1 .. n) /\ Len(s) = m + 2
            /\ s[1] = 1 /\ s[m + 2] = n /\ \A k \in 2 .. m + 1 : s[k] = km[k - 1]
        BY <2>1, <3>3, <3>5, <4>1
      <4>3. \A k \in 2 .. m + 1 : s[k] \in 2 .. n - 1
        <5> SUFFICES ASSUME NEW k \in 2 .. m + 1 PROVE s[k] \in 2 .. n - 1
          OBVIOUS
        <5>1. k - 1 \in 1 .. m /\ s[k] = km[k - 1]
          BY <4>2
        <5> QED
          BY <3>3, <5>1
      <4>4. \A k, l \in 2 .. m + 1 : k # l => s[k] # s[l]
        BY <3>4, <4>2
      <4>5. ASSUME NEW k \in 1 .. m + 2, NEW l \in 1 .. m + 2, k # l PROVE s[k] # s[l]
        <5>1. k = 1 \/ k \in 2 .. m + 1 \/ k = m + 2
          OBVIOUS
        <5>2. l = 1 \/ l \in 2 .. m + 1 \/ l = m + 2
          OBVIOUS
        <5>3. \A j \in 2 .. m + 1 : s[j] # 1 /\ s[j] # n
          BY <4>3
        <5>4. s[1] = 1 /\ s[m + 2] = n /\ n # 1
          BY <3>6, <4>2
        <5>5. CASE k = 1
          BY <4>5, <5>2, <5>3, <5>4, <5>5
        <5>6. CASE k \in 2 .. m + 1
          BY <4>4, <4>5, <5>2, <5>3, <5>4, <5>6
        <5>7. CASE k = m + 2
          BY <4>5, <5>2, <5>3, <5>4, <5>7
        <5> QED
          BY <5>1, <5>5, <5>6, <5>7
      <4> QED
        BY <4>2, <4>5 DEF Distinct
    <3>7. CASE ~ (n > 1)
      <4>1. s = <<1>> \o km \o << >> /\ m = 0
        <5>1. m = 0
          BY <3>3, <3>7
        <5> QED
          BY <2>2, <3>1, <3>7, <5>1
      <4>2. s = <<1>>
        <5>1. km = << >>
          BY <3>3, <3>5, <4>1, EmptySeq
        <5> QED
          BY <4>1, <5>1
      <4> QED
        BY <2>1, <4>2 DEF Distinct
    <3> QED
      BY <3>6, <3>7
  <2>4. PICK m \in Nat : m = Len(s) /\ DOMAIN s = 1 .. m /\ \A k \in 1 .. m : s[k] \in 1 .. n
    BY <2>3
  <2>5. PICK key : key = [k \in 1 .. m |-> - c[hs[s[k]].header].start]
    OBVIOUS
  <2>6. key \in [1 .. m -> Int]
    <3>1. \A k \in 1 .. m : c[hs[s[k]].header].start \in Nat
      BY <1>2, <2>4
    <3> QED
      BY <2>5, <3>1
  <2>7. \A i, j \in 1 .. m : before(s[i], s[j]) <=> key[i] > key[j]
    <3> SUFFICES ASSUME NEW i \in 1 .. m, NEW j \in 1 .. m
                 PROVE  before(s[i], s[j]) <=> key[i] > key[j]
      OBVIOUS
    <3>1. PICK x \in Nat, y \in Nat : x = c[hs[s[i]].header].start /\ y = c[hs[s[j]].header].start
      BY <1>2, <2>4
    <3>2. key[i] = - x /\ key[j] = - y
      BY <2>5, <3>1
    <3>3. before(s[i], s[j]) <=> x < y
      BY <3>1
    <3>4. x < y <=> - x > - y
      OBVIOUS
    <3> QED
      BY <3>2, <3>3, <3>4
  <2> DEFINE rank == [i \in DOMAIN s |-> Cardinality({j \in DOMAIN s :
                        before(s[j], s[i]) \/ (j < i /\ ~ before(s[i], s[j]))})]
  <2>8. SortedBy(m, key, s, ByRank(s, rank))
    <3>1. ASSUME NEW i \in 1 .. m PROVE rank[i] = Cardinality(Higher(m, key, i))
      <4> HIDE DEF before
      <4>1. {j \in DOMAIN s : before(s[j], s[i]) \/ (j < i /\ ~ before(s[i], s[j]))} =
              Higher(m, key, i)
        BY <2>4, <2>7 DEF Higher
      <4>2. i \in DOMAIN s
        BY <2>4
      <4>3. rank[i] = Cardinality({j \in DOMAIN s : before(s[j], s[i]) \/ (j < i /\ ~ before(s[i], s[j]))})
        BY <4>2
      <4> HIDE DEF rank
      <4> QED
        BY <4>1, <4>3
    <3> HIDE DEF rank
    <3>2. RankedBy(m, key, rank)
      BY <3>1 DEF RankedBy
    <3> QED
      BY <2>4, <2>6, <3>2, SortedPlaces
  <2>9. PICK t : t = ByRank(s, rank)
    OBVIOUS
  <2>10. selectHunks(c, hs) = [k \in DOMAIN t |-> hs[t[k]]]
    <3> DEFINE kept == <<1>> \o KeptMiddle(c, hs) \o (IF Len(hs) > 1 THEN <<Len(hs)>> ELSE << >>)
    <3>1. kept = s
      BY <1>1, <2>2
    <3>2. StableSort(s, before) = t
      BY <2>9 DEF StableSort
    <3>3. StableSort(kept, before) = t
      <4> HIDE DEF kept, before
      <4> QED
        BY <3>1, <3>2
    <3> QED
      BY Zenon, <1>1, <1>4, <3>3 DEF selectHunks
  <2> HIDE DEF rank
  <2>11. PICK Q \in [1 .. m -> 1 .. m] :
           /\ t = [k \in 1 .. m |-> s[Q[k]]]
           /\ \A k, l \in 1 .. m : k # l => Q[k] # Q[l]
    <3>1. SortedBy(m, key, s, t)
      BY <2>8, <2>9
    <3>2. Shuffled(m, s, t)
      BY <2>6, <3>1, SortedOnce
    <3> QED
      BY <3>2 DEF Shuffled
  <2>12. t \in [1 .. m -> 1 .. n]
    BY <2>4, <2>11
  <2>13. t \in Seq(1 .. n) /\ Len(t) = m /\ DOMAIN t = 1 .. m
    BY <2>12, SeqDef
  <2>14. Distinct(t)
    <3>1. \A k, l \in 1 .. m : k # l => s[k] # s[l]
      BY <2>3, <2>4 DEF Distinct
    <3>2. \A k \in 1 .. m : Q[k] \in 1 .. m /\ t[k] = s[Q[k]]
      BY <2>11
    <3>3. ASSUME NEW k \in 1 .. m, NEW l \in 1 .. m, k # l PROVE t[k] # t[l]
      <4>1. PICK x \in 1 .. m, y \in 1 .. m : x = Q[k] /\ y = Q[l] /\ x # y
        BY <2>11, <3>3
      <4>2. s[x] # s[y] /\ t[k] = s[x] /\ t[l] = s[y]
        BY <3>1, <3>2, <4>1
      <4> QED
        BY <4>2
    <3> QED
      BY <2>13, <3>3 DEF Distinct
  <2>15. selectHunks(c, hs) = [k \in 1 .. Len(t) |-> hs[t[k]]]
    BY <2>10, <2>13
  <2> QED
    BY <1>1, <2>13, <2>14, <2>15 DEF Chosen
<1> QED
  BY <1>3, <1>4

\* The files that are kept are some of the diff's, none of them twice.
LEMMA CappedAre ==
  ASSUME NEW fs \in Seq(File)
  PROVE  Chosen(CappedFiles(fs), fs)
<1>1. PICK n \in Nat : n = Len(fs) /\ DOMAIN fs = 1 .. n /\ \A k \in 1 .. n : fs[k] \in File
  OBVIOUS
<1>2. CASE n <= MaxFiles
  <2>1. CappedFiles(fs) = fs
    BY <1>1, <1>2 DEF CappedFiles
  <2>2. PICK P : P = [k \in 1 .. n |-> k]
    OBVIOUS
  <2>3. P \in Seq(1 .. n) /\ Len(P) = n /\ \A k \in 1 .. n : P[k] = k
    BY <2>2, SeqDef
  <2>4. Distinct(P)
    BY <2>3 DEF Distinct
  <2>5. fs = [k \in 1 .. n |-> fs[P[k]]]
    BY <1>1, <2>3
  <2> QED
    BY <1>1, <2>1, <2>3, <2>4, <2>5 DEF Chosen
<1>3. CASE ~ (n <= MaxFiles)
  <2>1. PICK m \in Nat : m = MaxFiles /\ m < n
    BY <1>3, DiffAssumption
  <2> DEFINE before(f, g) == Additions(f) + Deletions(f) > Additions(g) + Deletions(g)
  <2>2. PICK key : key = [k \in 1 .. n |-> Additions(fs[k]) + Deletions(fs[k])]
    OBVIOUS
  <2>3. key \in [1 .. n -> Int]
    <3>1. \A k \in 1 .. n : Additions(fs[k]) \in Int /\ Deletions(fs[k]) \in Int
      BY <1>1, FileChanges
    <3> QED
      BY <2>2, <3>1
  <2>4. \A i, j \in 1 .. n : before(fs[i], fs[j]) <=> key[i] > key[j]
    BY <2>2
  <2> DEFINE rank == [i \in DOMAIN fs |-> Cardinality({j \in DOMAIN fs :
                        before(fs[j], fs[i]) \/ (j < i /\ ~ before(fs[i], fs[j]))})]
  <2>5. SortedBy(n, key, fs, ByRank(fs, rank))
    <3>1. ASSUME NEW i \in 1 .. n PROVE rank[i] = Cardinality(Higher(n, key, i))
      <4> HIDE DEF before
      <4>1. {j \in DOMAIN fs : before(fs[j], fs[i]) \/ (j < i /\ ~ before(fs[i], fs[j]))} =
              Higher(n, key, i)
        BY <1>1, <2>4 DEF Higher
      <4>2. i \in DOMAIN fs
        BY <1>1
      <4>3. rank[i] = Cardinality({j \in DOMAIN fs : before(fs[j], fs[i]) \/ (j < i /\ ~ before(fs[i], fs[j]))})
        BY <4>2
      <4> HIDE DEF rank
      <4> QED
        BY <4>1, <4>3
    <3> HIDE DEF rank
    <3>2. RankedBy(n, key, rank)
      BY <3>1 DEF RankedBy
    <3> QED
      BY <1>1, <2>3, <3>2, SortedPlaces
  <2>6. PICK t : t = ByRank(fs, rank)
    OBVIOUS
  <2>7. CappedFiles(fs) = SubSeq(t, 1, m)
    <3>1. StableSort(fs, before) = t
      BY <2>6 DEF StableSort
    <3>2. ~ (Len(fs) <= MaxFiles)
      BY <1>1, <1>3
    <3> HIDE DEF rank
    <3> QED
      BY Zenon, <2>1, <3>1, <3>2 DEF CappedFiles
  <2> HIDE DEF rank
  <2>8. PICK P \in [1 .. n -> 1 .. n] :
          /\ t = [k \in 1 .. n |-> fs[P[k]]]
          /\ \A k, l \in 1 .. n : k # l => P[k] # P[l]
    <3>1. SortedBy(n, key, fs, t)
      BY <2>5, <2>6
    <3>2. Shuffled(n, fs, t)
      BY <2>3, <3>1, SortedOnce
    <3> QED
      BY <3>2 DEF Shuffled
  <2>9. PICK Q : Q = [k \in 1 .. m |-> P[k]]
    OBVIOUS
  <2>10. Q \in [1 .. m -> 1 .. n] /\ \A k, l \in 1 .. m : k # l => Q[k] # Q[l]
    <3>1. \A k \in 1 .. m : k \in 1 .. n /\ Q[k] = P[k] /\ P[k] \in 1 .. n
      BY <2>1, <2>9
    <3>2. Q \in [1 .. m -> 1 .. n]
      BY <2>9, <3>1
    <3> QED
      BY <2>8, <3>1, <3>2
  <2>11. Q \in Seq(1 .. n) /\ Len(Q) = m /\ Distinct(Q)
    <3>1. Q \in Seq(1 .. n) /\ Len(Q) = m
      BY <2>10, SeqDef
    <3> QED
      BY <2>10, <3>1 DEF Distinct
  <2>12. CappedFiles(fs) = [k \in 1 .. m |-> fs[Q[k]]]
    <3>1. SubSeq(t, 1, m) = [k \in 1 .. m |-> t[k]]
      BY <2>1 DEF SubSeq
    <3>2. \A k \in 1 .. m : t[k] = fs[Q[k]]
      BY <2>1, <2>8, <2>9
    <3> QED
      BY <2>7, <3>1, <3>2
  <2> QED
    BY <1>1, <2>11, <2>12 DEF Chosen
<1> QED
  BY <1>2, <1>3

-----------------------------------------------------------------------------
(* The text of a hunk, of a file and of a diff *)

\* The lines of a hunk that is kept.
LinesOf(c, h) == {h.header} \union KeptLines(c, h)

\* A hunk's header, and below it the lines that are kept, in their order.
LEMMA HunkText ==
  ASSUME NEW c, NEW h \in Hunk
  PROVE  /\ FormatHunk(reduceContext(c, h)) \in Seq(Nat)
         /\ Elems(FormatHunk(reduceContext(c, h))) = LinesOf(c, h)
         /\ \A B : Ordered(FormatHunk(reduceContext(c, h)), B)
<1>1. PICK S : S = KeptLines(c, h)
  OBVIOUS
<1>2. S \subseteq HunkLines(h)
  BY <1>1 DEF KeptLines
<1>3. h.header \in Nat /\ h.end \in Nat
  BY DEF Hunk
<1>4. IsFiniteSet(HunkLines(h)) /\ HunkLines(h) \subseteq Nat /\ \A i \in HunkLines(h) : h.header < i
  <2>1. \A i \in HunkLines(h) : h.header < i
    BY <1>3 DEF HunkLines
  <2> QED
    BY <1>3, <2>1, HunkLinesFinite
<1>5. IsFiniteSet(S) /\ S \subseteq Nat /\ S \subseteq Int /\ \A i \in S : h.header < i
  <2>1. IsFiniteSet(S)
    BY <1>2, <1>4, FS_Subset
  <2> QED
    BY <1>2, <1>4, <2>1
<1>6. PICK s : s = InOrder(S)
  OBVIOUS
<1>7. /\ s \in Seq(S) /\ Elems(s) = S
      /\ \A k, l \in 1 .. Len(s) : k < l => s[k] < s[l]
  BY <1>5, <1>6, InOrderAscends
<1>8. PICK x \in Nat : x = h.header
  BY <1>3
<1>9. FormatHunk(reduceContext(c, h)) = <<x>> \o s
  <2>1. PICK r : r = reduceContext(c, h)
    OBVIOUS
  <2>2. r.header = h.header /\ r.lines = s
    BY <1>1, <1>6, <2>1 DEF reduceContext
  <2> QED
    BY <1>8, <2>1, <2>2 DEF FormatHunk
<1>10. s \in Seq(Nat) /\ \A B : Ordered(s, B)
  <2>1. s \in Seq(Nat)
    BY <1>5, <1>7, SeqMonotonic
  <2> QED
    BY <1>7, <2>1 DEF Ordered
<1>11. <<x>> \in Seq(Nat) /\ Elems(<<x>>) = {x}
  BY Shortest
<1>12. <<x>> \o s \in Seq(Nat) /\ Elems(<<x>> \o s) = {x} \union S
  <2>1. PICK top : top = <<x>>
    OBVIOUS
  <2>2. top \in Seq(Nat) /\ Elems(top) = {x}
    BY <1>11, <2>1
  <2>3. top \o s \in Seq(Nat) /\ Elems(top \o s) = Elems(top) \union Elems(s)
    BY <1>10, <2>2, Joined
  <2> QED
    BY <1>7, <2>1, <2>2, <2>3
<1>13. ASSUME NEW B PROVE Ordered(<<x>> \o s, B)
  <2>1. PICK m \in Nat : m = Len(s)
    BY <1>7
  <2>2. PICK t : t = <<x>> \o s
    OBVIOUS
  <2>3. Len(t) = m + 1 /\ t[1] = x /\ \A k \in 2 .. m + 1 : t[k] = s[k - 1]
    BY <1>10, <2>1, <2>2
  <2>4. ASSUME NEW k \in 1 .. m + 1, NEW l \in 1 .. m + 1, k < l PROVE t[k] < t[l]
    <3>1. l \in 2 .. m + 1 /\ l - 1 \in 1 .. m
      BY <2>4
    <3>2. t[l] = s[l - 1] /\ s[l - 1] \in S
      BY <1>7, <2>1, <2>3, <3>1
    <3>3. CASE k = 1
      BY <1>5, <1>8, <2>3, <3>2, <3>3
    <3>4. CASE k \in 2 .. m + 1 /\ k - 1 \in 1 .. m
      <4>1. s[k - 1] < s[l - 1]
        BY <1>7, <2>1, <2>4, <3>1, <3>4
      <4> QED
        BY <2>3, <3>2, <3>4, <4>1
    <3> QED
      BY <3>3, <3>4
  <2> QED
    BY <2>2, <2>3, <2>4 DEF Ordered
<1> QED
  BY <1>1, <1>8, <1>9, <1>12, <1>13 DEF LinesOf

\* The lines of a file's text that are not those of its hunks are among these.
Own(f) == {f.header, f.old, f.new, 0} \union Elems(f.renames)

\* What a file's text shows of its hunks hs, which are trimmed.
Shows(c, f, hs) ==
  IF f.isBinary THEN {} ELSE UNION {LinesOf(c, hs[k]) : k \in 1 .. Len(hs)}

\* Those lines of B that two of the hunks hs have are none.
Apart(c, hs, B) ==
  \A j, k \in 1 .. Len(hs) : j # k =>
    LinesOf(c, hs[j]) \intersect B = {} \/ LinesOf(c, hs[k]) \intersect B = {}

\* A file with the hunks hs, trimmed.
Trimmed(c, f, hs) == [f EXCEPT !.hunks = [k \in DOMAIN hs |-> reduceContext(c, hs[k])]]

\* r is the text of a file with the hunks hs.
TextOf(r, c, f, hs) ==
  /\ r \in Seq(Nat) /\ f.header \in Elems(r)
  /\ Shows(c, f, hs) \subseteq Elems(r)
  /\ Elems(r) \subseteq Own(f) \union Shows(c, f, hs)
  /\ \A B : Own(f) \intersect B = {} /\ Apart(c, hs, B) => Ordered(r, B)

\* A file's text: its header, names, and hunks.
LEMMA FileText ==
  ASSUME NEW c, NEW f \in File, NEW hs \in Seq(Hunk)
  PROVE  TextOf(FormatFile(Trimmed(c, f, hs)), c, f, hs)
<1>0. PICK g : g = Trimmed(c, f, hs)
  OBVIOUS
<1>1. PICK n \in Nat : n = Len(hs) /\ DOMAIN hs = 1 .. n /\ \A k \in 1 .. n : hs[k] \in Hunk
  OBVIOUS
<1>2. /\ f.header \in Nat /\ f.old \in Nat /\ f.new \in Nat /\ f.renames \in Seq(Nat)
      /\ f.isBinary \in BOOLEAN /\ f.isNew \in BOOLEAN /\ f.isDeleted \in BOOLEAN
  BY DEF File
<1>3. PICK s : s = [k \in 1 .. n |-> FormatHunk(reduceContext(c, hs[k]))]
  OBVIOUS
<1>4. \A k \in 1 .. n : /\ s[k] \in Seq(Nat) /\ Elems(s[k]) = LinesOf(c, hs[k])
                        /\ \A B : Ordered(s[k], B)
  BY <1>1, <1>3, HunkText
<1>5. s \in Lists(n, Nat)
  <2>1. s \in [1 .. n -> Seq(Nat)]
    BY <1>3, <1>4
  <2> QED
    BY <2>1 DEF Lists
<1>6. PICK flat : flat = FlattenSeq(s)
  OBVIOUS
<1>7. /\ flat \in Seq(Nat)
      /\ \A x : x \in Elems(flat) <=> \E k \in 1 .. n : x \in Elems(s[k])
      /\ \A B : /\ \A k \in 1 .. n : Ordered(s[k], B)
                /\ \A j, k \in 1 .. n : j # k =>
                     Elems(s[j]) \intersect B = {} \/ Elems(s[k]) \intersect B = {}
                => Ordered(flat, B)
  BY <1>5, <1>6, AllJoined
<1>8. Elems(flat) = UNION {LinesOf(c, hs[k]) : k \in 1 .. n}
  BY <1>4, <1>7
<1>9. ASSUME NEW B, Apart(c, hs, B) PROVE Ordered(flat, B)
  BY <1>1, <1>4, <1>7, <1>9 DEF Apart
<1>10. PICK r1 : r1 = <<f.header>> \o f.renames
  OBVIOUS
<1>11. /\ r1 \in Seq(Nat) /\ Elems(r1) = {f.header} \union Elems(f.renames)
  <2>1. PICK h, t : h \in Nat /\ h = f.header /\ t = <<h>>
    BY <1>2
  <2>2. t \in Seq(Nat) /\ Elems(t) = {h}
    BY <2>1, Shortest
  <2>3. PICK q \in Seq(Nat) : q = f.renames
    BY <1>2
  <2>4. t \o q \in Seq(Nat) /\ Elems(t \o q) = Elems(t) \union Elems(q)
    BY <2>2, Joined
  <2>5. r1 = t \o q
    BY <1>10, <2>1, <2>3
  <2> QED
    BY <2>1, <2>2, <2>3, <2>4, <2>5
<1>12. PICK r2 : r2 = IF f.isNew \/ f.isDeleted THEN <<0>> ELSE << >>
  OBVIOUS
<1>13. <<0>> \in Seq(Nat) /\ Elems(<<0>>) = {0} /\ << >> \in Seq(Nat) /\ Elems(<< >>) = {}
  BY Shortest
<1>14. r2 \in Seq(Nat) /\ Elems(r2) \subseteq {0}
  <2>1. r2 = <<0>> \/ r2 = << >>
    BY <1>12
  <2> QED
    BY <1>13, <2>1
<1>15. PICK r3 : r3 = r1 \o r2
  OBVIOUS
<1>16. r3 \in Seq(Nat) /\ Elems(r3) = Elems(r1) \union Elems(r2)
  BY <1>11, <1>14, <1>15, Joined
<1>17. Elems(r3) \subseteq Own(f) /\ f.header \in Elems(r3)
  BY <1>11, <1>14, <1>16 DEF Own
<1>18. \A t \in Seq(Nat) : \A B : Elems(t) \intersect B = {} => Ordered(t, B)
  BY DEF Elems, Ordered
<1>19. /\ g.header = f.header /\ g.renames = f.renames /\ g.isNew = f.isNew
       /\ g.isDeleted = f.isDeleted /\ g.isBinary = f.isBinary /\ g.old = f.old /\ g.new = f.new
       /\ g.hunks = [k \in 1 .. n |-> reduceContext(c, hs[k])]
  BY <1>0, <1>1 DEF File, Trimmed
<1>20. [k \in DOMAIN g.hunks |-> FormatHunk(g.hunks[k])] = s
  <2>1. PICK q : q = g.hunks
    OBVIOUS
  <2>2. DOMAIN q = 1 .. n /\ \A k \in 1 .. n : q[k] = reduceContext(c, hs[k])
    BY <1>19, <2>1
  <2>3. [k \in DOMAIN q |-> FormatHunk(q[k])] = s
    BY <1>3, <2>2
  <2> QED
    BY <2>1, <2>3
<1>21. CASE f.isBinary
  <2>1. FormatFile(g) = r3 \o <<0>>
    BY <1>10, <1>12, <1>15, <1>19, <1>21 DEF FormatFile
  <2>2. FormatFile(g) \in Seq(Nat) /\ Elems(FormatFile(g)) = Elems(r3) \union {0}
    <3>1. PICK t : t = <<0>>
      OBVIOUS
    <3>2. t \in Seq(Nat) /\ Elems(t) = {0}
      BY <1>13, <3>1
    <3>3. r3 \o t \in Seq(Nat) /\ Elems(r3 \o t) = Elems(r3) \union Elems(t)
      BY <1>16, <3>2, Joined
    <3> QED
      BY <2>1, <3>1, <3>2, <3>3
  <2>3. Shows(c, f, hs) = {}
    BY <1>21 DEF Shows
  <2>4. Elems(FormatFile(g)) \subseteq Own(f) /\ f.header \in Elems(FormatFile(g))
    BY <1>17, <2>2 DEF Own
  <2> QED
    BY <1>0, <1>18, <2>2, <2>3, <2>4 DEF TextOf
<1>22. CASE ~ f.isBinary
  <2>1. PICK o : o = IF f.old > 0 THEN <<f.old>> ELSE << >>
    OBVIOUS
  <2>2. PICK w : w = IF f.new > 0 THEN <<f.new>> ELSE << >>
    OBVIOUS
  <2>3. o \in Seq(Nat) /\ Elems(o) \subseteq {f.old}
    <3>1. o = <<f.old>> \/ o = << >>
      BY <2>1
    <3>2. <<f.old>> \in Seq(Nat) /\ Elems(<<f.old>>) = {f.old}
      BY <1>2, Shortest
    <3> QED
      BY <1>13, <3>1, <3>2
  <2>4. w \in Seq(Nat) /\ Elems(w) \subseteq {f.new}
    <3>1. w = <<f.new>> \/ w = << >>
      BY <2>2
    <3>2. <<f.new>> \in Seq(Nat) /\ Elems(<<f.new>>) = {f.new}
      BY <1>2, Shortest
    <3> QED
      BY <1>13, <3>1, <3>2
  <2>5. PICK r4 : r4 = o \o w
    OBVIOUS
  <2>6. r4 \in Seq(Nat) /\ Elems(r4) = Elems(o) \union Elems(w)
    BY <2>3, <2>4, <2>5, Joined
  <2>7. PICK r5 : r5 = r4 \o flat
    OBVIOUS
  <2>8. /\ r5 \in Seq(Nat) /\ Elems(r5) = Elems(r4) \union Elems(flat)
        /\ \A B : /\ Ordered(r4, B) /\ Ordered(flat, B)
                  /\ Elems(r4) \intersect B = {} \/ Elems(flat) \intersect B = {}
                  => Ordered(r5, B)
    BY <1>7, <2>6, <2>7, Joined
  <2>9. PICK r6 : r6 = r3 \o r5
    OBVIOUS
  <2>10. /\ r6 \in Seq(Nat) /\ Elems(r6) = Elems(r3) \union Elems(r5)
         /\ \A B : /\ Ordered(r3, B) /\ Ordered(r5, B)
                   /\ Elems(r3) \intersect B = {} \/ Elems(r5) \intersect B = {}
                   => Ordered(r6, B)
    BY <1>16, <2>8, <2>9, Joined
  <2>11. FormatFile(g) = r6
    <3>1. flat = FlattenSeq([k \in DOMAIN g.hunks |-> FormatHunk(g.hunks[k])])
      BY <1>6, <1>20
    <3>2. FormatFile(g) =
            <<g.header>> \o g.renames \o (IF g.isNew \/ g.isDeleted THEN <<0>> ELSE << >>)
            \o (IF g.isBinary THEN <<0>>
                ELSE (IF g.old > 0 THEN <<g.old>> ELSE << >>) \o (IF g.new > 0 THEN <<g.new>> ELSE << >>)
                     \o flat)
      <4>1. FormatFile(g) =
            <<g.header>> \o g.renames \o (IF g.isNew \/ g.isDeleted THEN <<0>> ELSE << >>)
            \o (IF g.isBinary THEN <<0>>
                ELSE (IF g.old > 0 THEN <<g.old>> ELSE << >>) \o (IF g.new > 0 THEN <<g.new>> ELSE << >>)
                     \o FlattenSeq([k \in DOMAIN g.hunks |-> FormatHunk(g.hunks[k])]))
        BY DEF FormatFile
      <4> QED
        BY ONLY <3>1, <4>1
    <3>3. <<g.header>> \o g.renames = r1
      BY <1>10, <1>19
    <3>4. (IF g.isNew \/ g.isDeleted THEN <<0>> ELSE << >>) = r2
      BY <1>12, <1>19
    <3>5. (IF g.old > 0 THEN <<g.old>> ELSE << >>) = o /\ (IF g.new > 0 THEN <<g.new>> ELSE << >>) = w
      BY <1>19, <2>1, <2>2
    <3>6. FormatFile(g) = r1 \o r2 \o (o \o w \o flat)
      <4>1. g.isBinary = FALSE
        BY <1>19, <1>22
      <4> QED
        BY ONLY <3>2, <3>3, <3>4, <3>5, <4>1
    <3> QED
      BY Zenon, <1>15, <2>5, <2>7, <2>9, <3>6
  <2>12. Elems(r4) \subseteq Own(f)
    BY <2>3, <2>4, <2>6 DEF Own
  <2>13. Shows(c, f, hs) = Elems(flat)
    BY <1>1, <1>8, <1>22 DEF Shows
  <2>14. ASSUME NEW B, Own(f) \intersect B = {}, Apart(c, hs, B) PROVE Ordered(r6, B)
    <3>1. Elems(r4) \intersect B = {} /\ Elems(r3) \intersect B = {}
      BY <1>17, <2>12, <2>14
    <3>2. Ordered(r4, B) /\ Ordered(r3, B)
      BY <1>16, <1>18, <2>6, <3>1
    <3>3. Ordered(r5, B)
      BY <1>9, <2>8, <2>14, <3>1, <3>2
    <3> QED
      BY <2>10, <3>1, <3>2, <3>3
  <2> QED
    BY <1>0, <1>17, <2>8, <2>10, <2>11, <2>12, <2>13, <2>14 DEF TextOf
<1> QED
  BY <1>2, <1>21, <1>22

\* What is chosen of a sequence is a sequence of its elements.
LEMMA ChosenType ==
  ASSUME NEW T, NEW s \in Seq(T), NEW r, Chosen(r, s)
  PROVE  /\ r \in Seq(T) /\ Len(r) \in Nat
         /\ \A k \in 1 .. Len(r) : \E j \in 1 .. Len(s) : r[k] = s[j]
<1>1. PICK P \in Seq(1 .. Len(s)) : r = [k \in 1 .. Len(P) |-> s[P[k]]]
  BY DEF Chosen
<1>2. PICK n \in Nat : n = Len(s)
  OBVIOUS
<1>3. PICK D : D = 1 .. n
  OBVIOUS
<1>4. P \in Seq(D)
  BY <1>1, <1>2, <1>3
<1>5. PICK m \in Nat : m = Len(P) /\ \A k \in 1 .. m : P[k] \in D
  BY <1>4
<1>6. r = [k \in 1 .. m |-> s[P[k]]] /\ r \in [1 .. m -> T]
  <2>1. \A k \in 1 .. m : s[P[k]] \in T
    BY <1>2, <1>3, <1>5
  <2> QED
    BY <1>1, <1>5, <2>1
<1>7. r \in Seq(T) /\ Len(r) = m
  <2>1. PICK q : q = r
    OBVIOUS
  <2>2. q \in [1 .. m -> T]
    BY <1>6, <2>1
  <2>3. q \in Seq(T) /\ Len(q) = m
    BY <2>2, SeqDef
  <2> QED
    BY <2>1, <2>3
<1> QED
  BY <1>2, <1>3, <1>5, <1>6, <1>7

Kept(c, f) == selectHunks(c, f.hunks)

\* The hunks of a file begin at lines of the diff.
Begun(c, f) == \A k \in 1 .. Len(f.hunks) : f.hunks[k].header \in 1 .. Len(c)

\* The lines of B are of one hunk, or above the first file.
OfOnePart(c, pre, fs, B) ==
  /\ 0 \notin B /\ Ordered(pre, B)
  /\ \A k \in 1 .. Len(fs) : /\ Own(fs[k]) \intersect B = {}
                             /\ Apart(c, Kept(c, fs[k]), B)
                             /\ \/ Elems(pre) \intersect B = {}
                                \/ Shows(c, fs[k], Kept(c, fs[k])) \intersect B = {}
  /\ \A j, k \in 1 .. Len(fs) : j # k =>
       \/ Shows(c, fs[j], Kept(c, fs[j])) \intersect B = {}
       \/ Shows(c, fs[k], Kept(c, fs[k])) \intersect B = {}

\* r is the text of a diff whose files are fs.
TextOfDiff(r, c, pre, fs) ==
  /\ r \in Seq(Nat) /\ Elems(pre) \subseteq Elems(r)
  /\ \A k \in 1 .. Len(fs) : /\ fs[k].header \in Elems(r)
                             /\ Shows(c, fs[k], Kept(c, fs[k])) \subseteq Elems(r)
  /\ \A x \in Elems(r) :
       \/ x = 0 \/ x \in Elems(pre)
       \/ \E k \in 1 .. Len(fs) : x \in Own(fs[k]) \union Shows(c, fs[k], Kept(c, fs[k]))
  /\ \A B : OfOnePart(c, pre, fs, B) => Ordered(r, B)

\* The text of a diff: what is above the first file, and the files.
LEMMA DiffText ==
  ASSUME NEW c, Started(c), NEW pre \in Seq(Nat), NEW fs \in Seq(File),
         \A k \in 1 .. Len(fs) : Begun(c, fs[k]),
         NEW small, small = [k \in DOMAIN fs |-> CompressFile(c, fs[k])]
  PROVE  TextOfDiff(formatOutput(pre, small), c, pre, fs)
<1>1. PICK n \in Nat : n = Len(fs) /\ DOMAIN fs = 1 .. n /\ \A k \in 1 .. n : fs[k] \in File
  OBVIOUS
<1>2. PICK s : s = [k \in 1 .. n |-> FormatFile(small[k])]
  OBVIOUS
<1>3. ASSUME NEW k \in 1 .. n
      PROVE  TextOf(s[k], c, fs[k], Kept(c, fs[k]))
  <2>1. PICK f \in File : f = fs[k]
    BY <1>1
  <2>2. PICK h \in Seq(Hunk) : h = f.hunks
    BY DEF File
  <2>3. Chosen(selectHunks(c, h), h)
    BY <1>1, <2>1, <2>2, SelectedHunks DEF Begun
  <2>4. PICK hs : hs = selectHunks(c, h)
    OBVIOUS
  <2>5. hs \in Seq(Hunk)
    BY <2>3, <2>4, ChosenType
  <2>7. small[k] = Trimmed(c, f, hs)
    <3>1. small[k] = CompressFile(c, f)
      BY <1>1, <2>1
    <3> QED
      BY <2>2, <2>4, <3>1 DEF CompressFile, Trimmed
  <2>8. TextOf(FormatFile(Trimmed(c, f, hs)), c, f, hs)
    BY <2>5, FileText
  <2>9. s[k] = FormatFile(Trimmed(c, f, hs))
    BY <1>2, <2>7
  <2>10. Kept(c, f) = hs
    BY <2>2, <2>4 DEF Kept
  <2> QED
    BY <2>1, <2>8, <2>9, <2>10
<1>4. s \in Lists(n, Nat)
  <2>1. s \in [1 .. n -> Seq(Nat)]
    BY <1>2, <1>3 DEF TextOf
  <2> QED
    BY <2>1 DEF Lists
<1>5. PICK flat : flat = FlattenSeq(s)
  OBVIOUS
<1>6. /\ flat \in Seq(Nat)
      /\ \A x : x \in Elems(flat) <=> \E k \in 1 .. n : x \in Elems(s[k])
      /\ \A B : /\ \A k \in 1 .. n : Ordered(s[k], B)
                /\ \A j, k \in 1 .. n : j # k =>
                     Elems(s[j]) \intersect B = {} \/ Elems(s[k]) \intersect B = {}
                => Ordered(flat, B)
  BY <1>4, <1>5, AllJoined
<1>7. PICK r1 : r1 = pre \o flat
  OBVIOUS
<1>8. /\ r1 \in Seq(Nat) /\ Elems(r1) = Elems(pre) \union Elems(flat)
      /\ \A B : /\ Ordered(pre, B) /\ Ordered(flat, B)
                /\ Elems(pre) \intersect B = {} \/ Elems(flat) \intersect B = {}
                => Ordered(r1, B)
  BY <1>6, <1>7, Joined
<1>9. PICK foot : foot = IF n = 0 THEN << >> ELSE <<0>>
  OBVIOUS
<1>10. foot \in Seq(Nat) /\ Elems(foot) \subseteq {0}
  <2>1. <<0>> \in Seq(Nat) /\ Elems(<<0>>) = {0} /\ << >> \in Seq(Nat) /\ Elems(<< >>) = {}
    BY Shortest
  <2>2. foot = <<0>> \/ foot = << >>
    BY <1>9
  <2> QED
    BY <2>1, <2>2
<1>11. PICK r2 : r2 = r1 \o foot
  OBVIOUS
<1>12. /\ r2 \in Seq(Nat) /\ Elems(r2) = Elems(r1) \union Elems(foot)
       /\ \A B : /\ Ordered(r1, B) /\ Ordered(foot, B)
                 /\ Elems(r1) \intersect B = {} \/ Elems(foot) \intersect B = {}
                 => Ordered(r2, B)
  BY <1>8, <1>10, <1>11, Joined
<1>13. formatOutput(pre, small) = r2
  <2>1. DOMAIN small = 1 .. n
    BY <1>1
  <2>2. [k \in DOMAIN small |-> FormatFile(small[k])] = s
    BY <1>2, <2>1
  <2>3. small = << >> <=> n = 0
    <3>1. small = << >> => n = 0
      <4>1. DOMAIN << >> = {}
        OBVIOUS
      <4>2. n # 0 => 1 \in 1 .. n
        OBVIOUS
      <4> QED
        BY <2>1, <4>1, <4>2
    <3>2. n = 0 => small = << >>
      <4>1. ASSUME n = 0 PROVE small = << >>
        <5>1. small = [k \in {} |-> CompressFile(c, fs[k])]
          BY <1>1, <4>1
        <5> QED
          BY <5>1
      <4> QED
        BY <4>1
    <3> QED
      BY <3>1, <3>2
  <2>4. FlattenSeq([k \in DOMAIN small |-> FormatFile(small[k])]) = flat
    BY ONLY <1>5, <2>2
  <2>5. (IF small = << >> THEN << >> ELSE <<0>>) = foot
    BY <1>9, <2>3
  <2>6. formatOutput(pre, small) =
          pre \o FlattenSeq([k \in DOMAIN small |-> FormatFile(small[k])])
              \o (IF small = << >> THEN << >> ELSE <<0>>)
    BY DEF formatOutput
  <2> QED
    BY ONLY <1>7, <1>11, <2>4, <2>5, <2>6
<1>14. ASSUME NEW B, OfOnePart(c, pre, fs, B) PROVE Ordered(r2, B)
  <2>1. \A k \in 1 .. n : /\ Own(fs[k]) \intersect B = {}
                          /\ Ordered(s[k], B)
                          /\ Elems(s[k]) \intersect B \subseteq Shows(c, fs[k], Kept(c, fs[k])) \intersect B
    BY <1>1, <1>3, <1>14 DEF OfOnePart, TextOf
  <2>2. \A j, k \in 1 .. n : j # k => Elems(s[j]) \intersect B = {} \/ Elems(s[k]) \intersect B = {}
    BY <1>1, <1>14, <2>1 DEF OfOnePart
  <2>3. Ordered(flat, B)
    BY <1>6, <2>1, <2>2
  <2>4. Elems(pre) \intersect B = {} \/ Elems(flat) \intersect B = {}
    <3>1. ASSUME NEW x \in Elems(pre) \intersect B, NEW y \in Elems(flat) \intersect B PROVE FALSE
      <4>1. PICK k \in 1 .. n : y \in Elems(s[k])
        BY <1>6
      <4>2. y \in Shows(c, fs[k], Kept(c, fs[k])) \intersect B
        BY <2>1, <4>1
      <4> QED
        BY <1>1, <1>14, <4>2 DEF OfOnePart
    <3> QED
      BY <3>1
  <2>5. Ordered(r1, B)
    BY <1>8, <1>14, <2>3, <2>4 DEF OfOnePart
  <2>6. Elems(foot) \intersect B = {}
    BY <1>10, <1>14 DEF OfOnePart
  <2>7. Ordered(foot, B)
    BY <1>10, <2>6 DEF Elems, Ordered
  <2> QED
    BY <1>12, <2>5, <2>6, <2>7
<1>15. /\ Elems(pre) \subseteq Elems(r2)
       /\ \A k \in 1 .. n : fs[k].header \in Elems(r2) /\ Shows(c, fs[k], Kept(c, fs[k])) \subseteq Elems(r2)
  BY <1>3, <1>6, <1>8, <1>12 DEF TextOf
<1>16. ASSUME NEW x \in Elems(r2)
       PROVE  \/ x = 0 \/ x \in Elems(pre)
              \/ \E k \in 1 .. n : x \in Own(fs[k]) \union Shows(c, fs[k], Kept(c, fs[k]))
  <2>1. x \in Elems(pre) \/ x \in Elems(flat) \/ x \in Elems(foot)
    BY <1>8, <1>12
  <2> QED
    BY <1>3, <1>6, <1>10, <2>1 DEF TextOf
<1> QED
  BY <1>1, <1>12, <1>13, <1>14, <1>15, <1>16 DEF TextOfDiff

-----------------------------------------------------------------------------
(* The sections of a diff *)

Segment == [at : Nat, head : Seq(Nat), body : Seq(Nat)]

\* The first line below a section's head, and the first below its body.
Below(seg) == seg.at + Len(seg.head)
Beyond(seg) == seg.at + Len(seg.head) + Len(seg.body)

\* Where a section is in the first n lines of a diff: its lines follow each other
\* from a diff --git on, and the first hunk header begins its body.
SegLaid(seg, c, n) ==
  /\ seg.at \in 1 .. n /\ c[seg.at].kind = "git"
  /\ Len(seg.head) >= 1 /\ Beyond(seg) <= n + 1
  /\ \A k \in 1 .. Len(seg.head) : seg.head[k] = seg.at + k - 1
  /\ \A k \in 1 .. Len(seg.body) : seg.body[k] = Below(seg) + k - 1
  /\ \A i \in seg.at + 1 .. Beyond(seg) - 1 : c[i].kind # "git"
  /\ \A i \in seg.at + 1 .. Below(seg) - 1 : c[i].kind \notin HunkHeaders
  /\ seg.body # << >> => c[Below(seg)].kind \in HunkHeaders

\* The sections follow each other to the end.
SegsLaid(s, c, n) ==
  /\ \A k \in 1 .. Len(s) : SegLaid(s[k], c, n)
  /\ \A k \in 1 .. Len(s) - 1 : s[k + 1].at = Beyond(s[k])
  /\ s # << >> => Beyond(s[Len(s)]) = n + 1
  /\ \A i \in 1 .. n : s = << >> \/ i < s[1].at => c[i].kind # "git"

\* A section with another line.
Longer(seg, i, l) ==
  IF seg.body # << >> \/ l.kind \in HunkHeaders
  THEN [seg EXCEPT !.body = Append(@, i)] ELSE [seg EXCEPT !.head = Append(@, i)]

\* The last section, with another line.
LEMMA SegGrows ==
  ASSUME NEW n \in Nat \ {0}, NEW c, NEW seg \in Segment, SegLaid(seg, c, n - 1), Beyond(seg) = n,
         c[n].kind # "git"
  PROVE  /\ Longer(seg, n, c[n]) \in Segment /\ SegLaid(Longer(seg, n, c[n]), c, n)
         /\ Beyond(Longer(seg, n, c[n])) = n + 1 /\ Longer(seg, n, c[n]).at = seg.at
<1>0. PICK g : g = Longer(seg, n, c[n])
  OBVIOUS
<1>1. PICK a \in Nat, h \in Seq(Nat), b \in Seq(Nat) : a = seg.at /\ h = seg.head /\ b = seg.body
  BY DEF Segment
<1>2. seg = [at |-> a, head |-> h, body |-> b]
  BY <1>1 DEF Segment
<1>3. PICK p \in Nat, q \in Nat : p = Len(h) /\ q = Len(b)
  <2>1. Len(h) \in Nat /\ Len(b) \in Nat
    OBVIOUS
  <2> QED
    BY <2>1
<1>4. /\ a \in 1 .. n - 1 /\ c[a].kind = "git" /\ p >= 1 /\ a + p + q = n
      /\ \A k \in 1 .. p : h[k] = a + k - 1
      /\ \A k \in 1 .. q : b[k] = a + p + k - 1
      /\ \A i \in a + 1 .. n - 1 : c[i].kind # "git"
      /\ \A i \in a + 1 .. a + p - 1 : c[i].kind \notin HunkHeaders
      /\ b # << >> => c[a + p].kind \in HunkHeaders
  <2>1. Below(seg) = a + p /\ Beyond(seg) = a + p + q
    BY <1>1, <1>3 DEF Beyond, Below
  <2>2. a + p + q = n
    BY <2>1
  <2>3. a \in 1 .. n - 1 /\ c[a].kind = "git" /\ p >= 1
    BY <1>1, <1>3 DEF SegLaid
  <2>4. \A k \in 1 .. p : h[k] = a + k - 1
    BY <1>1, <1>3 DEF SegLaid
  <2>5. \A k \in 1 .. q : b[k] = a + p + k - 1
    BY <1>1, <1>3, <2>1 DEF SegLaid
  <2>6. \A i \in a + 1 .. n - 1 : c[i].kind # "git"
    BY <1>1 DEF SegLaid
  <2>7. \A i \in a + 1 .. a + p - 1 : c[i].kind \notin HunkHeaders
    <3>1. \A i \in seg.at + 1 .. Below(seg) - 1 : c[i].kind \notin HunkHeaders
      BY <1>1 DEF SegLaid
    <3> QED
      BY ONLY <1>1, <2>1, <3>1
  <2>8. b # << >> => c[a + p].kind \in HunkHeaders
    BY <1>1, <2>1 DEF SegLaid
  <2> QED
    BY <2>2, <2>3, <2>4, <2>5, <2>6, <2>7, <2>8
<1>5. \A i \in a + 1 .. n : c[i].kind # "git"
  BY <1>4
<1>6. b # << >> <=> q # 0
  BY <1>3, EmptySeq
<1>7. CASE b # << >> \/ c[n].kind \in HunkHeaders
  <2>1. PICK r : r = Append(b, n)
    OBVIOUS
  <2>2. r \in Seq(Nat) /\ Len(r) = q + 1 /\ r # << >> /\ \A k \in 1 .. q + 1 : r[k] = a + p + k - 1
    <3>1. /\ r \in Seq(Nat) /\ Len(r) = q + 1 /\ r # << >> /\ r[q + 1] = n
          /\ \A k \in 1 .. q : r[k] = b[k]
      BY <1>3, <2>1
    <3>2. \A k \in 1 .. q + 1 : k \in 1 .. q \/ k = q + 1
      OBVIOUS
    <3>3. a + p + (q + 1) - 1 = n
      BY <1>4
    <3> QED
      BY <1>4, <3>1, <3>2, <3>3
  <2>3. g = [at |-> a, head |-> h, body |-> r]
    BY <1>0, <1>2, <1>7, <2>1 DEF Longer
  <2>4. g.at = a /\ g.head = h /\ g.body = r
    BY <2>3
  <2>5. Below(g) = a + p /\ Beyond(g) = n + 1
    <3>1. Below(g) = a + p /\ Beyond(g) = a + p + (q + 1)
      BY <1>3, <2>2, <2>4 DEF Below, Beyond
    <3>2. a + p + (q + 1) = n + 1
      BY <1>4
    <3> QED
      BY <3>1, <3>2
  <2>6. c[a + p].kind \in HunkHeaders
    <3>1. CASE b # << >>
      BY <1>4, <3>1
    <3>2. CASE b = << >> /\ c[n].kind \in HunkHeaders
      <4>1. a + p = n
        BY <1>4, <1>6, <3>2
      <4> QED
        BY <3>2, <4>1
    <3> QED
      BY <1>7, <3>1, <3>2
  <2>7. SegLaid(g, c, n)
    BY <1>3, <1>4, <1>5, <2>2, <2>4, <2>5, <2>6 DEF SegLaid
  <2> QED
    BY <1>0, <1>1, <2>2, <2>3, <2>4, <2>5, <2>7 DEF Segment
<1>8. CASE ~ (b # << >> \/ c[n].kind \in HunkHeaders)
  <2>1. PICK r : r = Append(h, n)
    OBVIOUS
  <2>2. q = 0 /\ r \in Seq(Nat) /\ Len(r) = p + 1 /\ \A k \in 1 .. p + 1 : r[k] = a + k - 1
    <3>1. /\ r \in Seq(Nat) /\ Len(r) = p + 1 /\ r[p + 1] = n
          /\ \A k \in 1 .. p : r[k] = h[k]
      BY <1>3, <2>1
    <3>2. \A k \in 1 .. p + 1 : k \in 1 .. p \/ k = p + 1
      OBVIOUS
    <3>3. q = 0
      BY <1>6, <1>8
    <3>4. a + (p + 1) - 1 = n
      BY <1>4, <3>3
    <3> QED
      BY <1>4, <3>1, <3>2, <3>3, <3>4
  <2>3. g = [at |-> a, head |-> r, body |-> b]
    BY <1>0, <1>2, <1>8, <2>1 DEF Longer
  <2>4. g.at = a /\ g.head = r /\ g.body = b
    BY <2>3
  <2>5. Below(g) = n + 1 /\ Beyond(g) = n + 1
    <3>1. Below(g) = a + (p + 1) /\ Beyond(g) = a + (p + 1) + q
      BY <1>3, <2>2, <2>4 DEF Below, Beyond
    <3>2. a + (p + 1) = n + 1 /\ a + (p + 1) + q = n + 1
      BY <1>4, <2>2
    <3> QED
      BY <3>1, <3>2
  <2>6. \A i \in a + 1 .. n : c[i].kind \notin HunkHeaders
    BY <1>4, <1>8, <2>2
  <2>7. SegLaid(g, c, n)
    <3>1. (n + 1) - 1 = n /\ Len(g.body) = 0 /\ g.body = << >> /\ Len(g.head) = p + 1 /\ a \in 1 .. n
      BY <1>3, <1>4, <1>8, <2>2, <2>4
    <3>2. \A k \in 1 .. Len(g.body) : g.body[k] = Below(g) + k - 1
      BY <3>1
    <3>3. \A k \in 1 .. Len(g.head) : g.head[k] = g.at + k - 1
      BY <2>2, <2>4, <3>1
    <3> QED
      BY <1>4, <1>5, <2>4, <2>5, <2>6, <3>1, <3>2, <3>3 DEF SegLaid
  <2> QED
    BY <1>0, <1>1, <2>2, <2>3, <2>4, <2>5, <2>7 DEF Segment
<1> QED
  BY <1>7, <1>8

\* One turn of parseSegments.
LEMMA SegmentTurn ==
  ASSUME NEW n \in Nat \ {0}, NEW c, NEW s \in Seq(Segment), SegsLaid(s, c, n - 1)
  PROVE  SegmentLine(s, n, c[n]) \in Seq(Segment) /\ SegsLaid(SegmentLine(s, n, c[n]), c, n)
<1>1. PICK l : l = c[n]
  OBVIOUS
<1>2. PICK m \in Nat : m = Len(s) /\ \A k \in 1 .. m : s[k] \in Segment
  OBVIOUS
<1>3. PICK t : t = SegmentLine(s, n, l)
  OBVIOUS
<1>4. ASSUME NEW k \in 1 .. m PROVE SegLaid(s[k], c, n)
  <2>1. PICK g \in Segment : g = s[k]
    BY <1>2
  <2>2. SegLaid(g, c, n - 1)
    BY <1>2, <2>1 DEF SegsLaid
  <2>3. Beyond(g) \in Int
    BY DEF Segment, Beyond
  <2>4. g.at \in 1 .. n /\ Beyond(g) <= n + 1
    BY <2>2, <2>3 DEF SegLaid
  <2> QED
    BY <2>1, <2>2, <2>4 DEF SegLaid
<1>5. s = << >> <=> m = 0
  BY <1>2, EmptySeq
<1>6. CASE l.kind = "git"
  <2>1. PICK x : x = [at |-> n, head |-> <<n>>, body |-> << >>]
    OBVIOUS
  <2>2. x.at = n /\ x.head = <<n>> /\ x.body = << >>
    BY <2>1
  <2>3. <<n>> \in Seq(Nat) /\ Len(<<n>>) = 1 /\ <<n>>[1] = n
    OBVIOUS
  <2>4. << >> \in Seq(Nat) /\ Len(<< >>) = 0
    BY EmptySeq
  <2>5. x \in Segment
    BY <2>1, <2>3, <2>4 DEF Segment
  <2>6. Below(x) = n + 1 /\ Beyond(x) = n + 1
    BY <2>2, <2>3, <2>4 DEF Below, Beyond
  <2>7. SegLaid(x, c, n)
    <3>1. \A k \in 1 .. 1 : k = 1
      OBVIOUS
    <3> QED
      BY <1>1, <1>6, <2>2, <2>3, <2>4, <2>6, <3>1 DEF SegLaid
  <2>8. t = Append(s, x)
    BY <1>3, <1>6, <2>1 DEF SegmentLine
  <2>9. /\ t \in Seq(Segment) /\ Len(t) = m + 1 /\ t # << >> /\ t[m + 1] = x
        /\ \A k \in 1 .. m : t[k] = s[k]
    BY <1>2, <2>5, <2>8
  <2>10. \A k \in 1 .. m + 1 : SegLaid(t[k], c, n)
    BY <1>4, <2>7, <2>9
  <2>11. ASSUME NEW k \in 1 .. m PROVE t[k + 1].at = Beyond(t[k])
    <3>1. CASE k = m
      <4>1. Beyond(s[m]) = n
        BY <1>2, <1>5 DEF SegsLaid
      <4> QED
        BY <2>2, <2>9, <3>1, <4>1
    <3>2. CASE k \in 1 .. m - 1
      <4>1. k + 1 \in 1 .. m
        BY <3>2
      <4> QED
        BY <1>2, <2>9, <3>2, <4>1 DEF SegsLaid
    <3> QED
      BY <3>1, <3>2
  <2>12. ASSUME NEW i \in 1 .. n, i < t[1].at PROVE c[i].kind # "git"
    <3>1. CASE m = 0
      <4>1. t[1].at = n
        BY <2>2, <2>9, <3>1
      <4> QED
        BY <1>5, <2>12, <3>1, <4>1 DEF SegsLaid
    <3>2. CASE m # 0
      <4>1. 1 \in 1 .. m /\ t[1] = s[1]
        BY <2>9, <3>2
      <4>2. s[1].at \in 1 .. n - 1
        BY <1>2, <4>1 DEF SegsLaid, SegLaid
      <4>3. i \in 1 .. n - 1
        BY <2>12, <4>1, <4>2
      <4> QED
        BY <2>12, <4>1, <4>3 DEF SegsLaid
    <3> QED
      BY <3>1, <3>2
  <2>13. SegsLaid(t, c, n)
    <3>1. Len(t) - 1 = m
      BY <2>9
    <3> QED
      BY <2>6, <2>9, <2>10, <2>11, <2>12, <3>1 DEF SegsLaid
  <2> QED
    BY <1>1, <1>3, <2>9, <2>13
<1>7. CASE l.kind # "git" /\ s = << >>
  <2>1. t = s
    BY <1>3, <1>7 DEF SegmentLine
  <2>2. SegsLaid(s, c, n)
    BY <1>1, <1>2, <1>4, <1>5, <1>7 DEF SegsLaid
  <2> QED
    BY <1>1, <1>3, <2>1, <2>2
<1>8. CASE l.kind # "git" /\ s # << >>
  <2>1. PICK x : x = Last(s)
    OBVIOUS
  <2>2. m \in 1 .. m /\ x = s[m] /\ x \in Segment
    BY <1>2, <1>5, <1>8, <2>1 DEF Last
  <2>3. SegLaid(x, c, n - 1) /\ Beyond(x) = n
    BY <1>2, <1>8, <2>2 DEF SegsLaid
  <2>4. PICK g : g = Longer(x, n, c[n])
    OBVIOUS
  <2>5. g \in Segment /\ SegLaid(g, c, n) /\ Beyond(g) = n + 1 /\ g.at = x.at
    <3>1. PICK y \in Segment : y = x
      BY <2>2
    <3>2. SegLaid(y, c, n - 1) /\ Beyond(y) = n /\ c[n].kind # "git"
      BY <1>1, <1>8, <2>3, <3>1
    <3>3. /\ Longer(y, n, c[n]) \in Segment /\ SegLaid(Longer(y, n, c[n]), c, n)
          /\ Beyond(Longer(y, n, c[n])) = n + 1 /\ Longer(y, n, c[n]).at = y.at
      BY <3>2, SegGrows
    <3> QED
      BY <2>4, <3>1, <3>3
  <2>6. t = Append(Front(s), g)
    BY <1>1, <1>3, <1>8, <2>1, <2>4 DEF SegmentLine, Longer
  <2>7. Front(s) \in Seq(Segment) /\ Len(Front(s)) = m - 1 /\ \A k \in 1 .. m - 1 : Front(s)[k] = s[k]
    BY <1>2, <2>2 DEF Front
  <2>8. /\ t \in Seq(Segment) /\ Len(t) = m /\ t # << >> /\ t[m] = g
        /\ \A k \in 1 .. m - 1 : t[k] = s[k]
    BY <2>2, <2>5, <2>6, <2>7
  <2>9. \A k \in 1 .. m : SegLaid(t[k], c, n) /\ t[k].at = s[k].at
    <3>1. \A k \in 1 .. m : k = m \/ k \in 1 .. m - 1
      OBVIOUS
    <3> QED
      BY <1>4, <2>2, <2>5, <2>8, <3>1
  <2>10. ASSUME NEW k \in 1 .. m - 1 PROVE t[k + 1].at = Beyond(t[k])
    <3>1. k + 1 \in 1 .. m
      OBVIOUS
    <3> QED
      BY <1>2, <2>8, <2>9, <3>1 DEF SegsLaid
  <2>11. ASSUME NEW i \in 1 .. n, i < t[1].at PROVE c[i].kind # "git"
    <3>1. 1 \in 1 .. m /\ s[1].at \in 1 .. n - 1
      BY <1>2, <2>2 DEF SegsLaid, SegLaid
    <3>2. i \in 1 .. n - 1 /\ i < s[1].at
      BY <2>9, <2>11, <3>1
    <3> QED
      BY <3>2 DEF SegsLaid
  <2>12. SegsLaid(t, c, n)
    BY <2>5, <2>8, <2>9, <2>10, <2>11 DEF SegsLaid
  <2> QED
    BY <1>1, <1>3, <2>8, <2>12
<1> QED
  BY <1>6, <1>7, <1>8

\* The sections that parseSegments finds.
LEMMA SegmentsLaid ==
  ASSUME NEW n \in Nat, NEW c, Len(c) = n
  PROVE  parseSegments(c) \in Seq(Segment) /\ SegsLaid(parseSegments(c), c, n)
<1> DEFINE G(s, k) == SegmentLine(s, k, c[k])
           F(f) == f = [i \in 0 .. Len(c) |-> IF i = 0 THEN << >> ELSE G(f[i - 1], i)]
<1>2. << >> \in Seq(Segment) /\ Len(<< >>) = 0
  BY EmptySeq
<1>3. SegsLaid(<< >>, c, 0)
  BY <1>2 DEF SegsLaid
<1> DEFINE step == [k \in 1 .. n |-> [s \in Seq(Segment) |->
                      IF SegsLaid(s, c, k - 1) THEN G(s, k) ELSE << >>]]
<1>4. PICK E : E = Seq(Segment)
  OBVIOUS
<1>5. \A k \in 1 .. n, s \in E :
        SegsLaid(s, c, k - 1) => G(s, k) \in E /\ SegsLaid(G(s, k), c, k)
  <2>1. \A k \in 1 .. n : k \in Nat \ {0}
    OBVIOUS
  <2> QED
    BY <1>4, <2>1, SegmentTurn
<1>6. step \in [1 .. n -> [E -> E]] /\ \A k \in 1 .. n : \A s \in E :
        step[k][s] = IF SegsLaid(s, c, k - 1) THEN G(s, k) ELSE << >>
  <2> HIDE DEF G
  <2> QED
    BY <1>2, <1>4, <1>5
<1> HIDE DEF step, G
<1>7. PICK f \in [0 .. n -> E] : f[0] = << >> /\ \A k \in 1 .. n : f[k] = step[k][f[k - 1]]
  <2>1. step \in [1 .. n -> [E -> E]]
    BY <1>6
  <2>2. PICK z : z = << >>
    OBVIOUS
  <2>3. z \in E
    BY <1>2, <1>4, <2>2
  <2>4. PICK f \in [0 .. n -> E] : f[0] = z /\ \A k \in 1 .. n : f[k] = step[k][f[k - 1]]
    BY <2>1, <2>3, LoopExists
  <2> QED
    BY <2>2, <2>4
<1> DEFINE S == {k \in 0 .. n : SegsLaid(f[k], c, k)}
<1>8. 0 .. n \subseteq S
  <2>1. 0 \in S
    BY <1>3, <1>7
  <2>2. ASSUME NEW k \in 1 .. n, k - 1 \in S PROVE k \in S
    <3>1. f[k - 1] \in E /\ SegsLaid(f[k - 1], c, k - 1)
      BY <2>2
    <3>2. f[k] = G(f[k - 1], k)
      BY <1>6, <1>7, <3>1
    <3> QED
      BY <1>5, <3>1, <3>2
  <2> HIDE DEF S
  <2> QED
    BY <2>1, <2>2, TurnInduction
<1>9. ASSUME NEW k \in 1 .. n PROVE f[k] = G(f[k - 1], k)
  <2>1. f[k - 1] \in E /\ SegsLaid(f[k - 1], c, k - 1)
    BY <1>8
  <2> QED
    BY <1>6, <1>7, <2>1
<1>10. F(f)
  BY <1>7, <1>9
<1> DEFINE t == CHOOSE u : F(u)
<1>11. F(t)
  <2> HIDE DEF F
  <2> QED
    BY <1>10, Zenon
<1>12. parseSegments(c) = t[n]
  <2>1. parseSegments(c) = t[Len(c)]
    BY Zenon DEF parseSegments, G
  <2> QED
    BY <2>1
<1> HIDE DEF t
<1>13. t[0] = << >> /\ \A k \in 1 .. n : t[k] = G(t[k - 1], k)
  BY <1>11
<1> DEFINE R == {k \in 0 .. n : t[k] = f[k]}
<1>14. 0 .. n \subseteq R
  <2>1. 0 \in R
    BY <1>7, <1>13
  <2>2. ASSUME NEW k \in 1 .. n, k - 1 \in R PROVE k \in R
    BY <1>9, <1>13, <2>2
  <2> HIDE DEF R
  <2> QED
    BY <2>1, <2>2, TurnInduction
<1>15. t[n] = f[n] /\ n \in S
  <2>1. n \in 0 .. n
    OBVIOUS
  <2> QED
    BY <1>8, <1>14, <2>1
<1> QED
  BY <1>4, <1>12, <1>15

\* Each line of a section is in its head or in its body.
LEMMA SegmentLines ==
  ASSUME NEW n \in Nat, NEW c, NEW seg \in Segment, SegLaid(seg, c, n)
  PROVE  /\ Elems(seg.head) = seg.at .. Below(seg) - 1
         /\ Elems(seg.body) = Below(seg) .. Beyond(seg) - 1
         /\ seg.at \in 1 .. n /\ Below(seg) \in Nat /\ Beyond(seg) \in Nat
         /\ seg.at < Below(seg) /\ Below(seg) <= Beyond(seg) /\ Beyond(seg) <= n + 1
<1>1. PICK a \in Nat, h \in Seq(Nat), b \in Seq(Nat) : a = seg.at /\ h = seg.head /\ b = seg.body
  BY DEF Segment
<1>2. PICK p \in Nat, q \in Nat : p = Len(h) /\ q = Len(b)
  <2>1. Len(h) \in Nat /\ Len(b) \in Nat
    OBVIOUS
  <2> QED
    BY <2>1
<1>3. Below(seg) = a + p /\ Beyond(seg) = a + p + q
  BY <1>1, <1>2 DEF Beyond, Below
<1>4. /\ a \in 1 .. n /\ p >= 1 /\ a + p + q <= n + 1
      /\ \A k \in 1 .. p : h[k] = a + k - 1
      /\ \A k \in 1 .. q : b[k] = a + p + k - 1
  BY <1>1, <1>2, <1>3 DEF SegLaid
<1>5. Elems(h) = a .. a + p - 1
  <2>1. ASSUME NEW x \in a .. a + p - 1 PROVE x \in Elems(h)
    <3>1. x - a + 1 \in 1 .. p /\ a + (x - a + 1) - 1 = x
      OBVIOUS
    <3> QED
      BY <1>2, <1>4, <3>1 DEF Elems
  <2>2. ASSUME NEW x \in Elems(h) PROVE x \in a .. a + p - 1
    BY <1>2, <1>4 DEF Elems
  <2> QED
    BY <2>1, <2>2
<1>6. Elems(b) = a + p .. a + p + q - 1
  <2>1. ASSUME NEW x \in a + p .. a + p + q - 1 PROVE x \in Elems(b)
    <3>1. x - (a + p) + 1 \in 1 .. q /\ a + p + (x - (a + p) + 1) - 1 = x
      OBVIOUS
    <3> QED
      BY <1>2, <1>4, <3>1 DEF Elems
  <2>2. ASSUME NEW x \in Elems(b) PROVE x \in a + p .. a + p + q - 1
    BY <1>2, <1>4 DEF Elems
  <2> QED
    BY <2>1, <2>2
<1>7. /\ a + p \in Nat /\ a + p + q \in Nat
      /\ a < a + p /\ a + p <= a + p + q
  BY <1>4
<1>8. PICK u, v : u = Below(seg) /\ v = Beyond(seg)
  OBVIOUS
<1>9. u = a + p /\ v = a + p + q
  BY <1>3, <1>8
<1>10. Elems(h) = a .. u - 1 /\ Elems(b) = u .. v - 1
  BY <1>5, <1>6, <1>9
<1> QED
  BY <1>1, <1>4, <1>7, <1>8, <1>9, <1>10

-----------------------------------------------------------------------------
(* What diff_noise leaves *)

NoiseOutput(c) ==
  LET segs == parseSegments(c)
  IN Leading(c) \o FlattenSeq([k \in DOMAIN segs |-> ApplySegment(c, segs[k])])

\* The output of the offload, when it applies.
LEMMA NoiseApplies ==
  ASSUME NEW c, ApplyNoise(c).applied
  PROVE  ApplyNoise(c).output = NoiseOutput(c)
<1>1. PICK o : o = NoiseOutput(c)
  OBVIOUS
<1>2. PICK size : size = SumOf([k \in DOMAIN o |-> IF o[k] = 0 THEN NoticeSize ELSE 1], DOMAIN o)
  OBVIOUS
<1>3. PICK none : none = (size >= Len(c) \/ \A k \in DOMAIN parseSegments(c) : ~ Droppable(c, parseSegments(c)[k]))
  OBVIOUS
<1>4. ApplyNoise(c) = IF none THEN Skipped ELSE [applied |-> TRUE, output |-> o]
  BY Zenon, <1>1, <1>2, <1>3 DEF ApplyNoise, NoiseOutput
<1>5. CASE none
  BY <1>4, <1>5 DEF Skipped
<1>6. CASE ~ none
  BY <1>1, <1>4, <1>6
<1> QED
  BY <1>5, <1>6

\* A sequence of some elements.
LEMMA ElemsType ==
  ASSUME NEW T, NEW s \in Seq(T), NEW D, Elems(s) \subseteq D
  PROVE  s \in Seq(D)
<1>1. PICK n \in Nat : n = Len(s)
  OBVIOUS
<1>2. \A k \in 1 .. n : s[k] \in D
  BY <1>1 DEF Elems
<1>3. s \in [1 .. n -> D]
  BY <1>1, <1>2
<1> QED
  BY <1>3, SeqDef

\* What is left of a section: its head, and its body or a notice.
LEMMA SegmentText ==
  ASSUME NEW n \in Nat, NEW c, NEW seg \in Segment, SegLaid(seg, c, n)
  PROVE  /\ ApplySegment(c, seg) \in Seq(0 .. n)
         /\ Droppable(c, seg) => Elems(ApplySegment(c, seg)) = (seg.at .. Below(seg) - 1) \union {0}
         /\ ~ Droppable(c, seg) => Elems(ApplySegment(c, seg)) = seg.at .. Beyond(seg) - 1
<1>1. /\ Elems(seg.head) = seg.at .. Below(seg) - 1
      /\ Elems(seg.body) = Below(seg) .. Beyond(seg) - 1
      /\ seg.at \in 1 .. n /\ Below(seg) \in Nat /\ Beyond(seg) \in Nat
      /\ seg.at < Below(seg) /\ Below(seg) <= Beyond(seg) /\ Beyond(seg) <= n + 1
  BY SegmentLines
<1>2. PICK a \in 1 .. n, u \in Nat, v \in Nat : a = seg.at /\ u = Below(seg) /\ v = Beyond(seg)
  BY <1>1
<1>3. PICK h \in Seq(Nat), b \in Seq(Nat) : h = seg.head /\ b = seg.body
  BY DEF Segment
<1>4. a < u /\ u <= v /\ v <= n + 1 /\ Elems(h) = a .. u - 1 /\ Elems(b) = u .. v - 1
  BY <1>1, <1>2, <1>3
<1>5. PICK D : D = 0 .. n
  OBVIOUS
<1>6. h \in Seq(D) /\ b \in Seq(D)
  <2>1. Elems(h) \subseteq D /\ Elems(b) \subseteq D
    BY <1>4, <1>5
  <2> QED
    BY <2>1, ElemsType
<1>7. <<0>> \in Seq(D) /\ Elems(<<0>>) = {0}
  <2>1. 0 \in D
    BY <1>5
  <2> QED
    BY <2>1, Shortest
<1>8. h \o <<0>> \in Seq(D) /\ Elems(h \o <<0>>) = Elems(h) \union {0}
  <2>1. PICK t : t = <<0>>
    OBVIOUS
  <2>2. t \in Seq(D) /\ Elems(t) = {0}
    BY <1>7, <2>1
  <2>3. h \o t \in Seq(D) /\ Elems(h \o t) = Elems(h) \union Elems(t)
    BY <1>6, <2>2, Joined
  <2> QED
    BY <2>1, <2>2, <2>3
<1>9. h \o b \in Seq(D) /\ Elems(h \o b) = Elems(h) \union Elems(b)
  BY <1>6, Joined
<1>10. Elems(h) \union Elems(b) = a .. v - 1
  BY <1>4
<1>11. CASE Droppable(c, seg)
  <2>1. ApplySegment(c, seg) = h \o <<0>>
    BY <1>3, <1>11 DEF ApplySegment
  <2> QED
    BY <1>2, <1>4, <1>5, <1>8, <1>11, <2>1
<1>12. CASE ~ Droppable(c, seg)
  <2>1. ApplySegment(c, seg) = h \o b
    BY <1>3, <1>12 DEF ApplySegment
  <2> QED
    BY <1>2, <1>5, <1>9, <1>10, <1>12, <2>1
<1> QED
  BY <1>11, <1>12

\* The output consists of lines of the input and of notices.
LEMMA NoiseType ==
  ASSUME NEW n \in Nat, NEW c, Len(c) = n, DOMAIN c = 1 .. n
  PROVE  NoiseOutput(c) \in Seq(0 .. n)
<1>1. PICK s : s = parseSegments(c)
  OBVIOUS
<1>2. s \in Seq(Segment) /\ SegsLaid(s, c, n)
  BY <1>1, SegmentsLaid
<1>3. PICK m \in Nat : m = Len(s) /\ DOMAIN s = 1 .. m /\ \A k \in 1 .. m : s[k] \in Segment
  BY <1>2
<1>4. PICK D : D = 0 .. n
  OBVIOUS
<1>5. PICK w : w = [k \in 1 .. m |-> ApplySegment(c, s[k])]
  OBVIOUS
<1>6. \A k \in 1 .. m : SegLaid(s[k], c, n)
  BY <1>2, <1>3 DEF SegsLaid
<1>7. \A k \in 1 .. m : w[k] \in Seq(D)
  BY <1>3, <1>4, <1>5, <1>6, SegmentText
<1>8. w \in Lists(m, D)
  <2>1. w \in [1 .. m -> Seq(D)]
    BY <1>5, <1>7
  <2> QED
    BY <2>1 DEF Lists
<1>9. FlattenSeq(w) \in Seq(D)
  BY <1>8, Flattened
<1>10. PICK L : L = {i \in DOMAIN c : \A j \in 1 .. i : c[j].kind # "git"}
  OBVIOUS
<1>11. L \subseteq 1 .. n /\ L \subseteq Int /\ L \subseteq D
  BY <1>4, <1>10
<1>12. IsFiniteSet(L)
  <2>1. IsFiniteSet(1 .. n)
    BY FS_Interval
  <2> QED
    BY <1>11, <2>1, FS_Subset
<1>13. Leading(c) \in Seq(D)
  <2>1. Leading(c) = InOrder(L)
    BY <1>10 DEF Leading
  <2>2. InOrder(L) \in Seq(L)
    BY <1>11, <1>12, InOrderAscends
  <2> QED
    BY <1>11, <2>1, <2>2, SeqMonotonic
<1>14. NoiseOutput(c) = Leading(c) \o FlattenSeq(w)
  <2>1. [k \in DOMAIN s |-> ApplySegment(c, s[k])] = w
    BY <1>3, <1>5
  <2>2. NoiseOutput(c) = Leading(c) \o FlattenSeq([k \in DOMAIN s |-> ApplySegment(c, s[k])])
    BY Zenon, <1>1 DEF NoiseOutput
  <2> QED
    BY ONLY <2>1, <2>2
<1> QED
  BY <1>4, <1>9, <1>13, <1>14

-----------------------------------------------------------------------------
(* OriginalReachable *)

\* What CompressWithStore writes is a sequence of numbers.
LEMMA CompressedType ==
  ASSUME NEW n \in Nat, NEW c, Len(c) = n, Started(c)
  PROVE  Compressed(c, parseDiff(c)).output \in Seq(Nat)
<1>1. PICK p : p = parseDiff(c)
  OBVIOUS
<1>2. p \in Parse /\ Layout(p, c, n)
  BY <1>1, DiffLaid
<1>3. PICK pre \in Seq(Nat), all \in Seq(File) : pre = p.pre /\ all = p.files
  BY <1>2 DEF Parse
<1>4. PICK fs : fs = CappedFiles(all)
  OBVIOUS
<1>5. fs \in Seq(File) /\ Len(fs) \in Nat
        /\ \A k \in 1 .. Len(fs) : \E j \in 1 .. Len(all) : fs[k] = all[j]
  <2>1. Chosen(fs, all)
    BY <1>4, CappedAre
  <2> QED
    BY <2>1, ChosenType
<1>6. ASSUME NEW k \in 1 .. Len(fs) PROVE Begun(c, fs[k])
  <2>1. PICK j \in 1 .. Len(all) : fs[k] = all[j]
    BY <1>5
  <2>2. FileLaid(all[j], c, n)
    BY <1>2, <1>3 DEF Layout
  <2> QED
    BY <2>1, <2>2 DEF Begun, FileLaid, HunksLaid, HunkLaid
<1>7. PICK small : small = [k \in DOMAIN fs |-> CompressFile(c, fs[k])]
  OBVIOUS
<1>8. formatOutput(pre, small) \in Seq(Nat)
  <2>1. TextOfDiff(formatOutput(pre, small), c, pre, fs)
    BY <1>5, <1>6, <1>7, DiffText
  <2> QED
    BY <2>1 DEF TextOfDiff
<1>9. Compressed(c, p).output = formatOutput(pre, small)
  BY <1>3, <1>4, <1>7 DEF Compressed
<1> QED
  BY <1>1, <1>8, <1>9

\* The lines that the compressor gets.
WireLines == ChunkLines \union {Written("none"), Written("blank"), Written("noise")}

\* The lines that the compressor gets have starts that can be compared.
LEMMA WireStarts ==
  ASSUME NEW s \in Seq(WireLines)
  PROVE  Started(s)
<1>1. \A l \in ChunkLines : l.start \in Nat
  BY DiffAssumption DEF ChunkLines
<1>2. \A m : Written(m).start = 0
  BY DEF Written
<1>3. \A l \in WireLines : l.start \in Nat
  BY <1>1, <1>2 DEF WireLines
<1>4. \A i \in 1 .. Len(s) : s[i] \in WireLines
  OBVIOUS
<1> QED
  BY <1>3, <1>4 DEF Started

\* What the stash holds before the diff offload has its turn: nothing, or the
\* content, whose marker is on the wire.
NoiseStashed ==
  \/ wire = content /\ stash = << >>
  \/ /\ DOMAIN stash = {"noise"} /\ stash["noise"] = content
     /\ \E k \in DOMAIN wire : wire[k].mark = "noise"

Reach ==
  /\ content \in Seq(ChunkLines)
  /\ stage = "reading" => wire = content /\ stash = << >>
  /\ stage = "diff" => wire \in Seq(WireLines) /\ NoiseStashed
  /\ OriginalReachable

\* diff_noise stashes the content under the marker it writes.
LEMMA NoiseReaches ==
  ASSUME Reach, NoiseDrops
  PROVE  Reach'
<1>1. content \in Seq(ChunkLines) /\ wire = content
  BY DEF Reach, NoiseDrops
<1>2. PICK n \in Nat : n = Len(content) /\ DOMAIN content = 1 .. n
  BY <1>1
<1>3. PICK o : o = ApplyNoise(content).output
  OBVIOUS
<1>4. o \in Seq(0 .. n)
  <2>1. o = NoiseOutput(content)
    BY <1>3, NoiseApplies DEF NoiseDrops
  <2>2. NoiseOutput(content) \in Seq(0 .. n)
    BY <1>2, NoiseType
  <2> QED
    BY <2>1, <2>2
<1>5. PICK m \in Nat : m = Len(o) /\ DOMAIN o = 1 .. m /\ \A k \in 1 .. m : o[k] \in 0 .. n
  BY <1>4
<1>6. PICK w : w = [k \in 1 .. m |-> IF o[k] = 0 THEN Written("none") ELSE wire[o[k]]]
  OBVIOUS
<1>7. w \in Seq(WireLines) /\ Len(w) = m
  <2>1. ASSUME NEW k \in 1 .. m PROVE w[k] \in WireLines
    <3>1. CASE o[k] = 0
      BY <1>6, <3>1 DEF WireLines
    <3>2. CASE o[k] \in 1 .. n
      <4>1. wire[o[k]] \in ChunkLines
        BY <1>1, <1>2, <3>2
      <4> QED
        BY <1>6, <3>2, <4>1 DEF WireLines
    <3> QED
      BY <1>5, <3>1, <3>2
  <2>2. PICK T : T = WireLines
    OBVIOUS
  <2>3. w \in [1 .. m -> T]
    BY <1>6, <2>1, <2>2
  <2>4. w \in Seq(T) /\ Len(w) = m
    BY <2>3, SeqDef
  <2> QED
    BY <2>2, <2>4
<1>8. wire' = w \o <<Written("blank"), Written("noise")>>
  <2>1. wire' = [k \in DOMAIN o |-> IF o[k] = 0 THEN Written("none") ELSE wire[o[k]]]
                  \o <<Written("blank"), Written("noise")>>
    BY <1>3 DEF NoiseDrops, Rewrite
  <2>2. [k \in DOMAIN o |-> IF o[k] = 0 THEN Written("none") ELSE wire[o[k]]] = w
    BY <1>5, <1>6
  <2> QED
    BY ONLY <2>1, <2>2
<1>9. PICK x, y : x = Written("blank") /\ y = Written("noise")
  OBVIOUS
<1>10. PICK T : T = WireLines
  OBVIOUS
<1>11. x \in T /\ y \in T /\ y.mark = "noise"
  BY <1>9, <1>10 DEF WireLines, Written
<1>12. /\ w \o <<x, y>> \in Seq(T) /\ Len(w \o <<x, y>>) = m + 2
       /\ (w \o <<x, y>>)[m + 2] = y
  <2>1. w \in Seq(T) /\ Len(w) = m
    BY <1>7, <1>10
  <2> QED
    BY <1>11, <2>1
<1>13. wire' \in Seq(WireLines) /\ m + 2 \in DOMAIN wire' /\ wire'[m + 2].mark = "noise"
  <2>1. PICK r : r = w \o <<x, y>>
    OBVIOUS
  <2>2. r \in Seq(T) /\ Len(r) = m + 2 /\ r[m + 2] = y
    BY <1>12, <2>1
  <2>3. m + 2 \in DOMAIN r
    BY <2>2
  <2>4. wire' = r
    BY <1>8, <1>9, <2>1
  <2> QED
    BY <1>10, <1>11, <2>2, <2>3, <2>4
<1>14. DOMAIN stash' = {"noise"} /\ stash'["noise"] = content'
  BY DEF NoiseDrops
<1>15. NoiseStashed'
  BY <1>13, <1>14 DEF NoiseStashed
<1>16. stage' = "diff" /\ content' = content
  BY DEF NoiseDrops
<1> QED
  BY <1>1, <1>13, <1>15, <1>16 DEF Reach, OriginalReachable

\* The compressor stashes what it got, which may lead on to the content.
LEMMA DiffReaches ==
  ASSUME Reach, DiffCompresses
  PROVE  Reach'
<1>1. /\ content \in Seq(ChunkLines) /\ wire \in Seq(WireLines) /\ NoiseStashed
      /\ content' = content /\ stage' = "done"
  BY DEF Reach, DiffCompresses
<1>2. PICK n \in Nat : n = Len(wire) /\ DOMAIN wire = 1 .. n
  BY <1>1
<1>3. diff' = CompressWithStore(wire) /\ diff'.cacheKey
  BY DEF DiffCompresses, Accepts
<1>4. PICK o : o = diff'.output
  OBVIOUS
<1>5. o \in Seq(Nat)
  <2>1. diff' = PassThrough(wire) \/ diff' = Compressed(wire, parseDiff(wire))
    BY <1>3 DEF CompressWithStore
  <2>2. PassThrough(wire).cacheKey = FALSE
    BY DEF PassThrough
  <2>3. Compressed(wire, parseDiff(wire)).output \in Seq(Nat)
    BY <1>1, <1>2, WireStarts, CompressedType
  <2> QED
    BY <1>3, <1>4, <2>1, <2>2, <2>3
<1>6. PICK m \in Nat : m = Len(o) /\ DOMAIN o = 1 .. m
  BY <1>5
<1>7. PICK w : w = [k \in 1 .. m |-> IF o[k] = 0 THEN Written("none") ELSE wire[o[k]]]
  OBVIOUS
<1>8. wire' = w \o <<Written("diff")>>
  <2>1. wire' = [k \in DOMAIN o |-> IF o[k] = 0 THEN Written("none") ELSE wire[o[k]]]
                  \o <<Written("diff")>>
    BY <1>3, <1>4 DEF DiffCompresses, Rewrite
  <2>2. [k \in DOMAIN o |-> IF o[k] = 0 THEN Written("none") ELSE wire[o[k]]] = w
    BY <1>6, <1>7
  <2> QED
    BY ONLY <2>1, <2>2
<1>9. PICK r : r = wire'
  OBVIOUS
<1>10. m + 1 \in DOMAIN r /\ r[m + 1].mark = "diff"
  <2>0. PICK y : y = Written("diff")
    OBVIOUS
  <2>1. y = Written("diff") /\ y.mark = "diff"
    BY <2>0 DEF Written
  <2>2. PICK T : T = {w[k] : k \in 1 .. m} \union {y}
    OBVIOUS
  <2>3. w \in [1 .. m -> T] /\ y \in T
    BY <1>7, <2>2
  <2>4. w \in Seq(T) /\ Len(w) = m
    BY <2>3, SeqDef
  <2>5. r = w \o <<y>>
    BY <1>8, <1>9, <2>1
  <2>6. r \in Seq(T) /\ Len(r) = m + 1 /\ r[m + 1] = y
    BY <2>3, <2>4, <2>5
  <2> QED
    BY <2>1, <2>6
<1>11. PICK t : t = stash'
  OBVIOUS
<1>12. /\ DOMAIN t = DOMAIN stash \union {"diff"} /\ t["diff"] = wire
       /\ \A k \in DOMAIN stash : k # "diff" => t[k] = stash[k]
  BY <1>3, <1>11 DEF DiffCompresses
<1> DEFINE led(lines) == {t[lines[k].mark] : k \in {j \in DOMAIN lines : lines[j].mark \in DOMAIN t}}
<1>13. wire \in led(r)
  BY <1>10, <1>12
<1>14. CASE wire = content
  <2>1. content \in led(r)
    BY <1>13, <1>14
  <2>2. Retrieved(wire)' = led(r)
    BY <1>9, <1>11 DEF Retrieved
  <2>3. OriginalReachable'
    BY <1>1, <2>1, <2>2 DEF OriginalReachable
  <2> QED
    BY <1>1, <2>3 DEF Reach
<1>15. CASE /\ DOMAIN stash = {"noise"} /\ stash["noise"] = content
            /\ \E k \in DOMAIN wire : wire[k].mark = "noise"
  <2>1. PICK k \in DOMAIN wire : wire[k].mark = "noise"
    BY <1>15
  <2>2. t["noise"] = content /\ "noise" \in DOMAIN t
    BY <1>12, <1>15
  <2>3. content \in led(wire)
    BY <2>1, <2>2
  <2> HIDE DEF led
  <2>4. content \in UNION {led(lines) : lines \in led(r)}
    BY <1>13, <2>3
  <2>5. OriginalReachable'
    <3>1. OriginalReachable' <=>
            (stage' = "done" /\ r # content' =>
               content' \in led(r) \union UNION {led(lines) : lines \in led(r)})
      BY <1>9, <1>11 DEF OriginalReachable, Retrieved, led
    <3> QED
      BY <1>1, <2>4, <3>1
  <2> QED
    BY <1>1, <2>5 DEF Reach
<1> QED
  BY <1>1, <1>14, <1>15 DEF NoiseStashed

\* What holds of the stash all along.
LEMMA ReachInvariant == Spec => []Reach
<1>1. Init => Reach
  BY EmptySeq DEF Init, Reach, OriginalReachable
<1>2. Reach /\ [Next]_vars => Reach'
  <2> SUFFICES ASSUME Reach, [Next]_vars PROVE Reach'
    OBVIOUS
  <2>1. ASSUME NEW k \in Chunks, Receive(k) PROVE Reach'
    <3>1. k \in Seq({k[i] : i \in DOMAIN k}) /\ {k[i] : i \in DOMAIN k} \subseteq ChunkLines
      BY DiffAssumption DEF ChunkLines
    <3>2. k \in Seq(ChunkLines)
      BY <3>1, SeqMonotonic
    <3>3. content' \in Seq(ChunkLines)
      BY <2>1, <3>2 DEF Receive, Reach
    <3> QED
      BY <2>1, <3>3 DEF Receive, Reach, OriginalReachable
  <2>2. CASE NoiseLeaves
    <3>1. ChunkLines \subseteq WireLines
      BY DEF WireLines
    <3>2. content \in Seq(WireLines)
      BY <3>1, SeqMonotonic DEF Reach
    <3>3. NoiseStashed'
      BY <2>2 DEF NoiseLeaves, Reach, NoiseStashed
    <3> QED
      BY <2>2, <3>2, <3>3 DEF NoiseLeaves, Reach, OriginalReachable
  <2>3. CASE NoiseDrops
    BY <2>3, NoiseReaches
  <2>4. CASE DiffLeaves
    <3>1. /\ stage = "diff" /\ stage' = "done" /\ wire' = wire /\ content' = content /\ stash' = stash
      BY <2>4 DEF DiffLeaves
    <3>2. CASE wire = content
      BY <3>1, <3>2 DEF Reach, OriginalReachable
    <3>3. CASE /\ DOMAIN stash = {"noise"} /\ stash["noise"] = content
               /\ \E k \in DOMAIN wire : wire[k].mark = "noise"
      <4>1. content \in Retrieved(wire)
        BY <3>3 DEF Retrieved
      <4>2. content' \in Retrieved(wire)'
        BY <3>1, <4>1 DEF Retrieved
      <4> QED
        BY <3>1, <4>2 DEF Reach, OriginalReachable
    <3> QED
      BY <3>1, <3>2, <3>3 DEF Reach, NoiseStashed
  <2>5. CASE DiffCompresses
    BY <2>5, DiffReaches
  <2>6. CASE UNCHANGED vars
    BY <2>6 DEF vars, Reach, NoiseStashed, OriginalReachable, Retrieved
  <2> QED
    BY <2>1, <2>2, <2>3, <2>4, <2>5, <2>6 DEF Next
<1> QED
  BY <1>1, <1>2, PTL DEF Spec

\* The content can be fetched back from what is on the wire, in one step or in
\* two, whatever the diff compressor makes of the lines that diff_noise has left
\* (diff_noise.go:112-118; diffcompressor.go:247-265).
THEOREM ContentComesBack == Spec => []OriginalReachable
<1>1. Reach => OriginalReachable
  BY DEF Reach
<1> QED
  BY <1>1, ReachInvariant, PTL

-----------------------------------------------------------------------------
(* The counts *)

\* n sets together.
Parts(F, n) == UNION {F[k] : k \in 1 .. n}

\* Sets that have nothing in common: together they have as many elements as they
\* have one by one.
LEMMA PartsCounted ==
  ASSUME NEW n \in Nat, NEW F, NEW f,
         \A k \in 1 .. n : IsFiniteSet(F[k]) /\ f[k] = Cardinality(F[k]),
         \A j, k \in 1 .. n : j # k => F[j] \intersect F[k] = {}
  PROVE  IsFiniteSet(Parts(F, n)) /\ SumOf(f, 1 .. n) = Cardinality(Parts(F, n))
<1>0. \A k \in 1 .. n : f[k] \in Nat
  BY FS_CardinalityType
<1> DEFINE S == {m \in 0 .. n : /\ IsFiniteSet(Parts(F, m))
                                /\ SumOf(f, 1 .. m) = Cardinality(Parts(F, m))}
<1>1. 0 \in S
  <2>1. 1 .. 0 = {}
    OBVIOUS
  <2>2. Parts(F, 0) = {} /\ SumOf(f, 1 .. 0) = 0
    BY <2>1, SumEmpty DEF Parts
  <2> QED
    BY <2>2, FS_EmptySet
<1>2. ASSUME NEW k \in 1 .. n, k - 1 \in S PROVE k \in S
  <2>1. PICK m \in Nat : k = m + 1 /\ k - 1 = m
    <3>1. k - 1 \in Nat /\ k = (k - 1) + 1
      OBVIOUS
    <3> QED
      BY <3>1
  <2>2. IsFiniteSet(Parts(F, m)) /\ SumOf(f, 1 .. m) = Cardinality(Parts(F, m))
    BY <1>2, <2>1
  <2>3. PICK A, B : A = Parts(F, m) /\ B = F[k]
    OBVIOUS
  <2>4. Parts(F, k) = A \union B
    <3>1. \A j : j \in 1 .. k <=> j \in 1 .. m \/ j = k
      BY <2>1
    <3> QED
      BY <2>3, <3>1 DEF Parts
  <2>5. A \intersect B = {}
    <3>1. \A j \in 1 .. m : j \in 1 .. n /\ j # k
      BY <2>1
    <3> QED
      BY <2>3, <3>1 DEF Parts
  <2>6. IsFiniteSet(A) /\ IsFiniteSet(B) /\ Cardinality(A) \in Nat /\ Cardinality(B) \in Nat
    BY <2>2, <2>3, FS_CardinalityType
  <2>7. IsFiniteSet(A \union B) /\ Cardinality(A \union B) = Cardinality(A) + Cardinality(B)
    <3>1. Cardinality(A \union B) = Cardinality(A) + Cardinality(B) - Cardinality(A \intersect B)
      BY <2>6, FS_Union
    <3>2. Cardinality(A \intersect B) = 0
      BY <2>5, FS_EmptySet
    <3> QED
      BY <2>6, <3>1, <3>2, FS_Union
  <2>8. \A j \in 1 .. m + 1 : f[j] \in Int
    BY <1>0, <2>1
  <2>9. SumOf(f, 1 .. m + 1) = SumOf(f, 1 .. m) + f[m + 1]
    BY <2>8, SumGrows
  <2>10. SumOf(f, 1 .. k) = Cardinality(Parts(F, k))
    BY <2>1, <2>2, <2>3, <2>4, <2>7, <2>9
  <2>11. k \in 0 .. n
    OBVIOUS
  <2> QED
    BY <2>4, <2>7, <2>10, <2>11
<1> HIDE DEF S
<1>3. n \in S
  <2>1. 0 .. n \subseteq S
    BY <1>1, <1>2, TurnInduction
  <2> QED
    BY <2>1
<1> QED
  BY <1>3 DEF S

\* A sequence has as many elements as places, when no element has two.
LEMMA PlacesCounted ==
  ASSUME NEW T, NEW s \in Seq(T), Distinct(s)
  PROVE  IsFiniteSet(Elems(s)) /\ Cardinality(Elems(s)) = Len(s)
<1>1. PICK n \in Nat : n = Len(s)
  OBVIOUS
<1>2. PICK E : E = Elems(s)
  OBVIOUS
<1>3. PICK g : g = [k \in 1 .. n |-> s[k]]
  OBVIOUS
<1>4. g \in Bijection(1 .. n, E)
  <2>1. g \in [1 .. n -> E] /\ \A x \in E : \E k \in 1 .. n : g[k] = x
    BY <1>1, <1>2, <1>3 DEF Elems
  <2>2. \A j, k \in 1 .. n : g[j] = g[k] => j = k
    BY <1>1, <1>3 DEF Distinct
  <2> QED
    BY <2>1, <2>2 DEF Bijection, Injection, Surjection, IsInjective
<1>5. ExistsBijection(1 .. n, E)
  BY <1>4 DEF ExistsBijection
<1>6. IsFiniteSet(1 .. n) /\ Cardinality(1 .. n) = n
  <2>1. 1 \in Int /\ n \in Int
    OBVIOUS
  <2> QED
    BY <2>1, FS_Interval
<1>7. IsFiniteSet(E) /\ Cardinality(E) = n
  BY <1>5, <1>6, FS_Bijection
<1> QED
  BY <1>1, <1>2, <1>7

-----------------------------------------------------------------------------
(* Which hunks and files of a diff are shown *)

\* Hunks of one diff are told apart by their headers, and share no line.
HunksApart(fs) ==
  \A j, k \in 1 .. Len(fs) :
    \A a \in 1 .. Len(fs[j].hunks), b \in 1 .. Len(fs[k].hunks) :
      /\ fs[j].hunks[a].header = fs[k].hunks[b].header => j = k /\ a = b
      /\ (j # k \/ a # b) => HunkLines(fs[j].hunks[a]) \intersect HunkLines(fs[k].hunks[b]) = {}

\* A header belongs to one hunk.
LEMMA OneHunk ==
  ASSUME NEW fs, HunksApart(fs),
         NEW j \in 1 .. Len(fs), NEW a \in 1 .. Len(fs[j].hunks),
         NEW k \in 1 .. Len(fs), NEW b \in 1 .. Len(fs[k].hunks),
         fs[j].hunks[a].header = fs[k].hunks[b].header
  PROVE  j = k /\ a = b
<1> DEFINE same(x, y, u, v) == fs[x].hunks[u].header = fs[y].hunks[v].header => x = y /\ u = v
           none(x, y, u, v) ==
             (x # y \/ u # v) => HunkLines(fs[x].hunks[u]) \intersect HunkLines(fs[y].hunks[v]) = {}
           count(x)         == 1 .. Len(fs[x].hunks)
<1>1. \A x, y \in 1 .. Len(fs) : \A u \in count(x), v \in count(y) :
        same(x, y, u, v) /\ none(x, y, u, v)
  BY DEF HunksApart
<1>2. a \in count(j) /\ b \in count(k)
  OBVIOUS
<1>3. same(j, k, a, b) => j = k /\ a = b
  OBVIOUS
<1> HIDE DEF same, none, count
<1> QED
  BY <1>1, <1>2, <1>3

\* The parser lays hunks apart.
LEMMA NoneShared ==
  ASSUME NEW n \in Nat, NEW c, NEW p \in Parse, Layout(p, c, n)
  PROVE  HunksApart(p.files)
<1>1. PICK fs \in Seq(File) : fs = p.files
  BY DEF Parse
<1>2. \A k \in 1 .. Len(fs) : fs[k] \in File /\ FileLaid(fs[k], c, n)
  BY <1>1 DEF Layout
<1>3. \A k, l \in 1 .. Len(fs) : k < l => fs[k].header < fs[l].header
  BY <1>1 DEF Layout
<1> DEFINE H(j, a) == fs[j].hunks[a]
<1>4. ASSUME NEW j \in 1 .. Len(fs), NEW a \in 1 .. Len(fs[j].hunks)
      PROVE  /\ HunkLaid(H(j, a), c, n) /\ H(j, a).header \in Nat /\ H(j, a).end \in Nat
             /\ fs[j].header < H(j, a).header
             /\ \A i \in fs[j].header + 1 .. H(j, a).header : c[i].kind \notin FileHeaders
             /\ fs[j].header \in Nat /\ c[fs[j].header].kind \in FileHeaders
  <2>1. HunksLaid(fs[j].hunks, fs[j].header, c, n) /\ NamesLaid(fs[j], c, n)
    BY <1>2 DEF FileLaid
  <2>2. HunkLaid(H(j, a), c, n)
    BY <2>1 DEF HunksLaid
  <2>3. H(j, a).header \in 1 .. n /\ H(j, a).end \in H(j, a).header .. n
    BY <2>2 DEF HunkLaid
  <2>4. H(j, a).header \in Nat /\ H(j, a).end \in Nat
    BY <2>3
  <2> QED
    BY <2>1, <2>2, <2>4 DEF HunksLaid, NamesLaid
<1>5. ASSUME NEW j \in 1 .. Len(fs), NEW k \in 1 .. Len(fs), j < k,
             NEW a \in 1 .. Len(fs[j].hunks), NEW b \in 1 .. Len(fs[k].hunks)
      PROVE  H(j, a).header < H(k, b).header
  <2>1. PICK x \in Nat, y \in Nat, u \in Nat, v \in Nat :
          x = H(j, a).header /\ y = H(k, b).header /\ u = fs[j].header /\ v = fs[k].header
    BY <1>4
  <2>2. u < v /\ v < y /\ c[v].kind \in FileHeaders /\ \A i \in u + 1 .. x : c[i].kind \notin FileHeaders
    <3> HIDE DEF H
    <3> QED
      BY <1>3, <1>4, <1>5, <2>1
  <2>3. x < y
    BY <2>2
  <2> HIDE DEF H
  <2> QED
    BY <2>1, <2>3
<1>6. ASSUME NEW j \in 1 .. Len(fs), NEW k \in 1 .. Len(fs),
             NEW a \in 1 .. Len(fs[j].hunks), NEW b \in 1 .. Len(fs[k].hunks),
             j # k \/ a # b
      PROVE  H(j, a).header < H(k, b).header \/ H(k, b).header < H(j, a).header
  <2>1. CASE j # k
    <3>1. j < k \/ k < j
      BY <2>1
    <3> QED
      BY <1>5, <3>1
  <2>2. CASE j = k /\ a # b
    <3>1. \A d, e \in 1 .. Len(fs[j].hunks) : d < e => H(j, d).header < H(j, e).header
      BY <1>2 DEF FileLaid, HunksLaid
    <3>2. a < b \/ b < a
      BY <2>2
    <3> QED
      BY <2>2, <3>1, <3>2
  <2> QED
    BY <1>6, <2>1, <2>2
<1>7. ASSUME NEW g, NEW h, HunkLaid(g, c, n), HunkLaid(h, c, n), g.header < h.header
      PROVE  HunkLines(g) \intersect HunkLines(h) = {}
  <2>1. PICK x \in Nat, y \in Nat, z \in Nat : x = g.header /\ y = g.end /\ z = h.header
    <3>1. g.header \in 1 .. n /\ g.end \in g.header .. n /\ h.header \in 1 .. n
      BY <1>7 DEF HunkLaid
    <3>2. g.header \in Nat /\ g.end \in Nat /\ h.header \in Nat
      BY <3>1
    <3> QED
      BY <3>2
  <2>2. c[z].kind \in Headers /\ \A i \in x + 1 .. y : c[i].kind \notin Headers
    BY <1>7, <2>1 DEF HunkLaid, NoHeader, Headers
  <2>3. y < z
    BY <1>7, <2>1, <2>2
  <2>4. HunkLines(g) = x + 1 .. y /\ HunkLines(h) = z + 1 .. h.end
    BY <2>1 DEF HunkLines
  <2> QED
    BY <2>3, <2>4
<1>8. ASSUME NEW j \in 1 .. Len(fs), NEW k \in 1 .. Len(fs),
             NEW a \in 1 .. Len(fs[j].hunks), NEW b \in 1 .. Len(fs[k].hunks)
      PROVE  /\ H(j, a).header = H(k, b).header => j = k /\ a = b
             /\ (j # k \/ a # b) => HunkLines(H(j, a)) \intersect HunkLines(H(k, b)) = {}
  <2>1. PICK g, h : g = H(j, a) /\ h = H(k, b)
    OBVIOUS
  <2>2. g.header \in Nat /\ h.header \in Nat /\ HunkLaid(g, c, n) /\ HunkLaid(h, c, n)
    BY <1>4, <2>1
  <2>3. j # k \/ a # b => g.header < h.header \/ h.header < g.header
    BY <1>6, <2>1
  <2>4. j # k \/ a # b => HunkLines(g) \intersect HunkLines(h) = {}
    BY <1>7, <2>2, <2>3
  <2>5. g.header = h.header => j = k /\ a = b
    BY <2>2, <2>3
  <2> QED
    BY <2>1, <2>4, <2>5
<1>9. HunksApart(fs)
  BY <1>8 DEF HunksApart
<1> QED
  BY <1>1, <1>9

\* What a compressed diff shows: fs are the files that are kept.
ShowsKept(c, o, all, fs) ==
  /\ \A f \in Elems(all) : f.header \in Elems(o) <=> f \in Elems(fs)
  /\ \A f \in Elems(fs) : \A h \in Elems(f.hunks) :
       h.header \in Elems(o) <=> ~ f.isBinary /\ h \in Elems(Kept(c, f))
  /\ \A f \in Elems(fs) : \A h \in Elems(Kept(c, f)) :
       ~ f.isBinary => LinesOf(c, h) \subseteq Elems(o)

\* The hunks that are kept of a file of the diff.
LEMMA KeptOf ==
  ASSUME NEW n \in Nat, NEW c, Len(c) = n, Started(c), NEW f \in File, FileLaid(f, c, n)
  PROVE  /\ Chosen(Kept(c, f), f.hunks) /\ Kept(c, f) \in Seq(Hunk)
         /\ Elems(Kept(c, f)) \subseteq Elems(f.hunks) /\ Begun(c, f)
<1>1. Begun(c, f)
  BY DEF Begun, FileLaid, HunksLaid, HunkLaid
<1>2. PICK h \in Seq(Hunk) : h = f.hunks
  BY DEF File
<1>3. Chosen(selectHunks(c, h), h)
  BY <1>1, <1>2, SelectedHunks DEF Begun
<1>4. PICK r : r = selectHunks(c, h)
  OBVIOUS
<1>5. r \in Seq(Hunk) /\ \A k \in 1 .. Len(r) : \E j \in 1 .. Len(h) : r[k] = h[j]
  BY <1>3, <1>4, ChosenType
<1>6. Elems(r) \subseteq Elems(h)
  BY <1>5 DEF Elems
<1> QED
  BY <1>1, <1>2, <1>3, <1>4, <1>5, <1>6 DEF Kept

\* The files and hunks whose headers are shown are those that are kept.
LEMMA KeptShown ==
  ASSUME NEW n \in Nat, NEW c, Len(c) = n, Started(c), NEW p \in Parse, Layout(p, c, n),
         NEW fs, fs = CappedFiles(p.files),
         NEW small, small = [k \in DOMAIN fs |-> CompressFile(c, fs[k])]
  PROVE  ShowsKept(c, formatOutput(p.pre, small), p.files, fs)
<1>1. PICK all \in Seq(File), pre \in Seq(Nat) : all = p.files /\ pre = p.pre
  BY DEF Parse
<1>2. /\ fs \in Seq(File) /\ Len(fs) \in Nat
      /\ \A k \in 1 .. Len(fs) : \E j \in 1 .. Len(all) : fs[k] = all[j]
  <2>1. Chosen(fs, all)
    BY <1>1, CappedAre
  <2> QED
    BY <2>1, ChosenType
<1>3. \A j \in 1 .. Len(all) : all[j] \in File /\ FileLaid(all[j], c, n) /\ Begun(c, all[j])
  <2>1. \A j \in 1 .. Len(all) : all[j] \in File /\ FileLaid(all[j], c, n)
    BY <1>1 DEF Layout
  <2> QED
    BY <2>1, KeptOf
<1>4. \A k \in 1 .. Len(fs) : fs[k] \in File /\ FileLaid(fs[k], c, n) /\ Begun(c, fs[k])
  BY <1>2, <1>3
<1>5. PICK o : o = formatOutput(pre, small)
  OBVIOUS
<1>6. /\ \A k \in 1 .. Len(fs) : /\ fs[k].header \in Elems(o)
                                 /\ Shows(c, fs[k], Kept(c, fs[k])) \subseteq Elems(o)
      /\ \A x \in Elems(o) :
           \/ x = 0 \/ x \in Elems(pre)
           \/ \E k \in 1 .. Len(fs) : x \in Own(fs[k]) \union Shows(c, fs[k], Kept(c, fs[k]))
  <2>1. PICK s : s = small
    OBVIOUS
  <2>2. s = [k \in DOMAIN fs |-> CompressFile(c, fs[k])]
    BY <2>1
  <2>3. \A k \in 1 .. Len(fs) : Begun(c, fs[k])
    BY <1>4
  <2>4. TextOfDiff(formatOutput(pre, s), c, pre, fs)
    BY <1>2, <2>2, <2>3, DiffText
  <2>5. TextOfDiff(o, c, pre, fs)
    BY ONLY <1>5, <2>1, <2>4
  <2> QED
    BY <2>5 DEF TextOfDiff
<1>7. HunksApart(all)
  BY <1>1, NoneShared
<1>8. \A k, l \in 1 .. Len(all) : k < l => all[k].header < all[l].header
  BY <1>1 DEF Layout
<1>9. \A x \in Elems(pre) : x <= Len(pre) /\ c[x].kind \notin FileHeaders
  BY <1>1 DEF Elems, Layout
\* What the text of a file has of headers.
<1>10. ASSUME NEW f \in Elems(fs), NEW x \in Own(f)
       PROVE  x = 0 \/ x = f.header \/ c[x].kind \notin Headers
  <2>1. NamesLaid(f, c, n)
    BY <1>4 DEF Elems, FileLaid
  <2>2. x = 0 \/ x = f.header \/ c[x].kind \in {"old", "new", "rename"}
    BY <2>1 DEF Own, NamesLaid, Elems
  <2> QED
    BY <2>2 DEF Headers, FileHeaders, HunkHeaders
<1>11. ASSUME NEW f \in Elems(fs), NEW x \in Shows(c, f, Kept(c, f))
       PROVE  /\ ~ f.isBinary
              /\ \E h \in Elems(Kept(c, f)) :
                   (x = h.header /\ c[x].kind \in HunkHeaders) \/ c[x].kind \notin Headers
  <2>1. FileLaid(f, c, n) /\ f \in File
    BY <1>4 DEF Elems
  <2>2. Elems(Kept(c, f)) \subseteq Elems(f.hunks)
    BY <2>1, KeptOf
  <2>3. ~ f.isBinary /\ \E h \in Elems(Kept(c, f)) : x \in LinesOf(c, h)
    BY DEF Shows, Elems
  <2>4. PICK h \in Elems(Kept(c, f)) : x \in LinesOf(c, h)
    BY <2>3
  <2>5. HunkLaid(h, c, n)
    BY <2>1, <2>2, <2>4 DEF FileLaid, HunksLaid, Elems
  <2>6. x = h.header \/ x \in HunkLines(h)
    BY <2>4 DEF LinesOf, KeptLines
  <2> QED
    BY <2>3, <2>4, <2>5, <2>6 DEF HunkLaid, NoHeader, HunkLines
<1>12. ASSUME NEW f \in Elems(all), f.header \in Elems(o) PROVE f \in Elems(fs)
  <2>1. PICK j \in 1 .. Len(all) : f = all[j]
    BY <1>12 DEF Elems
  <2>2. NamesLaid(f, c, n)
    BY <1>3, <2>1 DEF FileLaid
  <2>3. f.header # 0 /\ c[f.header].kind \in FileHeaders /\ f.header \notin Elems(pre)
    BY <1>9, <2>2 DEF NamesLaid
  <2>4. PICK k \in 1 .. Len(fs) : f.header \in Own(fs[k]) \union Shows(c, fs[k], Kept(c, fs[k]))
    BY <1>6, <1>12, <2>3
  <2>5. fs[k] \in Elems(fs)
    BY DEF Elems
  <2>6. f.header = fs[k].header
    BY <1>10, <1>11, <2>3, <2>4, <2>5 DEF Headers, FileHeaders, HunkHeaders
  <2>7. PICK l \in 1 .. Len(all) : fs[k] = all[l]
    BY <1>2
  <2>8. j = l
    <3>1. all[j].header \in Nat /\ all[l].header \in Nat
      BY <1>3 DEF File
    <3>2. j < l \/ l < j \/ j = l
      OBVIOUS
    <3> QED
      BY <1>8, <2>1, <2>6, <2>7, <3>1, <3>2
  <2> QED
    BY <2>1, <2>5, <2>7, <2>8
<1>13. ASSUME NEW f \in Elems(fs) PROVE f.header \in Elems(o)
  BY <1>6 DEF Elems
<1>14. ASSUME NEW f \in Elems(fs), NEW h \in Elems(Kept(c, f)), ~ f.isBinary
       PROVE  LinesOf(c, h) \subseteq Elems(o)
  <2>1. Shows(c, f, Kept(c, f)) \subseteq Elems(o)
    BY <1>6 DEF Elems
  <2> QED
    BY <1>14, <2>1 DEF Shows, Elems
<1>15. ASSUME NEW f \in Elems(fs), NEW h \in Elems(f.hunks), h.header \in Elems(o)
       PROVE  ~ f.isBinary /\ h \in Elems(Kept(c, f))
  <2>0. PICK x \in 1 .. Len(fs) : f = fs[x]
    BY ONLY <1>15 DEF Elems
  <2>1. PICK j \in 1 .. Len(all) : f = all[j]
    BY <1>2, <2>0
  <2>2. PICK a \in 1 .. Len(f.hunks) : h = f.hunks[a]
    BY Zenon DEF Elems
  <2>3. HunkLaid(h, c, n) /\ f.header < h.header /\ f.header \in Nat
    <3>1. f \in File /\ FileLaid(f, c, n)
      BY <1>3, <2>1
    <3> QED
      BY <2>2, <3>1 DEF FileLaid, HunksLaid, File
  <2>4. h.header \in 1 .. n /\ c[h.header].kind \in HunkHeaders /\ h.header # 0
    BY <2>3 DEF HunkLaid
  <2>5. h.header \notin Elems(pre)
    <3>1. all # << >> /\ 1 \in 1 .. Len(all) /\ all[1].header = Len(pre) + 1
      <4>1. Len(all) \in Nat /\ 1 \in 1 .. Len(all)
        BY <2>1
      <4>2. all # << >>
        BY <4>1, EmptySeq
      <4> QED
        BY <1>1, <4>1, <4>2 DEF Layout
    <3>2. all[1].header <= f.header
      <4>1. all[1].header \in Nat /\ all[j].header \in Nat
        BY <1>3, <3>1 DEF File
      <4>2. j = 1 \/ 1 < j
        OBVIOUS
      <4> QED
        BY <1>8, <2>1, <3>1, <4>1, <4>2
    <3>3. Len(pre) \in Nat
      OBVIOUS
    <3>4. h.header > Len(pre)
      BY <2>3, <2>4, <3>1, <3>2, <3>3
    <3> QED
      BY <1>9, <2>4, <3>3, <3>4
  <2>6. PICK k \in 1 .. Len(fs) : h.header \in Own(fs[k]) \union Shows(c, fs[k], Kept(c, fs[k]))
    BY <1>6, <1>15, <2>4, <2>5
  <2>7. PICK g : g = fs[k]
    OBVIOUS
  <2>8. g \in Elems(fs) /\ c[g.header].kind \in FileHeaders
    BY <1>4, <2>7 DEF Elems, FileLaid, NamesLaid
  <2>9. h.header \notin Own(g)
    BY <1>10, <2>4, <2>8 DEF Headers, FileHeaders, HunkHeaders
  <2>10. PICK d \in Elems(Kept(c, g)) : ~ g.isBinary /\ d.header = h.header
    <3>1. h.header \in Shows(c, g, Kept(c, g))
      BY <2>6, <2>7, <2>9
    <3>2. c[h.header].kind \in Headers /\ h.header # 0
      BY <2>4 DEF Headers
    <3> QED
      BY <1>11, <2>8, <3>1, <3>2
  <2>11. PICK l \in 1 .. Len(all) : g = all[l]
    BY <1>2, <2>7
  <2>12. d \in Elems(g.hunks)
    BY <1>3, <2>10, <2>11, KeptOf
  <2>13. PICK b \in 1 .. Len(g.hunks) : d = g.hunks[b]
    BY <2>12 DEF Elems
  <2>14. j = l /\ a = b
    <3>1. j \in 1 .. Len(all) /\ l \in 1 .. Len(all)
      OBVIOUS
    <3>2. a \in 1 .. Len(all[j].hunks) /\ b \in 1 .. Len(all[l].hunks)
      BY <2>1, <2>11
    <3>3. all[j].hunks[a].header = all[l].hunks[b].header
      BY <2>1, <2>2, <2>10, <2>11, <2>13
    <3> QED
      BY ONLY <1>7, <3>1, <3>2, <3>3, OneHunk
  <2>15. g = f /\ d = h
    BY <2>1, <2>2, <2>11, <2>13, <2>14
  <2> QED
    BY <2>10, <2>15
<1>16. ASSUME NEW f \in Elems(fs), NEW h \in Elems(Kept(c, f)), ~ f.isBinary
       PROVE  h.header \in Elems(o)
  BY <1>14, <1>16 DEF LinesOf
<1>17. ShowsKept(c, o, all, fs)
  BY <1>12, <1>13, <1>14, <1>15, <1>16 DEF ShowsKept
<1> QED
  BY <1>1, <1>5, <1>17

\* Where in s the elements of r are.
Places(P, r, s) ==
  /\ P \in [1 .. Len(r) -> 1 .. Len(s)]
  /\ \A k \in 1 .. Len(r) : r[k] = s[P[k]]
  /\ \A k, l \in 1 .. Len(r) : k # l => P[k] # P[l]

\* The places of what is chosen.
LEMMA ChosenPlaces ==
  ASSUME NEW T, NEW s \in Seq(T), NEW r, Chosen(r, s)
  PROVE  /\ r \in Seq(T) /\ Len(r) \in Nat
         /\ \E P : Places(P, r, s)
<1>1. PICK P \in Seq(1 .. Len(s)) : Distinct(P) /\ r = [k \in 1 .. Len(P) |-> s[P[k]]]
  BY DEF Chosen
<1>2. PICK D, m : m \in Nat /\ m = Len(P) /\ D = 1 .. Len(s)
  <2>1. Len(P) \in Nat
    OBVIOUS
  <2> QED
    BY <2>1
<1>3. P \in [1 .. m -> D]
  <2>1. P \in Seq(D)
    BY <1>2
  <2> QED
    BY <1>2, <2>1
<1>4. \A k \in 1 .. m : r[k] = s[P[k]] /\ s[P[k]] \in T
  BY <1>1, <1>2, <1>3
<1>5. r \in Seq(T) /\ Len(r) = m
  <2>1. PICK q : q = r
    OBVIOUS
  <2>2. q \in [1 .. m -> T]
    BY <1>1, <1>2, <1>4, <2>1
  <2>3. q \in Seq(T) /\ Len(q) = m
    <3>1. m \in Nat
      BY <1>2
    <3>2. q \in Seq(T)
      BY ONLY <2>2, <3>1, SeqDef
    <3>3. DOMAIN q = 1 .. m
      BY ONLY <2>2
    <3> QED
      BY ONLY <3>1, <3>2, <3>3
  <2> QED
    BY ONLY <2>1, <2>3
<1>6. \A k, l \in 1 .. m : k # l => P[k] # P[l]
  BY <1>1, <1>2 DEF Distinct
<1> QED
  BY <1>2, <1>3, <1>4, <1>5, <1>6 DEF Places

\* So are the hunks of the files that are kept.
LEMMA ChosenApart ==
  ASSUME NEW all \in Seq(File), HunksApart(all), NEW fs, Chosen(fs, all)
  PROVE  HunksApart(fs)
<1>1. PICK m, D : m \in Nat /\ m = Len(fs) /\ D = 1 .. Len(all)
  BY ChosenPlaces
<1>2. \E P : Places(P, fs, all)
  BY ChosenPlaces
<1>3. PICK P \in [1 .. m -> D] :
        /\ \A k \in 1 .. m : fs[k] = all[P[k]]
        /\ \A k, l \in 1 .. m : k # l => P[k] # P[l]
  BY <1>1, <1>2 DEF Places
<1>5. ASSUME NEW j \in 1 .. m, NEW k \in 1 .. m,
             NEW a \in 1 .. Len(fs[j].hunks), NEW b \in 1 .. Len(fs[k].hunks)
      PROVE  /\ fs[j].hunks[a].header = fs[k].hunks[b].header => j = k /\ a = b
             /\ (j # k \/ a # b) => HunkLines(fs[j].hunks[a]) \intersect HunkLines(fs[k].hunks[b]) = {}
  <2>1. PICK x \in D, y \in D : x = P[j] /\ y = P[k] /\ fs[j] = all[x] /\ fs[k] = all[y]
    BY <1>3
  <2>2. x = y => j = k
    BY <1>3, <2>1
  <2>a. /\ x \in 1 .. Len(all) /\ y \in 1 .. Len(all)
        /\ a \in 1 .. Len(all[x].hunks) /\ b \in 1 .. Len(all[y].hunks)
    BY <1>1, <2>1
  <2>3. /\ all[x].hunks[a].header = all[y].hunks[b].header => x = y /\ a = b
        /\ (x # y \/ a # b) => HunkLines(all[x].hunks[a]) \intersect HunkLines(all[y].hunks[b]) = {}
    BY <2>a DEF HunksApart
  <2> QED
    BY <2>1, <2>2, <2>3
<1> QED
  BY <1>1, <1>5 DEF HunksApart

\* Files of a diff, with their hunks where they are in it.
FilesLaid(fs, c, n) ==
  fs \in Seq(File) /\ (\A k \in 1 .. Len(fs) : FileLaid(fs[k], c, n)) /\ HunksApart(fs)

AllHunks(fs)   == UNION {Elems(fs[k].hunks) : k \in 1 .. Len(fs)}
AllKept(c, fs) == UNION {Elems(Kept(c, fs[k])) : k \in 1 .. Len(fs)}

\* The hunks of a file, and those of it that are kept, are told apart.
LEMMA HunksDistinct ==
  ASSUME NEW n \in Nat, NEW c, Len(c) = n, Started(c), NEW fs, FilesLaid(fs, c, n),
         NEW k \in 1 .. Len(fs)
  PROVE  /\ fs[k].hunks \in Seq(Hunk) /\ Distinct(fs[k].hunks)
         /\ Kept(c, fs[k]) \in Seq(Hunk) /\ Distinct(Kept(c, fs[k]))
         /\ Elems(Kept(c, fs[k])) \subseteq Elems(fs[k].hunks)
<1>1. PICK f \in File : f = fs[k] /\ FileLaid(f, c, n)
  BY DEF FilesLaid
<1>2. PICK hs \in Seq(Hunk) : hs = f.hunks
  BY DEF File
<1>3. PICK w \in Nat : w = Len(hs)
  OBVIOUS
<1>4. \A a, b \in 1 .. w : hs[a].header = hs[b].header => a = b
  <2>1. \A a, b \in 1 .. Len(fs[k].hunks) : fs[k].hunks[a].header = fs[k].hunks[b].header => a = b
    BY DEF FilesLaid, HunksApart
  <2> QED
    BY <1>1, <1>2, <1>3, <2>1
<1>5. Distinct(hs)
  BY <1>3, <1>4 DEF Distinct
<1>6. PICK r : r = Kept(c, f)
  OBVIOUS
<1>7. Chosen(r, hs) /\ r \in Seq(Hunk) /\ Elems(r) \subseteq Elems(hs)
  BY <1>1, <1>2, <1>6, KeptOf
<1>8. PICK D, m : m \in Nat /\ m = Len(r) /\ D = 1 .. w
  <2>1. Len(r) \in Nat
    BY <1>7
  <2> QED
    BY <2>1
<1>9. \E P : Places(P, r, hs)
  BY <1>7, ChosenPlaces
<1>10. PICK P \in [1 .. m -> D] :
         /\ \A a \in 1 .. m : r[a] = hs[P[a]]
         /\ \A a, b \in 1 .. m : a # b => P[a] # P[b]
  BY <1>3, <1>8, <1>9 DEF Places
<1>12. ASSUME NEW a \in 1 .. m, NEW b \in 1 .. m, a # b PROVE r[a] # r[b]
  <2>1. PICK x \in D, y \in D : x = P[a] /\ y = P[b] /\ r[a] = hs[x] /\ r[b] = hs[y]
    BY <1>10
  <2>2. x # y
    BY <1>10, <1>12, <2>1
  <2>3. hs[x] # hs[y]
    BY <1>3, <1>5, <1>8, <2>2 DEF Distinct
  <2> QED
    BY <2>1, <2>3
<1>13. Distinct(r)
  BY <1>8, <1>12 DEF Distinct
<1> QED
  BY <1>1, <1>2, <1>5, <1>6, <1>7, <1>13

\* No hunk belongs to two files.
LEMMA FilesApart ==
  ASSUME NEW n \in Nat, NEW c, NEW fs, FilesLaid(fs, c, n),
         NEW j \in 1 .. Len(fs), NEW k \in 1 .. Len(fs), j # k
  PROVE  Elems(fs[j].hunks) \intersect Elems(fs[k].hunks) = {}
<1>1. ASSUME NEW h \in Elems(fs[j].hunks), h \in Elems(fs[k].hunks) PROVE FALSE
  <2>1. PICK a \in 1 .. Len(fs[j].hunks) : h = fs[j].hunks[a]
    BY DEF Elems
  <2>2. PICK b \in 1 .. Len(fs[k].hunks) : h = fs[k].hunks[b]
    BY <1>1 DEF Elems
  <2>3. fs[j].hunks[a].header = fs[k].hunks[b].header
    BY <2>1, <2>2
  <2> QED
    BY <2>3 DEF FilesLaid, HunksApart
<1> QED
  BY <1>1

\* The numbers of the files' hunks add up to that of all hunks.
LEMMA HunksCounted ==
  ASSUME NEW n \in Nat, NEW c, Len(c) = n, Started(c), NEW fs, FilesLaid(fs, c, n),
         NEW f, \A k \in 1 .. Len(fs) : f[k] = Len(fs[k].hunks)
  PROVE  IsFiniteSet(AllHunks(fs)) /\ SumOf(f, 1 .. Len(fs)) = Cardinality(AllHunks(fs))
<1>1. PICK m \in Nat : m = Len(fs)
  BY DEF FilesLaid
<1>2. PICK F : F = [k \in 1 .. m |-> Elems(fs[k].hunks)]
  OBVIOUS
<1>3. ASSUME NEW k \in 1 .. m PROVE IsFiniteSet(F[k]) /\ f[k] = Cardinality(F[k])
  <2>1. PICK hs \in Seq(Hunk) : hs = fs[k].hunks /\ Distinct(hs)
    BY <1>1, HunksDistinct
  <2>2. IsFiniteSet(Elems(hs)) /\ Cardinality(Elems(hs)) = Len(hs)
    BY <2>1, PlacesCounted
  <2> QED
    BY <1>1, <1>2, <2>1, <2>2
<1>4. \A j, k \in 1 .. m : j # k => F[j] \intersect F[k] = {}
  BY <1>1, <1>2, FilesApart
<1>5. IsFiniteSet(Parts(F, m)) /\ SumOf(f, 1 .. m) = Cardinality(Parts(F, m))
  BY <1>3, <1>4, PartsCounted
<1>6. Parts(F, m) = AllHunks(fs)
  BY <1>1, <1>2 DEF Parts, AllHunks
<1> QED
  BY <1>1, <1>5, <1>6

\* And so do those of the hunks that are kept.
LEMMA KeptCounted ==
  ASSUME NEW n \in Nat, NEW c, Len(c) = n, Started(c), NEW fs, FilesLaid(fs, c, n),
         NEW f, \A k \in 1 .. Len(fs) : f[k] = Len(Kept(c, fs[k]))
  PROVE  /\ IsFiniteSet(AllKept(c, fs)) /\ SumOf(f, 1 .. Len(fs)) = Cardinality(AllKept(c, fs))
         /\ AllKept(c, fs) \subseteq AllHunks(fs)
<1>1. PICK m \in Nat : m = Len(fs)
  BY DEF FilesLaid
<1>2. PICK F : F = [k \in 1 .. m |-> Elems(Kept(c, fs[k]))]
  OBVIOUS
<1>3. ASSUME NEW k \in 1 .. m
      PROVE  IsFiniteSet(F[k]) /\ f[k] = Cardinality(F[k]) /\ F[k] \subseteq Elems(fs[k].hunks)
  <2>1. PICK hs \in Seq(Hunk) : hs = Kept(c, fs[k]) /\ Distinct(hs) /\ Elems(hs) \subseteq Elems(fs[k].hunks)
    BY <1>1, HunksDistinct
  <2>2. IsFiniteSet(Elems(hs)) /\ Cardinality(Elems(hs)) = Len(hs)
    BY <2>1, PlacesCounted
  <2> QED
    BY <1>1, <1>2, <2>1, <2>2
<1>4. \A j, k \in 1 .. m : j # k => F[j] \intersect F[k] = {}
  <2>1. \A j, k \in 1 .. m : j # k => Elems(fs[j].hunks) \intersect Elems(fs[k].hunks) = {}
    BY <1>1, FilesApart
  <2> QED
    BY <1>3, <2>1
<1>5. IsFiniteSet(Parts(F, m)) /\ SumOf(f, 1 .. m) = Cardinality(Parts(F, m))
  BY <1>3, <1>4, PartsCounted
<1>6. Parts(F, m) = AllKept(c, fs)
  BY <1>1, <1>2 DEF Parts, AllKept
<1>7. AllKept(c, fs) \subseteq AllHunks(fs)
  BY <1>1, <1>2, <1>3 DEF AllKept, AllHunks
<1> QED
  BY <1>1, <1>5, <1>6, <1>7

\* The lines of some hunks that are of one kind.
KindLines(c, hs, kind) == UNION {OfKind(c, h, kind) : h \in hs}

\* A file has as many additions and deletions as its hunks have such lines.
LEMMA FileLines ==
  ASSUME NEW n \in Nat, NEW c, Len(c) = n, Started(c), NEW fs, FilesLaid(fs, c, n),
         NEW k \in 1 .. Len(fs)
  PROVE  /\ \A kind : IsFiniteSet(KindLines(c, Elems(fs[k].hunks), kind))
         /\ Additions(fs[k]) = Cardinality(KindLines(c, Elems(fs[k].hunks), "plus"))
         /\ Deletions(fs[k]) = Cardinality(KindLines(c, Elems(fs[k].hunks), "minus"))
<1>1. PICK f \in File : f = fs[k] /\ FileLaid(f, c, n)
  BY DEF FilesLaid
<1>2. PICK hs \in Seq(Hunk) : hs = f.hunks
  BY DEF File
<1>3. PICK w \in Nat : w = Len(hs) /\ DOMAIN hs = 1 .. w
  OBVIOUS
<1>4. \A a \in 1 .. w : HunkLaid(hs[a], c, n) /\ hs[a] \in Hunk
  BY <1>1, <1>2, <1>3 DEF FileLaid, HunksLaid
<1>5. \A a, b \in 1 .. w : a # b => HunkLines(hs[a]) \intersect HunkLines(hs[b]) = {}
  <2>1. ASSUME NEW a \in 1 .. Len(fs[k].hunks), NEW b \in 1 .. Len(fs[k].hunks), a # b
        PROVE  HunkLines(fs[k].hunks[a]) \intersect HunkLines(fs[k].hunks[b]) = {}
    <3>1. HunksApart(fs)
      BY DEF FilesLaid
    <3> QED
      BY <2>1, <3>1, Zenon DEF HunksApart
  <2> QED
    BY <1>1, <1>2, <1>3, <2>1
<1>6. ASSUME NEW kind, NEW g, \A a \in 1 .. w : g[a] = Cardinality(OfKind(c, hs[a], kind))
      PROVE  /\ IsFiniteSet(KindLines(c, Elems(hs), kind))
             /\ SumOf(g, 1 .. w) = Cardinality(KindLines(c, Elems(hs), kind))
  <2>1. PICK F : F = [a \in 1 .. w |-> OfKind(c, hs[a], kind)]
    OBVIOUS
  <2>2. ASSUME NEW a \in 1 .. w PROVE IsFiniteSet(F[a]) /\ g[a] = Cardinality(F[a])
    <3>1. hs[a].header \in Nat /\ hs[a].end \in Nat
      BY <1>4 DEF Hunk
    <3>2. IsFiniteSet(HunkLines(hs[a]))
      BY <3>1, HunkLinesFinite
    <3>3. OfKind(c, hs[a], kind) \subseteq HunkLines(hs[a])
      BY DEF OfKind
    <3>4. IsFiniteSet(OfKind(c, hs[a], kind))
      BY <3>2, <3>3, FS_Subset
    <3> QED
      BY <1>6, <2>1, <3>4
  <2>3. \A a, b \in 1 .. w : a # b => F[a] \intersect F[b] = {}
    <3>1. \A a \in 1 .. w : F[a] \subseteq HunkLines(hs[a])
      BY <2>1 DEF OfKind
    <3> QED
      BY <1>5, <3>1
  <2>4. IsFiniteSet(Parts(F, w)) /\ SumOf(g, 1 .. w) = Cardinality(Parts(F, w))
    BY <2>2, <2>3, PartsCounted
  <2>5. Parts(F, w) = KindLines(c, Elems(hs), kind)
    BY <1>3, <2>1 DEF Parts, KindLines, Elems
  <2> QED
    BY <2>4, <2>5
<1>7. \A kind : IsFiniteSet(KindLines(c, Elems(hs), kind))
  <2> TAKE kind
  <2>1. PICK g : g = [a \in 1 .. w |-> Cardinality(OfKind(c, hs[a], kind))]
    OBVIOUS
  <2>2. \A a \in 1 .. w : g[a] = Cardinality(OfKind(c, hs[a], kind))
    BY <2>1
  <2> QED
    BY <1>6, <2>2
<1>8. PICK ga, gd : /\ ga = [a \in DOMAIN hs |-> hs[a].additions]
                    /\ gd = [a \in DOMAIN hs |-> hs[a].deletions]
  OBVIOUS
<1>9. \A a \in 1 .. w : /\ ga[a] = Cardinality(OfKind(c, hs[a], "plus"))
                        /\ gd[a] = Cardinality(OfKind(c, hs[a], "minus"))
  BY <1>3, <1>4, <1>8 DEF HunkLaid
<1>10. /\ SumOf(ga, 1 .. w) = Cardinality(KindLines(c, Elems(hs), "plus"))
       /\ SumOf(gd, 1 .. w) = Cardinality(KindLines(c, Elems(hs), "minus"))
  BY <1>6, <1>9
<1>11. Additions(f) = SumOf(ga, 1 .. w) /\ Deletions(f) = SumOf(gd, 1 .. w)
  <2>1. Additions(f) = AddsOf(hs) /\ Deletions(f) = SubsOf(hs)
    BY <1>2, FileChanges
  <2>2. AddsOf(hs) = SumOf(ga, 1 .. w) /\ SubsOf(hs) = SumOf(gd, 1 .. w)
    BY <1>3, <1>8 DEF AddsOf, SubsOf
  <2> QED
    BY <2>1, <2>2
<1> QED
  BY <1>1, <1>2, <1>7, <1>10, <1>11

\* And the files together as many as all hunks have.
LEMMA LinesCounted ==
  ASSUME NEW n \in Nat, NEW c, Len(c) = n, Started(c), NEW fs, FilesLaid(fs, c, n), NEW kind, NEW g,
         \A k \in 1 .. Len(fs) : g[k] = Cardinality(KindLines(c, Elems(fs[k].hunks), kind))
  PROVE  SumOf(g, 1 .. Len(fs)) = Cardinality(KindLines(c, AllHunks(fs), kind))
<1>1. PICK m \in Nat : m = Len(fs)
  BY DEF FilesLaid
<1>2. PICK F : F = [k \in 1 .. m |-> KindLines(c, Elems(fs[k].hunks), kind)]
  OBVIOUS
<1>3. \A k \in 1 .. m : IsFiniteSet(F[k]) /\ g[k] = Cardinality(F[k])
  BY <1>1, <1>2, FileLines
<1>4. \A j, k \in 1 .. m : j # k => F[j] \intersect F[k] = {}
  <2> SUFFICES ASSUME NEW j \in 1 .. m, NEW k \in 1 .. m, j # k,
                      NEW i \in F[j], i \in F[k]
               PROVE  FALSE
    OBVIOUS
  <2>1. PICK a \in 1 .. Len(fs[j].hunks) : i \in HunkLines(fs[j].hunks[a])
    BY <1>2 DEF KindLines, OfKind, Elems
  <2>2. PICK b \in 1 .. Len(fs[k].hunks) : i \in HunkLines(fs[k].hunks[b])
    BY <1>2 DEF KindLines, OfKind, Elems
  <2>3. HunkLines(fs[j].hunks[a]) \intersect HunkLines(fs[k].hunks[b]) = {}
    BY <1>1 DEF FilesLaid, HunksApart
  <2> QED
    BY <2>1, <2>2, <2>3
<1>5. SumOf(g, 1 .. m) = Cardinality(Parts(F, m))
  BY <1>3, <1>4, PartsCounted
<1>6. Parts(F, m) = KindLines(c, AllHunks(fs), kind)
  BY <1>1, <1>2 DEF Parts, KindLines, AllHunks
<1> QED
  BY <1>1, <1>5, <1>6

\* CountsMatchOutput of a diff that is compressed, and what comes of it.
CountsOf(input, r) ==
  LET parsed  == parseDiff(input).files
      shows   == {r.output[k] : k \in DOMAIN r.output}
      files   == {parsed[k] : k \in {j \in DOMAIN parsed : parsed[j].header \in shows}}
      hunks   == UNION {{f.hunks[j] : j \in DOMAIN f.hunks} : f \in files}
      omitted == {h \in hunks : h.header \notin shows}
      counted(kind) ==
        {i \in UNION {HunkLines(h) : h \in hunks} :
           /\ input[i].kind = kind
           /\ i \in shows \/ \E h \in omitted : i \in HunkLines(h)}
  IN /\ r.kept + r.removed = Cardinality(hunks)
     /\ (\A f \in files : ~ f.isBinary) =>
          /\ r.removed = Cardinality(omitted)
          /\ r.additions = Cardinality(counted("plus"))
          /\ r.deletions = Cardinality(counted("minus"))

\* The lines of a kind that are changes are shown with their hunk.
LEMMA ChangesKept ==
  ASSUME NEW c, NEW h, NEW kind \in Signed, h.header \in Nat, h.end \in Nat
  PROVE  OfKind(c, h, kind) \subseteq LinesOf(c, h)
<1> SUFFICES ASSUME NEW i \in OfKind(c, h, kind) PROVE i \in KeptLines(c, h)
  BY DEF LinesOf
<1>1. i \in HunkLines(h) /\ c[i].kind \in Signed /\ i \in Nat
  BY HunkLinesFinite DEF OfKind
<1>2. i - i <= MaxContextLines
  <2>1. MaxContextLines \in Nat
    BY DiffAssumption
  <2> QED
    BY <1>1, <2>1
<1> QED
  BY <1>1, <1>2 DEF KeptLines

\* The counts of a compressed diff.
LEMMA CountsMatch ==
  ASSUME NEW n \in Nat, NEW c, Len(c) = n, Started(c)
  PROVE  CountsOf(c, Compressed(c, parseDiff(c)))
<1>1. PICK p : p = parseDiff(c)
  OBVIOUS
<1>2. p \in Parse /\ Layout(p, c, n)
  BY <1>1, DiffLaid
<1>3. PICK pre, all : pre \in Seq(Nat) /\ all \in Seq(File) /\ pre = p.pre /\ all = p.files
  BY <1>2 DEF Parse
<1>4. PICK fs : fs = CappedFiles(all)
  OBVIOUS
<1>5. /\ Chosen(fs, all) /\ fs \in Seq(File)
      /\ \A k \in 1 .. Len(fs) : \E j \in 1 .. Len(all) : fs[k] = all[j]
  <2>1. Chosen(fs, all)
    BY <1>3, <1>4, CappedAre
  <2>2. all \in Seq(File)
    BY <1>3
  <2>3. fs \in Seq(File)
    BY ONLY <2>1, <2>2, ChosenType
  <2>4. \A k \in 1 .. Len(fs) : \E j \in 1 .. Len(all) : fs[k] = all[j]
    BY ONLY <2>1, <2>2, ChosenType
  <2> QED
    BY ONLY <2>1, <2>3, <2>4
<1>6. FilesLaid(fs, c, n)
  <2>1. HunksApart(all)
    BY <1>2, <1>3, NoneShared
  <2>2. HunksApart(fs)
    BY <1>3, <1>5, <2>1, ChosenApart
  <2>3. \A j \in 1 .. Len(all) : FileLaid(all[j], c, n)
    BY <1>2, <1>3 DEF Layout
  <2> QED
    BY <1>5, <2>2, <2>3 DEF FilesLaid
<1>7. PICK m \in Nat : m = Len(fs) /\ DOMAIN fs = 1 .. m
  BY <1>5
<1>8. PICK small : small = [k \in DOMAIN fs |-> CompressFile(c, fs[k])]
  OBVIOUS
<1>9. PICK o : o = formatOutput(pre, small)
  OBVIOUS
<1>10. ShowsKept(c, o, all, fs)
  <2>1. ShowsKept(c, formatOutput(p.pre, small), p.files, fs)
    BY <1>2, <1>3, <1>4, <1>8, KeptShown
  <2> QED
    BY ONLY <1>3, <1>9, <2>1
<1>11. o \in Seq(Nat)
  <2>1. \A k \in 1 .. Len(fs) : Begun(c, fs[k])
    BY <1>6, KeptOf DEF FilesLaid
  <2>2. TextOfDiff(formatOutput(pre, small), c, pre, fs)
    BY <1>3, <1>5, <1>8, <2>1, DiffText
  <2> QED
    BY <1>9, <2>2 DEF TextOfDiff
<1>12. PICK r : r = Compressed(c, p)
  OBVIOUS
<1>13. PICK small1, adds, subs, kept, removed, whole :
         /\ adds = [k \in 1 .. m |-> Additions(fs[k])] /\ subs = [k \in 1 .. m |-> Deletions(fs[k])]
         /\ kept = [k \in 1 .. m |-> Len(small[k].hunks)] /\ small1 = small
         /\ removed = [k \in 1 .. m |-> Len(fs[k].hunks) - Len(small[k].hunks)]
         /\ whole = [k \in 1 .. m |-> Len(fs[k].hunks)]
  OBVIOUS
<1>14. /\ r.output = o
       /\ r.additions = SumOf(adds, 1 .. m) /\ r.deletions = SumOf(subs, 1 .. m)
       /\ r.kept = SumOf(kept, 1 .. m) /\ r.removed = SumOf(removed, 1 .. m)
  BY <1>3, <1>4, <1>7, <1>8, <1>9, <1>12, <1>13 DEF Compressed, Sum
<1>15. \A k \in 1 .. m : /\ kept[k] = Len(Kept(c, fs[k])) /\ kept[k] \in Nat
                         /\ whole[k] = Len(fs[k].hunks) /\ whole[k] \in Nat
                         /\ removed[k] = whole[k] - kept[k]
  <2> SUFFICES ASSUME NEW k \in 1 .. m
               PROVE  /\ kept[k] = Len(Kept(c, fs[k])) /\ kept[k] \in Nat
                      /\ whole[k] = Len(fs[k].hunks) /\ whole[k] \in Nat
                      /\ removed[k] = whole[k] - kept[k]
    OBVIOUS
  <2>1. PICK hs, ks : /\ hs \in Seq(Hunk) /\ ks \in Seq(Hunk) /\ hs = fs[k].hunks /\ ks = Kept(c, fs[k])
    BY <1>6, <1>7, HunksDistinct
  <2>2. PICK f \in File : f = fs[k]
    BY <1>5, <1>7
  <2>3. small[k].hunks = [a \in DOMAIN ks |-> reduceContext(c, ks[a])]
    <3>1. small[k] = Trimmed(c, f, ks)
      BY <1>7, <1>8, <2>1, <2>2 DEF CompressFile, Trimmed, Kept
    <3> QED
      BY <2>2, <3>1 DEF Trimmed, File
  <2>4. Len(small[k].hunks) = Len(ks) /\ Len(ks) \in Nat /\ Len(hs) \in Nat
    <3>1. PICK w \in Nat : w = Len(ks) /\ DOMAIN ks = 1 .. w
      BY <2>1
    <3>2. PICK t : t = [a \in 1 .. w |-> reduceContext(c, ks[a])]
      OBVIOUS
    <3>3. PICK T : T = {t[a] : a \in 1 .. w}
      OBVIOUS
    <3>4. t \in [1 .. w -> T]
      BY <3>2, <3>3
    <3>5. Len(t) = w
      BY <3>4, SeqDef
    <3>6. small[k].hunks = t
      BY <2>3, <3>1, <3>2
    <3> QED
      BY <2>1, <3>1, <3>5, <3>6
  <2> QED
    BY <1>13, <2>1, <2>4
<1>16. PICK H, K : H = AllHunks(fs) /\ K = AllKept(c, fs)
  OBVIOUS
<1>17. /\ IsFiniteSet(H) /\ SumOf(whole, 1 .. m) = Cardinality(H)
       /\ IsFiniteSet(K) /\ SumOf(kept, 1 .. m) = Cardinality(K) /\ K \subseteq H
  <2>1. IsFiniteSet(H) /\ SumOf(whole, 1 .. m) = Cardinality(H)
    <3>1. \A k \in 1 .. Len(fs) : whole[k] = Len(fs[k].hunks)
      BY <1>7, <1>15
    <3> QED
      BY <1>6, <1>7, <1>16, <3>1, HunksCounted
  <2>2. IsFiniteSet(K) /\ SumOf(kept, 1 .. m) = Cardinality(K) /\ K \subseteq H
    <3>1. \A k \in 1 .. Len(fs) : kept[k] = Len(Kept(c, fs[k]))
      BY <1>7, <1>15
    <3> QED
      BY <1>6, <1>7, <1>16, <3>1, KeptCounted
  <2> QED
    BY <2>1, <2>2
<1>18. r.kept = Cardinality(K) /\ r.removed = Cardinality(H) - Cardinality(K)
  <2>1. IsFiniteSet(1 .. m)
    BY FS_Interval
  <2>2. \A k \in 1 .. m : whole[k] \in Int /\ kept[k] \in Int /\ removed[k] = whole[k] - kept[k]
    BY <1>15
  <2>3. SumOf(removed, 1 .. m) = SumOf(whole, 1 .. m) - SumOf(kept, 1 .. m)
    BY ONLY <2>1, <2>2, SumOfDifferences
  <2> QED
    BY <1>14, <1>17, <2>3
<1>19. /\ r.additions = Cardinality(KindLines(c, H, "plus"))
       /\ r.deletions = Cardinality(KindLines(c, H, "minus"))
  <2>1. \A k \in 1 .. m : /\ adds[k] = Cardinality(KindLines(c, Elems(fs[k].hunks), "plus"))
                          /\ subs[k] = Cardinality(KindLines(c, Elems(fs[k].hunks), "minus"))
    BY <1>6, <1>7, <1>13, FileLines
  <2>2. /\ SumOf(adds, 1 .. m) = Cardinality(KindLines(c, AllHunks(fs), "plus"))
        /\ SumOf(subs, 1 .. m) = Cardinality(KindLines(c, AllHunks(fs), "minus"))
    BY <1>6, <1>7, <2>1, LinesCounted
  <2> QED
    BY <1>14, <1>16, <2>2
\* The sets that the property names.
<1> DEFINE shows   == {o[k] : k \in DOMAIN o}
           files   == {all[k] : k \in {j \in DOMAIN all : all[j].header \in shows}}
           hunks   == UNION {{f.hunks[j] : j \in DOMAIN f.hunks} : f \in files}
           omitted == {h \in hunks : h.header \notin shows}
           counted(kind) ==
             {i \in UNION {HunkLines(h) : h \in hunks} :
                /\ c[i].kind = kind
                /\ i \in shows \/ \E h \in omitted : i \in HunkLines(h)}
<1>20. shows = Elems(o)
  BY <1>11 DEF Elems
<1>21. files = Elems(fs)
  <2>1. DOMAIN all = 1 .. Len(all)
    BY <1>3
  <2>2. files = {f \in Elems(all) : f.header \in Elems(o)}
    BY <1>20, <2>1 DEF Elems
  <2>3. Elems(fs) \subseteq Elems(all)
    BY <1>5 DEF Elems
  <2> HIDE DEF files
  <2> QED
    BY <1>10, <2>2, <2>3 DEF ShowsKept
<1> HIDE DEF shows, files
<1>22. hunks = H
  <2>1. ASSUME NEW f \in files PROVE {f.hunks[j] : j \in DOMAIN f.hunks} = Elems(f.hunks)
    <3>1. PICK k \in 1 .. m : f = fs[k]
      BY <1>7, <1>21 DEF Elems
    <3>2. PICK hs \in Seq(Hunk) : hs = f.hunks
      BY <1>6, <1>7, <3>1, HunksDistinct
    <3>3. DOMAIN hs = 1 .. Len(hs)
      OBVIOUS
    <3> QED
      BY <3>2, <3>3 DEF Elems
  <2>2. hunks = UNION {Elems(f.hunks) : f \in files}
    <3>1. ASSUME NEW h \in hunks PROVE h \in UNION {Elems(f.hunks) : f \in files}
      <4>1. PICK f \in files : h \in {f.hunks[j] : j \in DOMAIN f.hunks}
        BY <3>1
      <4> QED
        BY <2>1, <4>1
    <3>2. ASSUME NEW h \in UNION {Elems(f.hunks) : f \in files} PROVE h \in hunks
      <4>1. PICK f \in files : h \in Elems(f.hunks)
        BY <3>2
      <4>2. h \in {f.hunks[j] : j \in DOMAIN f.hunks}
        BY <2>1, <4>1
      <4> QED
        BY <4>1, <4>2
    <3> HIDE DEF hunks
    <3> QED
      BY <3>1, <3>2
  <2>3. H = UNION {Elems(f.hunks) : f \in Elems(fs)}
    <3>1. ASSUME NEW h \in H PROVE h \in UNION {Elems(f.hunks) : f \in Elems(fs)}
      <4>1. PICK k \in 1 .. Len(fs) : h \in Elems(fs[k].hunks)
        BY ONLY <1>16, <3>1 DEF AllHunks
      <4>2. fs[k] \in Elems(fs)
        BY DEF Elems
      <4> QED
        BY <4>1, <4>2
    <3>2. ASSUME NEW h \in UNION {Elems(f.hunks) : f \in Elems(fs)} PROVE h \in H
      <4>1. PICK f \in Elems(fs) : h \in Elems(f.hunks)
        BY <3>2
      <4>2. PICK k \in 1 .. Len(fs) : f = fs[k]
        BY <4>1 DEF Elems
      <4> QED
        BY <1>16, <4>1, <4>2 DEF AllHunks
    <3> QED
      BY <3>1, <3>2
  <2> QED
    BY <1>21, <2>2, <2>3
<1> HIDE DEF hunks
<1>23. r.kept + r.removed = Cardinality(hunks)
  <2>1. PICK x, y : x \in Nat /\ y \in Nat /\ x = Cardinality(H) /\ y = Cardinality(K)
    BY <1>17, FS_CardinalityType
  <2> QED
    BY <1>18, <1>22, <2>1
<1>24. ASSUME \A f \in files : ~ f.isBinary
       PROVE  /\ r.removed = Cardinality(omitted)
              /\ counted("plus") = KindLines(c, H, "plus")
              /\ counted("minus") = KindLines(c, H, "minus")
  <2>1. \A h \in H : h.header \in shows <=> h \in K
    <3> SUFFICES ASSUME NEW h \in H PROVE h.header \in shows <=> h \in K
      OBVIOUS
    <3>1. PICK k \in 1 .. m : h \in Elems(fs[k].hunks)
      BY <1>7, <1>16 DEF AllHunks
    <3>2. fs[k] \in Elems(fs) /\ ~ fs[k].isBinary
      BY <1>7, <1>21, <1>24 DEF Elems
    <3>3. h.header \in shows <=> h \in Elems(Kept(c, fs[k]))
      BY <1>10, <1>20, <3>1, <3>2 DEF ShowsKept
    <3>4. h \in Elems(Kept(c, fs[k])) => h \in K
      BY <1>7, <1>16 DEF AllKept
    <3>5. ASSUME h \in K PROVE h \in Elems(Kept(c, fs[k]))
      <4>1. PICK j \in 1 .. m : h \in Elems(Kept(c, fs[j]))
        BY <1>7, <1>16, <3>5 DEF AllKept
      <4>2. h \in Elems(fs[j].hunks)
        BY <1>6, <1>7, <4>1, HunksDistinct
      <4>3. j = k
        BY <1>6, <1>7, <3>1, <4>2, FilesApart
      <4> QED
        BY <4>1, <4>3
    <3> QED
      BY <3>3, <3>4, <3>5
  <2>2. omitted = H \ K
    BY <1>22, <2>1
  <2>3. Cardinality(H \ K) = Cardinality(H) - Cardinality(K)
    <3>1. H \intersect K = K
      BY <1>17
    <3>2. Cardinality(H \ K) = Cardinality(H) - Cardinality(H \intersect K)
      BY <1>17, FS_Difference
    <3> QED
      BY <3>1, <3>2
  <2>4. ASSUME NEW kind \in {"plus", "minus"}
        PROVE  counted(kind) = KindLines(c, H, kind)
    <3>1. counted(kind) \subseteq KindLines(c, H, kind)
      BY <1>22 DEF KindLines, OfKind
    <3>2. ASSUME NEW i \in KindLines(c, H, kind) PROVE i \in counted(kind)
      <4>1. PICK h \in H : i \in OfKind(c, h, kind)
        BY DEF KindLines
      <4>2. i \in HunkLines(h) /\ c[i].kind = kind
        BY <4>1 DEF OfKind
      <4>3. CASE h \in K
        <5>1. PICK k \in 1 .. m : h \in Elems(Kept(c, fs[k]))
          BY <1>7, <1>16, <4>3 DEF AllKept
        <5>2. fs[k] \in Elems(fs) /\ ~ fs[k].isBinary
          BY <1>7, <1>21, <1>24 DEF Elems
        <5>3. LinesOf(c, h) \subseteq shows
          BY <1>10, <1>20, <5>1, <5>2 DEF ShowsKept
        <5>4. h.header \in Nat /\ h.end \in Nat
          <6>1. PICK ks \in Seq(Hunk) : ks = Kept(c, fs[k])
            BY <1>6, <1>7, HunksDistinct
          <6>2. h \in Hunk
            BY <5>1, <6>1 DEF Elems
          <6> QED
            BY <6>2 DEF Hunk
        <5>5. i \in shows
          BY <4>1, <5>3, <5>4, ChangesKept DEF Signed, Added, Removed
        <5> QED
          BY <1>22, <4>2, <5>5
      <4>4. CASE h \notin K
        BY <1>22, <2>2, <4>2, <4>4
      <4> QED
        BY <4>3, <4>4
    <3> QED
      BY <3>1, <3>2
  <2> QED
    BY <1>18, <2>2, <2>3, <2>4
<1>25. CountsOf(c, r)
  <2>1. CountsOf(c, r) <=>
          /\ r.kept + r.removed = Cardinality(hunks)
          /\ (\A f \in files : ~ f.isBinary) =>
               /\ r.removed = Cardinality(omitted)
               /\ r.additions = Cardinality(counted("plus"))
               /\ r.deletions = Cardinality(counted("minus"))
    BY <1>1, <1>3, <1>14 DEF CountsOf, hunks, files, shows
  <2> QED
    BY <1>19, <1>23, <1>24, <2>1
<1> QED
  BY <1>1, <1>12, <1>25

\* What is reported of a diff before it is done, and when it is.
CountInv == (stage # "done" => ~ diff.cacheKey) /\ CountsMatchOutput

\* What DiffCompresses reports is what it stashes and shows.
LEMMA CompressesCounts ==
  ASSUME Reach, CountInv, DiffCompresses
  PROVE  CountInv'
<1>1. wire \in Seq(WireLines) /\ stage' = "done"
  BY DEF Reach, DiffCompresses
<1>2. PICK n \in Nat : n = Len(wire)
  BY <1>1
<1>3. diff' = CompressWithStore(wire) /\ diff'.cacheKey
  BY DEF DiffCompresses, Accepts
<1>4. diff' = Compressed(wire, parseDiff(wire))
  <2>1. PassThrough(wire).cacheKey = FALSE
    BY DEF PassThrough
  <2> QED
    BY <1>3, <2>1 DEF CompressWithStore
<1>5. stash'["diff"] = wire
  BY <1>3 DEF DiffCompresses
<1>6. CountsOf(wire, Compressed(wire, parseDiff(wire)))
  BY <1>1, <1>2, WireStarts, CountsMatch
<1>7. CountsOf(stash'["diff"], diff')
  BY ONLY <1>4, <1>5, <1>6
<1>8. CountsMatchOutput' <=> (stage' = "done" /\ diff'.cacheKey => CountsOf(stash'["diff"], diff'))
  BY DEF CountsMatchOutput, CountsOf
<1> QED
  BY <1>1, <1>7, <1>8 DEF CountInv

\* What the footer says of files, hunks and changed lines is true of the text
\* above it: the hunks that are kept and those that are cut make up the files
\* shown, and the changes counted are the ones shown or cut
\* (diffcompressor.go:190-226, 1182-1199).
THEOREM CountsAreTrue == Spec => []CountsMatchOutput
<1>1. Init => CountInv
  BY DEF Init, CountInv, CountsMatchOutput, PassThrough
<1>2. Reach /\ CountInv /\ [Next]_vars => CountInv'
  <2> SUFFICES ASSUME Reach, CountInv, [Next]_vars PROVE CountInv'
    OBVIOUS
  <2>1. ASSUME NEW k \in Chunks, Receive(k) PROVE CountInv'
    BY <2>1 DEF Receive, CountInv, CountsMatchOutput
  <2>2. CASE NoiseLeaves
    BY <2>2 DEF NoiseLeaves, CountInv, CountsMatchOutput
  <2>3. CASE NoiseDrops
    BY <2>3 DEF NoiseDrops, CountInv, CountsMatchOutput
  <2>4. CASE DiffLeaves
    BY <2>4 DEF DiffLeaves, CountInv, CountsMatchOutput
  <2>5. CASE DiffCompresses
    BY <2>5, CompressesCounts
  <2>6. CASE UNCHANGED vars
    <3>1. stage' = stage /\ diff' = diff /\ stash' = stash
      BY <2>6 DEF vars
    <3>2. CountsMatchOutput <=> (stage = "done" /\ diff.cacheKey => CountsOf(stash["diff"], diff))
      BY DEF CountsMatchOutput, CountsOf
    <3>3. CountsMatchOutput' <=> (stage' = "done" /\ diff'.cacheKey => CountsOf(stash'["diff"], diff'))
      BY DEF CountsMatchOutput, CountsOf
    <3>4. CountsMatchOutput => CountsMatchOutput'
      BY ONLY <3>1, <3>2, <3>3
    <3> QED
      BY <3>1, <3>4 DEF CountInv
  <2> QED
    BY <2>1, <2>2, <2>3, <2>4, <2>5, <2>6 DEF Next
<1>3. CountInv => CountsMatchOutput
  BY DEF CountInv
<1> QED
  BY <1>1, <1>2, <1>3, ReachInvariant, PTL DEF Spec

-----------------------------------------------------------------------------
(* WholeHunks: what diff_noise leaves *)

\* Line i is below the hunk header h in one file.
Under(c, h, i) ==
  /\ h \in 1 .. i - 1 /\ i \in 1 .. Len(c) /\ c[h].kind \in HunkHeaders
  /\ \A m \in h .. i : c[m].kind \notin FileHeaders

\* The lines of c that s lists are in their order.
Ascends(s) == \A k, l \in 1 .. Len(s) : k < l /\ s[k] # 0 /\ s[l] # 0 => s[k] < s[l]

\* When line i or the one above it is at place k of s, both are, one after the other.
NextTo(s, k, i) ==
  /\ s[k] = i => k > 1 /\ s[k - 1] = i - 1
  /\ s[k] = i - 1 => k < Len(s) /\ s[k + 1] = i

\* So are the lines below hunk headers.
Adjoins(c, s) ==
  \A h \in Nat, i \in Nat : Under(c, h, i) => \A k \in 1 .. Len(s) : NextTo(s, k, i)

\* Places that follow each other in one sequence do so in all of them.
PlacesFollow(P, s, flat) ==
  \A k \in 1 .. Len(flat) : \A j, t \in Nat : P[k] = <<j, t>> =>
    /\ flat[k] = s[j][t]
    /\ t < Len(s[j]) => k < Len(flat) /\ P[k + 1] = <<j, t + 1>>
    /\ t > 1 => k > 1 /\ P[k - 1] = <<j, t - 1>>

\* So do those of Placed.
LEMMA PlacesAdjoin ==
  ASSUME NEW T, NEW n \in Nat, NEW s \in Lists(n, T), NEW flat \in Seq(T), NEW P,
         Placed(P, s, n, flat)
  PROVE  PlacesFollow(P, s, flat)
<1> SUFFICES ASSUME NEW k \in 1 .. Len(flat), NEW j \in Nat, NEW t \in Nat, P[k] = <<j, t>>
             PROVE  /\ flat[k] = s[j][t]
                    /\ t < Len(s[j]) => k < Len(flat) /\ P[k + 1] = <<j, t + 1>>
                    /\ t > 1 => k > 1 /\ P[k - 1] = <<j, t - 1>>
  BY DEF PlacesFollow
<1>1. PICK m \in Nat : m = Len(flat)
  OBVIOUS
<1>2. /\ \A x \in 1 .. m : /\ P[x] \in Nat \X Nat
                           /\ P[x][1] \in 1 .. n /\ P[x][2] \in 1 .. Len(s[P[x][1]])
                           /\ flat[x] = s[P[x][1]][P[x][2]]
      /\ \A x, y \in 1 .. m : x < y =>
           P[x][1] < P[y][1] \/ (P[x][1] = P[y][1] /\ P[x][2] < P[y][2])
      /\ \A x \in 1 .. n : \A y \in 1 .. Len(s[x]) : \E z \in 1 .. m : P[z] = <<x, y>>
  BY <1>1 DEF Placed
<1>3. /\ j \in 1 .. n /\ t \in 1 .. Len(s[j]) /\ flat[k] = s[j][t] /\ j \in Nat /\ t \in Nat
  <2>1. P[k][1] = j /\ P[k][2] = t
    OBVIOUS
  <2> QED
    BY <1>1, <1>2, <2>1
<1>4. PICK w \in Nat : w = Len(s[j])
  BY <1>3 DEF Lists
\* Places have an order of their own.
<1>5. ASSUME NEW x \in 1 .. m, NEW y \in 1 .. m,
             P[x][1] < P[y][1] \/ (P[x][1] = P[y][1] /\ P[x][2] < P[y][2])
      PROVE  x < y
  <2>1. P[x] \in Nat \X Nat /\ P[y] \in Nat \X Nat
    BY <1>2
  <2>2. PICK a \in Nat, b \in Nat, d \in Nat, e \in Nat :
          a = P[x][1] /\ b = P[x][2] /\ d = P[y][1] /\ e = P[y][2]
    BY <2>1
  <2>3. a < d \/ (a = d /\ b < e)
    BY <1>5, <2>2
  <2>4. y < x => d < a \/ (d = a /\ e < b)
    BY <1>2, <2>2
  <2>5. x # y
    BY <2>2, <2>3
  <2>6. ~ (y < x)
    BY <2>3, <2>4
  <2> QED
    BY <1>1, <2>5, <2>6
<1>6. ASSUME t < w PROVE k < m /\ P[k + 1] = <<j, t + 1>>
  <2>1. t + 1 \in 1 .. Len(s[j])
    BY <1>3, <1>4, <1>6
  <2>2. PICK z \in 1 .. m : P[z] = <<j, t + 1>>
    BY <1>2, <1>3, <2>1
  <2>3. k < z
    <3>1. P[k][1] = j /\ P[k][2] = t /\ P[z][1] = j /\ P[z][2] = t + 1
      BY <2>2
    <3> QED
      BY <1>1, <1>3, <1>5, <3>1
  <2>4. z = k + 1
    <3> SUFFICES ASSUME z # k + 1 PROVE FALSE
      OBVIOUS
    <3>1. k + 1 \in 1 .. m /\ k < k + 1 /\ k + 1 < z
      BY <1>1, <2>3
    <3>2. PICK a \in Nat, b \in Nat : a = P[k + 1][1] /\ b = P[k + 1][2]
      BY <1>2, <3>1
    <3>3. j < a \/ (j = a /\ t < b)
      <4>1. P[k][1] = j /\ P[k][2] = t
        OBVIOUS
      <4> QED
        BY <1>1, <1>2, <3>1, <3>2, <4>1
    <3>4. a < j \/ (a = j /\ b < t + 1)
      <4>1. P[z][1] = j /\ P[z][2] = t + 1
        BY <2>2
      <4> QED
        BY <1>2, <3>1, <3>2, <4>1
    <3> QED
      BY <1>3, <3>2, <3>3, <3>4
  <2> QED
    BY <1>1, <2>2, <2>3, <2>4
<1>7. ASSUME t > 1 PROVE k > 1 /\ P[k - 1] = <<j, t - 1>>
  <2>1. t - 1 \in 1 .. Len(s[j])
    BY <1>3, <1>4, <1>7
  <2>2. PICK z \in 1 .. m : P[z] = <<j, t - 1>>
    BY <1>2, <1>3, <2>1
  <2>3. z < k
    <3>1. P[k][1] = j /\ P[k][2] = t /\ P[z][1] = j /\ P[z][2] = t - 1
      BY <2>2
    <3> QED
      BY <1>1, <1>3, <1>5, <3>1
  <2>4. z = k - 1
    <3> SUFFICES ASSUME z # k - 1 PROVE FALSE
      OBVIOUS
    <3>1. k - 1 \in 1 .. m /\ k - 1 < k /\ z < k - 1
      BY <1>1, <2>3
    <3>2. PICK a \in Nat, b \in Nat : a = P[k - 1][1] /\ b = P[k - 1][2]
      BY <1>2, <3>1
    <3>3. a < j \/ (a = j /\ b < t)
      <4>1. P[k][1] = j /\ P[k][2] = t
        OBVIOUS
      <4> QED
        BY <1>1, <1>2, <3>1, <3>2, <4>1
    <3>4. j < a \/ (a = j /\ t - 1 < b)
      <4>1. P[z][1] = j /\ P[z][2] = t - 1
        BY <2>2
      <4> QED
        BY <1>2, <3>1, <3>2, <4>1
    <3> QED
      BY <1>3, <3>2, <3>3, <3>4
  <2> QED
    BY <1>1, <2>2, <2>3, <2>4
<1> QED
  BY <1>1, <1>3, <1>4, <1>6, <1>7

\* v has the m lines that are left of a section of x lines from a on and y lines
\* below.
Left(v, drop, a, x, y, m) ==
  /\ drop => m = x + 1
  /\ ~ drop => m = x + y
  /\ \A t \in 1 .. m : v[t] = IF drop /\ t = x + 1 THEN 0 ELSE a + t - 1

\* What is left of a section, line by line.
LEMMA SegmentPlaces ==
  ASSUME NEW n \in Nat, NEW c, NEW seg \in Segment, SegLaid(seg, c, n)
  PROVE  /\ ApplySegment(c, seg) \in Seq(0 .. n)
         /\ Left(ApplySegment(c, seg), Droppable(c, seg), seg.at, Len(seg.head), Len(seg.body),
                 Len(ApplySegment(c, seg)))
<1>1. PICK h \in Seq(Nat), b \in Seq(Nat), a \in Nat : h = seg.head /\ b = seg.body /\ a = seg.at
  BY DEF Segment
<1>2. PICK x \in Nat, y \in Nat : x = Len(h) /\ y = Len(b)
  OBVIOUS
<1>3. /\ \A t \in 1 .. x : h[t] = a + t - 1
      /\ \A t \in 1 .. y : b[t] = a + x + t - 1
  BY <1>1, <1>2 DEF SegLaid, Below
<1>4. PICK r : r = ApplySegment(c, seg)
  OBVIOUS
<1>5. r \in Seq(0 .. n)
  BY <1>4, SegmentText
<1>6. CASE Droppable(c, seg)
  <2>1. <<0>> \in Seq(Nat)
    BY Shortest
  <2>9. PICK z \in Seq(Nat) : z = <<0>>
    BY <2>1
  <2>2. r = h \o z
    BY <1>1, <1>4, <1>6, <2>9 DEF ApplySegment
  <2>3. Len(z) = 1 /\ z[1] = 0
    BY <2>9
  <2>4. /\ Len(r) = x + 1 /\ \A t \in 1 .. x : r[t] = h[t]
        /\ r[x + 1] = z[1]
    <3>1. PICK u \in Nat : u = Len(z)
      OBVIOUS
    <3>2. /\ Len(r) = x + u /\ \A t \in 1 .. x : r[t] = h[t]
          /\ \A t \in x + 1 .. x + u : r[t] = z[t - x]
      BY <1>2, <2>2, <3>1, ConcatProperties
    <3> QED
      BY <1>2, <2>3, <3>1, <3>2
  <2>5. r[x + 1] = 0
    BY <2>3, <2>4
  <2>6. ASSUME NEW t \in 1 .. x + 1 PROVE r[t] = IF t = x + 1 THEN 0 ELSE a + t - 1
    <3>1. CASE t = x + 1
      BY <2>5, <3>1
    <3>2. CASE t # x + 1
      <4>1. t \in 1 .. x
        BY <3>2
      <4> QED
        BY <1>3, <2>4, <3>2, <4>1
    <3> QED
      BY <3>1, <3>2
  <2> QED
    BY <1>1, <1>2, <1>4, <1>5, <1>6, <2>4, <2>6 DEF Left
<1>7. CASE ~ Droppable(c, seg)
  <2>1. r = h \o b
    BY <1>1, <1>4, <1>7 DEF ApplySegment
  <2>2. /\ Len(r) = x + y /\ \A t \in 1 .. x : r[t] = h[t]
        /\ \A t \in x + 1 .. x + y : r[t] = b[t - x]
    BY <1>2, <2>1, ConcatProperties
  <2>3. ASSUME NEW t \in 1 .. x + y PROVE r[t] = a + t - 1
    <3>1. CASE t <= x
      BY <1>3, <2>2, <3>1
    <3>2. CASE t > x
      <4>1. t \in x + 1 .. x + y /\ t - x \in 1 .. y
        BY <3>2
      <4>2. r[t] = a + x + (t - x) - 1
        BY <1>3, <2>2, <4>1
      <4> QED
        BY <4>2
    <3> QED
      BY <3>1, <3>2
  <2> QED
    BY <1>1, <1>2, <1>4, <1>5, <1>7, <2>2, <2>3 DEF Left
<1> QED
  BY <1>6, <1>7

\* Where a section begins and ends.
LEMMA SectionBounds ==
  ASSUME NEW n \in Nat, NEW c, NEW seg \in Segment, SegLaid(seg, c, n)
  PROVE  seg.at \in Nat /\ Beyond(seg) \in Nat /\ seg.at <= Beyond(seg)
<1>1. /\ seg.at \in 1 .. n /\ Below(seg) \in Nat /\ Beyond(seg) \in Nat
      /\ seg.at < Below(seg) /\ Below(seg) <= Beyond(seg)
  BY SegmentLines
<1> QED
  BY <1>1

\* The sections of a diff have their lines one after the other.
LEMMA SectionsFollow ==
  ASSUME NEW n \in Nat, NEW c, NEW s \in Seq(Segment), SegsLaid(s, c, n),
         NEW j \in 1 .. Len(s), NEW l \in 1 .. Len(s), j < l
  PROVE  Beyond(s[j]) <= s[l].at
<1>1. PICK m \in Nat : m = Len(s)
  OBVIOUS
<1> DEFINE at(k) == s[k].at
           to(k) == Beyond(s[k])
           D == {d \in Nat : j + 1 + d <= m => to(j) <= at(j + 1 + d)}
<1>2. ASSUME NEW k \in 1 .. m PROVE at(k) \in Nat /\ to(k) \in Nat /\ at(k) <= to(k)
  <2>1. s[k] \in Segment /\ SegLaid(s[k], c, n)
    BY <1>1, <1>2 DEF SegsLaid
  <2> QED
    BY <2>1, SectionBounds
<1>3. ASSUME NEW k \in 1 .. m - 1 PROVE at(k + 1) = to(k)
  BY <1>1, <1>3 DEF SegsLaid
<1> HIDE DEF at, to
<1>4. 0 \in D
  <2>1. j \in 1 .. m - 1 => at(j + 1) = to(j)
    BY <1>3
  <2>2. j \in 1 .. m /\ to(j) \in Nat
    BY <1>1, <1>2
  <2> QED
    BY <1>1, <2>1, <2>2
<1>5. ASSUME NEW d \in Nat, d \in D PROVE d + 1 \in D
  <2> SUFFICES ASSUME j + 1 + (d + 1) <= m PROVE to(j) <= at(j + 1 + (d + 1))
    BY <1>5
  <2>1. PICK k \in 1 .. m - 1 : k = j + 1 + d
    BY <1>1
  <2>2. to(j) <= at(k)
    BY <1>5, <2>1
  <2>3. at(k + 1) = to(k) /\ at(k) <= to(k) /\ at(k) \in Nat /\ to(k) \in Nat /\ to(j) \in Nat
    BY <1>1, <1>2, <1>3
  <2>4. to(j) <= at(k + 1)
    BY <2>2, <2>3
  <2> QED
    BY <1>1, <2>1, <2>4
<1>6. Nat \subseteq D
  <2> HIDE DEF D
  <2> QED
    BY <1>4, <1>5, SetInduction
<1>7. PICK d \in Nat : l = j + 1 + d
  BY <1>1
<1>8. d \in D /\ l <= m
  BY <1>1, <1>6
<1> QED
  BY <1>7, <1>8 DEF at, to

\* What is left of a section has its lines in order.
LEMMA SectionAscends ==
  ASSUME NEW n \in Nat, NEW c, NEW seg \in Segment, SegLaid(seg, c, n),
         NEW v, v = ApplySegment(c, seg), NEW t \in 1 .. Len(v), v[t] # 0
  PROVE  /\ v[t] \in seg.at .. Beyond(seg) - 1
         /\ \A u \in 1 .. Len(v) : t < u /\ v[u] # 0 => v[t] < v[u]
<1>1. PICK a \in Nat, x \in Nat, y \in Nat :
        a = seg.at /\ x = Len(seg.head) /\ y = Len(seg.body)
  BY DEF Segment
<1>2. PICK m \in Nat : m = Len(v)
  BY SegmentPlaces
<1>3. Left(v, Droppable(c, seg), a, x, y, m)
  BY <1>1, <1>2, SegmentPlaces
<1>4. \A u \in 1 .. m : v[u] # 0 => v[u] = a + u - 1 /\ u <= x + y
  BY <1>3 DEF Left
<1>5. Beyond(seg) = a + x + y
  BY <1>1 DEF Beyond
<1>6. v[t] = a + t - 1 /\ t <= x + y /\ t \in 1 .. m
  BY <1>2, <1>4
<1>7. v[t] \in a .. a + x + y - 1
  BY <1>6
<1>8. ASSUME NEW u \in 1 .. m, t < u, v[u] # 0 PROVE v[t] < v[u]
  <2>1. v[u] = a + u - 1
    BY <1>4, <1>8
  <2> QED
    BY <1>6, <1>8, <2>1
<1>9. v[t] \in seg.at .. Beyond(seg) - 1
  <2>1. PICK z \in Nat : z = a + x + y
    OBVIOUS
  <2>2. v[t] \in a .. z - 1
    BY <1>7, <2>1
  <2>3. a = seg.at /\ z = Beyond(seg)
    BY <1>1, <1>5, <2>1
  <2> QED
    BY ONLY <2>2, <2>3
<1> QED
  BY <1>2, <1>8, <1>9

\* And a line below a hunk header right after the one above it.
LEMMA SectionAdjoins ==
  ASSUME NEW n \in Nat, NEW c, Len(c) = n, NEW s \in Seq(Segment), SegsLaid(s, c, n),
         NEW j \in 1 .. Len(s), NEW v, v = ApplySegment(c, s[j]), NEW t \in 1 .. Len(v),
         NEW h \in Nat, NEW i \in Nat, Under(c, h, i)
  PROVE  NextTo(v, t, i)
<1>1. s[j] \in Segment /\ SegLaid(s[j], c, n)
  BY DEF SegsLaid
<1>2. PICK a \in Nat, x \in Nat, y \in Nat :
        a = s[j].at /\ x = Len(s[j].head) /\ y = Len(s[j].body)
  <2>1. PICK seg \in Segment : seg = s[j]
    BY <1>1
  <2>2. seg.at \in Nat /\ seg.head \in Seq(Nat) /\ seg.body \in Seq(Nat)
    BY DEF Segment
  <2> QED
    BY <2>1, <2>2
<1>3. PICK m \in Nat : m = Len(v)
  BY <1>1, SegmentPlaces
<1>4. /\ Droppable(c, s[j]) => m = x + 1
      /\ ~ Droppable(c, s[j]) => m = x + y
      /\ \A u \in 1 .. m :
           v[u] = IF Droppable(c, s[j]) /\ u = x + 1 THEN 0 ELSE a + u - 1
  <2>1. Left(v, Droppable(c, s[j]), a, x, y, m)
    BY <1>1, <1>2, <1>3, SegmentPlaces
  <2> QED
    BY <2>1 DEF Left
<1>5. /\ a \in 1 .. n /\ c[a].kind = "git" /\ x >= 1 /\ a + x + y <= n + 1
      /\ \A k \in a + 1 .. a + x - 1 : c[k].kind \notin HunkHeaders
  <2>1. PICK seg : seg = s[j] /\ SegLaid(seg, c, n)
    BY <1>1
  <2>2. /\ seg.at \in 1 .. n /\ c[seg.at].kind = "git"
        /\ Len(seg.head) >= 1 /\ seg.at + Len(seg.head) + Len(seg.body) <= n + 1
        /\ \A k \in seg.at + 1 .. seg.at + Len(seg.head) - 1 : c[k].kind \notin HunkHeaders
    BY ONLY <2>1 DEF SegLaid, Below, Beyond
  <2> QED
    BY ONLY <1>2, <2>1, <2>2
<1>6. /\ h \in 1 .. i - 1 /\ i \in 1 .. n /\ c[h].kind \in HunkHeaders
      /\ \A k \in h .. i : c[k].kind # "git"
  BY DEF Under, FileHeaders
<1>7. c[a].kind \notin HunkHeaders
  BY <1>5 DEF HunkHeaders
<1>10. t \in 1 .. m /\ t \in Nat /\ i \in Nat /\ h \in Nat
  BY <1>3
<1>8. ASSUME v[t] = i PROVE t > 1 /\ v[t - 1] = i - 1
  <2>1. i = a + t - 1
    BY <1>3, <1>4, <1>6, <1>8
  <2>2. i # a
    BY <1>5, <1>6
  <2>3. t > 1 /\ t - 1 \in 1 .. m /\ t - 1 # m
    BY ONLY <1>3, <1>10, <2>1, <2>2
  <2>4. v[t - 1] = a + (t - 1) - 1
    BY <1>3, <1>4, <2>3
  <2>5. a + (t - 1) - 1 = i - 1
    BY ONLY <1>10, <2>1
  <2> QED
    BY <2>3, <2>4, <2>5
<1>9. ASSUME v[t] = i - 1 PROVE t < Len(v) /\ v[t + 1] = i
  <2>1. i - 1 = a + t - 1 /\ (Droppable(c, s[j]) => t # x + 1)
    <3>1. v[t] # 0
      BY <1>6, <1>9
    <3> QED
      BY <1>4, <1>9, <1>10, <3>1
  <2>2. a < h
    <3>1. a \notin h .. i
      BY <1>5, <1>6
    <3>2. a <= i /\ h # a
      BY ONLY <1>6, <1>7, <1>10, <2>1
    <3> QED
      BY ONLY <1>10, <3>1, <3>2
  <2>3. a + x <= h
    <3>1. h \notin a + 1 .. a + x - 1
      BY <1>5, <1>6
    <3> QED
      BY ONLY <1>10, <2>2, <3>1
  <2>4. ~ Droppable(c, s[j])
    <3>1. t > x
      BY ONLY <1>6, <1>10, <2>1, <2>3
    <3> QED
      BY ONLY <1>4, <1>10, <2>1, <3>1
  <2>5. m = x + y
    BY <1>4, <2>4
  <2>6. i # a + x + y
    <3>1. CASE j = Len(s)
      <4>1. s # << >> /\ Beyond(s[Len(s)]) = n + 1
        BY <3>1 DEF SegsLaid
      <4>2. a + x + y = n + 1
        BY <1>2, <3>1, <4>1 DEF Beyond
      <4> QED
        BY <1>6, <4>2
    <3>2. CASE j # Len(s)
      <4>1. j \in 1 .. Len(s) - 1 /\ j + 1 \in 1 .. Len(s)
        BY <3>2
      <4>2. s[j + 1].at = a + x + y
        BY <1>2, <4>1 DEF SegsLaid, Beyond
      <4>3. c[s[j + 1].at].kind = "git"
        BY <4>1 DEF SegsLaid, SegLaid
      <4>4. c[i].kind # "git"
        BY <1>6
      <4> QED
        BY <4>2, <4>3, <4>4
    <3> QED
      BY <3>1, <3>2
  <2>7. t < m /\ t + 1 \in 1 .. m
    <3>1. t # m
      BY ONLY <1>10, <2>1, <2>5, <2>6
    <3> QED
      BY ONLY <1>3, <1>10, <3>1
  <2>8. v[t + 1] = a + (t + 1) - 1
    BY <1>4, <2>4, <2>7
  <2>9. a + (t + 1) - 1 = i
    BY ONLY <1>10, <2>1
  <2> QED
    BY <1>3, <2>7, <2>8, <2>9
<1> QED
  BY <1>8, <1>9 DEF NextTo

\* The first numbers in order.
LEMMA FirstNumbers ==
  ASSUME NEW m \in Nat
  PROVE  InOrder(1 .. m) \in Seq(1 .. m) /\ Len(InOrder(1 .. m)) = m
         /\ \A k \in 1 .. m : InOrder(1 .. m)[k] = k
<1>1. IsFiniteSet(1 .. m) /\ Cardinality(1 .. m) = m /\ 1 .. m \subseteq Int
  BY FS_Interval
<1>2. PICK r : r = InOrder(1 .. m)
  OBVIOUS
<1>3. r \in Seq(1 .. m) /\ Len(r) = m
  BY <1>1, <1>2, InOrderAscends
<1>4. \A k \in 1 .. m : r[k] \in 1 .. m /\ Cardinality({j \in 1 .. m : j < r[k]}) = k - 1
  <2>1. PICK S : S = 1 .. m
    OBVIOUS
  <2>2. IsFiniteSet(S) /\ S \subseteq Int /\ Cardinality(S) = m /\ r = InOrder(S)
    BY <1>1, <1>2, <2>1
  <2>3. \A k \in 1 .. Cardinality(S) : r[k] \in S /\ Cardinality({j \in S : j < r[k]}) = k - 1
    <3>1. /\ InOrder(S) \in [1 .. Cardinality(S) -> S] /\ Len(InOrder(S)) = Cardinality(S)
          /\ \A k \in 1 .. Cardinality(S) :
               InOrder(S)[k] \in S /\ Cardinality({j \in S : j < InOrder(S)[k]}) = k - 1
          /\ \A x \in S : \E k \in 1 .. Cardinality(S) : InOrder(S)[k] = x
      BY <2>2, InOrderLists
    <3> QED
      BY <2>2, <3>1
  <2> QED
    BY <2>1, <2>2, <2>3
<1>5. ASSUME NEW k \in 1 .. m PROVE r[k] = k
  <2>1. PICK x \in 1 .. m : x = r[k]
    BY <1>4
  <2>2. {j \in 1 .. m : j < x} = 1 .. x - 1
    OBVIOUS
  <2>3. Cardinality(1 .. x - 1) = x - 1
    BY FS_Interval
  <2> QED
    BY <1>4, <2>1, <2>2, <2>3
<1> QED
  BY <1>2, <1>3, <1>5

\* How many lines are above the first section.
Lead(s, n) == IF s = << >> THEN n ELSE s[1].at - 1

\* They are left as they are.
LEMMA LeadingLines ==
  ASSUME NEW n \in Nat, NEW c, Len(c) = n, DOMAIN c = 1 .. n,
         NEW s \in Seq(Segment), SegsLaid(s, c, n)
  PROVE  Lead(s, n) \in 0 .. n /\ Leading(c) = InOrder(1 .. Lead(s, n))
<1>1. s # << >> => s[1].at \in 1 .. n /\ c[s[1].at].kind = "git"
  <2> SUFFICES ASSUME s # << >> PROVE s[1].at \in 1 .. n /\ c[s[1].at].kind = "git"
    OBVIOUS
  <2>1. 1 \in 1 .. Len(s)
    OBVIOUS
  <2> QED
    BY <2>1 DEF SegsLaid, SegLaid
<1>2. Lead(s, n) \in 0 .. n
  BY <1>1 DEF Lead
<1>3. PICK m \in 0 .. n : m = Lead(s, n)
  BY <1>2
<1>4. \A i \in 1 .. m : c[i].kind # "git"
  BY <1>1, <1>3 DEF SegsLaid, Lead
<1>5. m < n => c[m + 1].kind = "git"
  BY <1>1, <1>3 DEF Lead
<1>6. {i \in 1 .. n : \A j \in 1 .. i : c[j].kind # "git"} = 1 .. m
  <2>1. ASSUME NEW i \in 1 .. n, \A j \in 1 .. i : c[j].kind # "git" PROVE i \in 1 .. m
    <3>1. CASE m < n
      <4>1. m + 1 \notin 1 .. i
        BY <1>5, <2>1, <3>1
      <4> QED
        BY <4>1
    <3>2. CASE m = n
      BY <3>2
    <3> QED
      BY <3>1, <3>2
  <2>2. ASSUME NEW i \in 1 .. m PROVE i \in 1 .. n /\ \A j \in 1 .. i : c[j].kind # "git"
    BY <1>4
  <2> QED
    BY <2>1, <2>2
<1> QED
  BY <1>3, <1>6 DEF Leading

\* What is left of the sections, all of them.
Remains(c, s) == FlattenSeq([k \in DOMAIN s |-> ApplySegment(c, s[k])])

\* They have their lines in order, and those below hunk headers one after the other.
LEMMA RemainsInOrder ==
  ASSUME NEW n \in Nat, NEW c, Len(c) = n, NEW s \in Seq(Segment), SegsLaid(s, c, n)
  PROVE  /\ Remains(c, s) \in Seq(0 .. n)
         /\ Ascends(Remains(c, s)) /\ Adjoins(c, Remains(c, s))
         /\ s = << >> => Remains(c, s) = << >>
         /\ \A k \in 1 .. Len(Remains(c, s)) :
              Remains(c, s)[k] # 0 => s # << >> /\ s[1].at <= Remains(c, s)[k]
<1>1. PICK m \in Nat : m = Len(s)
  OBVIOUS
<1>2. PICK w : w = [k \in DOMAIN s |-> ApplySegment(c, s[k])]
  OBVIOUS
<1>3. DOMAIN s = 1 .. m
  BY <1>1
<1>4. ASSUME NEW k \in 1 .. m
      PROVE  s[k] \in Segment /\ SegLaid(s[k], c, n) /\ w[k] = ApplySegment(c, s[k])
  BY <1>1, <1>2, <1>3, <1>4 DEF SegsLaid
<1>5. \A k \in 1 .. m : w[k] \in Seq(0 .. n)
  BY <1>4, SegmentPlaces
<1>6. w \in Lists(m, 0 .. n)
  BY <1>2, <1>3, <1>5 DEF Lists
<1>7. PICK flat \in Seq(0 .. n) : flat = Remains(c, s) /\ \E P : Placed(P, w, m, flat)
  BY <1>2, <1>6, Flattened DEF Remains
<1> PICK P : Placed(P, w, m, flat)
  BY <1>7
<1>8. PICK z \in Nat : z = Len(flat)
  OBVIOUS
<1>15. \A k \in 1 .. z : flat[k] \in Nat
  BY <1>8
<1>16. PlacesFollow(P, w, flat)
  BY <1>6, PlacesAdjoin
<1>17. ASSUME NEW k \in 1 .. m
       PROVE  s[k].at \in Nat /\ Beyond(s[k]) \in Nat /\ s[k].at <= Beyond(s[k])
  BY <1>4, SectionBounds
\* Each line has a place in a section.
<1>9. ASSUME NEW k \in 1 .. z
      PROVE  \E j \in 1 .. m : \E t \in Nat :
               /\ P[k] = <<j, t>> /\ t \in 1 .. Len(w[j]) /\ flat[k] = w[j][t]
               /\ w[j][t] # 0 => w[j][t] \in s[j].at .. Beyond(s[j]) - 1
  <2>1. /\ P[k] \in Nat \X Nat /\ P[k][1] \in 1 .. m /\ P[k][2] \in 1 .. Len(w[P[k][1]])
        /\ flat[k] = w[P[k][1]][P[k][2]]
    BY <1>8, <1>9 DEF Placed
  <2>2. PICK j \in 1 .. m, t \in Nat : P[k] = <<j, t>> /\ j = P[k][1] /\ t = P[k][2]
    BY <2>1
  <2>3. t \in 1 .. Len(w[j]) /\ flat[k] = w[j][t]
    BY ONLY <2>1, <2>2
  <2>4. w[j][t] # 0 => w[j][t] \in s[j].at .. Beyond(s[j]) - 1
    BY <1>4, <2>3, SectionAscends
  <2> QED
    BY <2>2, <2>3, <2>4
<1>10. Ascends(flat)
  <2> SUFFICES ASSUME NEW k \in 1 .. z, NEW l \in 1 .. z, k < l, flat[k] # 0, flat[l] # 0
               PROVE  flat[k] < flat[l]
    BY <1>8 DEF Ascends
  <2>1. PICK j \in 1 .. m, t \in Nat :
          /\ P[k] = <<j, t>> /\ t \in 1 .. Len(w[j]) /\ flat[k] = w[j][t]
          /\ w[j][t] # 0 => w[j][t] \in s[j].at .. Beyond(s[j]) - 1
    BY <1>9
  <2>2. PICK i \in 1 .. m, u \in Nat :
          /\ P[l] = <<i, u>> /\ u \in 1 .. Len(w[i]) /\ flat[l] = w[i][u]
          /\ w[i][u] # 0 => w[i][u] \in s[i].at .. Beyond(s[i]) - 1
    BY <1>9
  <2>3. j < i \/ (j = i /\ t < u)
    <3>1. P[k][1] < P[l][1] \/ (P[k][1] = P[l][1] /\ P[k][2] < P[l][2])
      BY <1>8 DEF Placed
    <3>2. P[k] = <<j, t>> /\ P[l] = <<i, u>>
      BY <2>1, <2>2
    <3> QED
      BY ONLY <3>1, <3>2
  <2>4. CASE j < i
    <3>1. Beyond(s[j]) <= s[i].at
      BY <1>1, <2>4, SectionsFollow
    <3>2. PICK a \in Nat, b \in Nat : a = Beyond(s[j]) /\ b = s[i].at
      BY <1>17
    <3>3. PICK x \in Nat, y \in Nat : x = flat[k] /\ y = flat[l]
      BY <1>15
    <3>4. x <= a - 1
      BY <2>1, <3>2, <3>3
    <3>5. b <= y
      BY <2>2, <3>2, <3>3
    <3>6. a <= b
      BY <3>1, <3>2
    <3> QED
      BY <3>3, <3>4, <3>5, <3>6
  <2>5. CASE j = i /\ t < u
    <3>1. PICK v : v = w[j] /\ v = ApplySegment(c, s[j])
      BY <1>4
    <3>2. t \in 1 .. Len(v) /\ u \in 1 .. Len(v) /\ v[t] # 0 /\ v[u] # 0
      BY <2>1, <2>2, <2>5, <3>1
    <3>3. v[t] < v[u]
      BY <1>4, <2>5, <3>1, <3>2, SectionAscends
    <3> QED
      BY ONLY <2>1, <2>2, <2>5, <3>1, <3>3
  <2> QED
    BY <2>3, <2>4, <2>5
<1>11. Adjoins(c, flat)
  <2> SUFFICES ASSUME NEW h \in Nat, NEW i \in Nat, Under(c, h, i), NEW k \in 1 .. z
               PROVE  NextTo(flat, k, i)
    BY <1>8 DEF Adjoins
  <2>1. PICK j \in 1 .. m, t \in Nat :
          P[k] = <<j, t>> /\ t \in 1 .. Len(w[j]) /\ flat[k] = w[j][t]
    BY <1>9
  <2>6. j \in Nat
    OBVIOUS
  <2>7. \A x \in 1 .. z, u \in Nat : P[x] = <<j, u>> => flat[x] = w[j][u]
    BY <1>8, <1>16, <2>6 DEF PlacesFollow
  <2>2. /\ t < Len(w[j]) => k < z /\ P[k + 1] = <<j, t + 1>>
        /\ t > 1 => k > 1 /\ P[k - 1] = <<j, t - 1>>
    <3>1. k \in 1 .. Len(flat)
      BY <1>8
    <3>2. /\ t < Len(w[j]) => k < Len(flat) /\ P[k + 1] = <<j, t + 1>>
          /\ t > 1 => k > 1 /\ P[k - 1] = <<j, t - 1>>
      BY ONLY <1>16, <2>1, <2>6, <3>1 DEF PlacesFollow
    <3> QED
      BY ONLY <1>8, <3>2
  <2>3. NextTo(w[j], t, i)
    <3>1. j \in 1 .. Len(s) /\ w[j] = ApplySegment(c, s[j]) /\ t \in 1 .. Len(w[j])
      BY <1>1, <1>4, <2>1
    <3> QED
      BY <3>1, SectionAdjoins
  <2>4. ASSUME flat[k] = i PROVE k > 1 /\ flat[k - 1] = i - 1
    <3>1. t > 1 /\ w[j][t - 1] = i - 1 /\ k > 1 /\ P[k - 1] = <<j, t - 1>>
      BY <2>1, <2>2, <2>3, <2>4 DEF NextTo
    <3>2. k - 1 \in 1 .. z /\ t - 1 \in Nat
      BY <3>1
    <3>3. flat[k - 1] = w[j][t - 1]
      BY <2>7, <3>1, <3>2
    <3> QED
      BY <3>1, <3>3
  <2>5. ASSUME flat[k] = i - 1 PROVE k < z /\ flat[k + 1] = i
    <3>1. w[j][t + 1] = i /\ k < z /\ P[k + 1] = <<j, t + 1>>
      BY <2>1, <2>2, <2>3, <2>5 DEF NextTo
    <3>2. k + 1 \in 1 .. z /\ t + 1 \in Nat
      BY <3>1
    <3>3. flat[k + 1] = w[j][t + 1]
      BY <2>7, <3>1, <3>2
    <3> QED
      BY <3>1, <3>3
  <2> QED
    BY <1>8, <2>4, <2>5 DEF NextTo
<1>12. z > 0 => m > 0
  <2> SUFFICES ASSUME z > 0 PROVE m > 0
    OBVIOUS
  <2>1. 1 \in 1 .. z
    OBVIOUS
  <2> QED
    BY <1>9, <2>1
<1>13. ASSUME NEW k \in 1 .. z, flat[k] # 0 PROVE s # << >> /\ s[1].at <= flat[k]
  <2>1. PICK j \in 1 .. m, t \in Nat :
          /\ flat[k] = w[j][t]
          /\ w[j][t] # 0 => w[j][t] \in s[j].at .. Beyond(s[j]) - 1
    BY <1>9
  <2>2. s # << >> /\ 1 \in 1 .. m
    BY <1>1
  <2>3. PICK a \in Nat, b \in Nat, e \in Nat :
          a = s[1].at /\ b = s[j].at /\ e = Beyond(s[1]) /\ a <= e
    BY <1>17, <2>2
  <2>4. a <= b
    <3>1. CASE j = 1
      BY <2>3, <3>1
    <3>2. CASE j # 1
      <4>1. 1 \in 1 .. Len(s) /\ j \in 1 .. Len(s) /\ 1 < j
        BY <1>1, <3>2
      <4>2. Beyond(s[1]) <= s[j].at
        BY <4>1, SectionsFollow
      <4> QED
        BY <2>3, <4>2
    <3> QED
      BY <3>1, <3>2
  <2>5. PICK y \in Nat : y = flat[k]
    BY <1>15
  <2>6. b <= y
    <3>1. w[j][t] \in s[j].at .. Beyond(s[j]) - 1 /\ y = w[j][t]
      BY <1>13, <2>1, <2>5
    <3>2. PICK u \in Nat : u = Beyond(s[j])
      BY <1>17
    <3>3. y \in b .. u - 1
      BY ONLY <2>3, <3>1, <3>2
    <3> QED
      BY <3>3
  <2>7. PICK x \in Nat : x = s[1].at /\ x <= y
    BY <2>3, <2>4, <2>6
  <2> QED
    BY <2>2, <2>5, <2>7
<1>14. s = << >> => flat = << >>
  BY <1>1, <1>8, <1>12
<1> QED
  BY <1>7, <1>8, <1>10, <1>11, <1>13, <1>14

\* What diff_noise leaves is in order, and a hunk's lines are left together.
LEMMA NoiseInOrder ==
  ASSUME NEW n \in Nat, NEW c, Len(c) = n, DOMAIN c = 1 .. n
  PROVE  Ascends(NoiseOutput(c)) /\ Adjoins(c, NoiseOutput(c))
<1>1. PICK s \in Seq(Segment) : s = parseSegments(c) /\ SegsLaid(s, c, n)
  BY SegmentsLaid
<1>2. PICK m \in 0 .. n : m = Lead(s, n)
  BY <1>1, LeadingLines
<1>3. PICK lead \in Seq(1 .. m) : lead = Leading(c) /\ Len(lead) = m /\ \A k \in 1 .. m : lead[k] = k
  <2>1. Leading(c) = InOrder(1 .. m) /\ m \in Nat
    BY <1>1, <1>2, LeadingLines
  <2> QED
    BY <2>1, FirstNumbers
<1>4. PICK rest \in Seq(0 .. n) :
        /\ rest = Remains(c, s) /\ Ascends(rest) /\ Adjoins(c, rest)
        /\ s = << >> => rest = << >>
        /\ \A k \in 1 .. Len(rest) : rest[k] # 0 => s # << >> /\ s[1].at <= rest[k]
  BY <1>1, RemainsInOrder
<1>5. PICK z \in Nat : z = Len(rest)
  OBVIOUS
<1>6. PICK r : r = NoiseOutput(c)
  OBVIOUS
<1>7. r = lead \o rest
  BY <1>1, <1>3, <1>4, <1>6 DEF NoiseOutput, Remains
<1>8. lead \in Seq(0 .. n)
  BY <1>3, ElemsType DEF Elems
<1>9. /\ Len(r) = m + z
      /\ \A k \in 1 .. m : r[k] = k
      /\ \A k \in m + 1 .. m + z : r[k] = rest[k - m]
  <2>1. PICK x \in Nat : x = Len(lead)
    BY <1>8
  <2>2. /\ Len(r) = x + z
        /\ \A k \in 1 .. x : r[k] = lead[k]
        /\ \A k \in x + 1 .. x + z : r[k] = rest[k - x]
    BY <1>5, <1>7, <1>8, <2>1, ConcatProperties
  <2> QED
    BY <1>3, <2>1, <2>2
<1>10. \A k \in 1 .. z : rest[k] \in Nat
  BY <1>5
\* The lines of the sections are below the leading ones.
<1>11. ASSUME NEW k \in 1 .. z, rest[k] # 0 PROVE m < rest[k]
  <2>1. s # << >> /\ s[1].at <= rest[k]
    BY <1>4, <1>5, <1>11
  <2>2. s[1].at \in 1 .. n
    <3>1. 1 \in 1 .. Len(s)
      BY <2>1
    <3> QED
      BY <1>1, <3>1 DEF SegsLaid, SegLaid
  <2>3. m = s[1].at - 1
    BY <1>2, <2>1 DEF Lead
  <2> QED
    BY <1>10, <2>1, <2>2, <2>3
<1>12. Ascends(r)
  <2> SUFFICES ASSUME NEW k \in 1 .. m + z, NEW l \in 1 .. m + z, k < l, r[k] # 0, r[l] # 0
               PROVE  r[k] < r[l]
    BY <1>9 DEF Ascends
  <2>1. CASE l <= m
    <3>1. k \in 1 .. m /\ l \in 1 .. m
      BY <2>1
    <3> QED
      BY <1>9, <3>1
  <2>2. CASE k <= m /\ l > m
    <3>1. k \in 1 .. m /\ l \in m + 1 .. m + z /\ l - m \in 1 .. z
      BY <2>2
    <3>2. r[k] = k /\ r[l] = rest[l - m]
      BY <1>9, <3>1
    <3>3. m < rest[l - m] /\ rest[l - m] \in Nat
      BY <1>10, <1>11, <3>1, <3>2
    <3> QED
      BY <3>1, <3>2, <3>3
  <2>3. CASE k > m
    <3>1. k \in m + 1 .. m + z /\ l \in m + 1 .. m + z /\ k - m \in 1 .. z /\ l - m \in 1 .. z
      BY <2>3
    <3>2. r[k] = rest[k - m] /\ r[l] = rest[l - m]
      BY <1>9, <3>1
    <3>3. k - m < l - m
      BY <3>1
    <3> QED
      BY <1>4, <1>5, <3>1, <3>2, <3>3 DEF Ascends
  <2> QED
    BY <2>1, <2>2, <2>3
<1>13. Adjoins(c, r)
  <2> SUFFICES ASSUME NEW h \in Nat, NEW i \in Nat, Under(c, h, i), NEW k \in 1 .. m + z
               PROVE  NextTo(r, k, i)
    BY <1>9 DEF Adjoins
  <2>1. h \in 1 .. i - 1 /\ i \in 1 .. n /\ c[i].kind # "git"
    <3>1. h \in 1 .. i - 1 /\ i \in 1 .. n /\ \A j \in h .. i : c[j].kind \notin FileHeaders
      BY DEF Under
    <3>2. i \in h .. i
      BY <3>1
    <3> QED
      BY <3>1, <3>2 DEF FileHeaders
  <2>2. CASE k <= m
    <3>1. r[k] = k /\ k \in 1 .. m
      BY <1>9, <2>2
    <3>2. ASSUME r[k] = i PROVE k > 1 /\ r[k - 1] = i - 1
      <4>1. k = i /\ k > 1 /\ k - 1 \in 1 .. m
        BY <2>1, <3>1, <3>2
      <4> QED
        BY <1>9, <4>1
    <3>3. ASSUME r[k] = i - 1 PROVE k < m + z /\ r[k + 1] = i
      <4>1. i = k + 1
        BY <2>1, <3>1, <3>3
      <4>2. k # m
        <5>1. CASE s = << >>
          <6>1. m = n
            BY <1>2, <5>1 DEF Lead
          <6> QED
            BY <2>1, <4>1, <6>1
        <5>2. CASE s # << >>
          <6>1. s[1].at \in 1 .. n /\ c[s[1].at].kind = "git"
            <7>1. 1 \in 1 .. Len(s)
              BY <5>2
            <7> QED
              BY <1>1, <7>1 DEF SegsLaid, SegLaid
          <6>2. m + 1 = s[1].at
            BY <1>2, <5>2, <6>1 DEF Lead
          <6>3. c[m + 1].kind = "git"
            BY <6>1, <6>2
          <6> QED
            BY <2>1, <4>1, <6>3
        <5> QED
          BY <5>1, <5>2
      <4>3. k + 1 \in 1 .. m
        BY <3>1, <4>2
      <4> QED
        BY <1>9, <4>1, <4>3
    <3> QED
      BY <1>9, <3>2, <3>3 DEF NextTo
  <2>3. CASE k > m
    <3>1. PICK j \in 1 .. z : j = k - m /\ k = m + j
      BY <2>3
    <3>2. NextTo(rest, j, i)
      BY <1>4, <1>5 DEF Adjoins
    <3>3. r[k] = rest[j]
      BY <1>9, <3>1
    <3>4. ASSUME r[k] = i PROVE k > 1 /\ r[k - 1] = i - 1
      <4>1. j > 1 /\ rest[j - 1] = i - 1
        BY <3>2, <3>3, <3>4 DEF NextTo
      <4>2. k - 1 \in m + 1 .. m + z /\ k - 1 - m = j - 1
        BY <3>1, <4>1
      <4>3. r[k - 1] = rest[j - 1]
        BY <1>9, <4>2
      <4> QED
        BY <3>1, <4>1, <4>3
    <3>5. ASSUME r[k] = i - 1 PROVE k < m + z /\ r[k + 1] = i
      <4>1. j < z /\ rest[j + 1] = i
        BY <1>5, <3>2, <3>3, <3>5 DEF NextTo
      <4>2. k + 1 \in m + 1 .. m + z /\ k + 1 - m = j + 1
        BY <3>1, <4>1
      <4>3. r[k + 1] = rest[j + 1]
        BY <1>9, <4>2
      <4> QED
        BY <3>1, <4>1, <4>3
    <3> QED
      BY <1>9, <3>4, <3>5 DEF NextTo
  <2> QED
    BY <2>2, <2>3
<1> QED
  BY <1>6, <1>12, <1>13

-----------------------------------------------------------------------------
(* Lines that are listed together *)

\* The lines from h down to i are in s one after the other, and one of them is at k.
Run(s, k, h, i) ==
  \A d \in 0 .. i - h : k - s[k] + h + d \in 1 .. Len(s) /\ s[k - s[k] + h + d] = h + d

\* So are those below a hunk header, when one of them is in s.
LEMMA Together ==
  ASSUME NEW n \in Nat, NEW c, Len(c) = n, NEW s \in Seq(0 .. n), Adjoins(c, s),
         NEW h \in Nat, NEW i \in Nat, Under(c, h, i),
         NEW k \in 1 .. Len(s), s[k] \in h .. i
  PROVE  Run(s, k, h, i)
<1>1. PICK z \in Nat : z = Len(s)
  OBVIOUS
<1>2. PICK x \in Nat : x = s[k]
  BY <1>1
<1>3. h \in 1 .. i - 1 /\ i \in 1 .. n
  BY DEF Under
<1>4. x \in h .. i /\ k \in 1 .. z
  BY <1>1, <1>2
<1>5. ASSUME NEW e \in h + 1 .. i, NEW j \in 1 .. z PROVE NextTo(s, j, e)
  <2>1. Under(c, h, e)
    BY <1>3, <1>5 DEF Under
  <2>2. e \in Nat
    OBVIOUS
  <2> QED
    BY <1>1, <2>1, <2>2 DEF Adjoins
\* Upwards.
<1>6. \A d \in 0 .. x - h : k - d \in 1 .. z /\ s[k - d] = x - d
  <2> DEFINE D == {d \in Nat : d <= x - h => k - d \in 1 .. z /\ s[k - d] = x - d}
  <2>1. 0 \in D
    BY <1>2, <1>4
  <2>2. ASSUME NEW d \in Nat, d \in D PROVE d + 1 \in D
    <3> SUFFICES ASSUME d + 1 <= x - h
                 PROVE  k - (d + 1) \in 1 .. z /\ s[k - (d + 1)] = x - (d + 1)
      BY <2>2
    <3>1. k - d \in 1 .. z /\ s[k - d] = x - d
      BY <1>3, <1>4, <2>2
    <3>2. x - d \in h + 1 .. i
      BY <1>3, <1>4
    <3>3. k - d > 1 /\ s[k - d - 1] = x - d - 1
      BY <1>5, <3>1, <3>2 DEF NextTo
    <3>4. k - (d + 1) = k - d - 1 /\ x - (d + 1) = x - d - 1
      OBVIOUS
    <3> QED
      BY <1>4, <3>1, <3>3, <3>4
  <2>3. Nat \subseteq D
    <3> HIDE DEF D
    <3> QED
      BY <2>1, <2>2, SetInduction
  <2> QED
    BY <1>3, <2>3
\* Downwards.
<1>7. \A d \in 0 .. i - x : k + d \in 1 .. z /\ s[k + d] = x + d
  <2> DEFINE D == {d \in Nat : d <= i - x => k + d \in 1 .. z /\ s[k + d] = x + d}
  <2>1. 0 \in D
    BY <1>2, <1>4
  <2>2. ASSUME NEW d \in Nat, d \in D PROVE d + 1 \in D
    <3> SUFFICES ASSUME d + 1 <= i - x
                 PROVE  k + (d + 1) \in 1 .. z /\ s[k + (d + 1)] = x + (d + 1)
      BY <2>2
    <3>1. k + d \in 1 .. z /\ s[k + d] = x + d
      BY <1>3, <1>4, <2>2
    <3>2. x + d + 1 \in h + 1 .. i
      BY <1>3, <1>4
    <3>3. s[k + d] = (x + d + 1) - 1
      BY <3>1
    <3>4. k + d < z /\ s[k + d + 1] = x + d + 1
      BY <1>1, <1>5, <3>1, <3>2, <3>3 DEF NextTo
    <3>5. k + (d + 1) = k + d + 1 /\ x + (d + 1) = x + d + 1
      OBVIOUS
    <3> QED
      BY <1>4, <3>1, <3>4, <3>5
  <2>3. Nat \subseteq D
    <3> HIDE DEF D
    <3> QED
      BY <2>1, <2>2, SetInduction
  <2> QED
    BY <1>3, <2>3
<1> SUFFICES ASSUME NEW d \in 0 .. i - h
             PROVE  k - x + h + d \in 1 .. z /\ s[k - x + h + d] = h + d
  BY <1>1, <1>2 DEF Run
<1>8. CASE h + d <= x
  <2>1. x - h - d \in 0 .. x - h
    BY <1>3, <1>4, <1>8
  <2>2. k - (x - h - d) \in 1 .. z /\ s[k - (x - h - d)] = x - (x - h - d)
    BY <1>6, <2>1
  <2>3. k - (x - h - d) = k - x + h + d /\ x - (x - h - d) = h + d
    BY <1>3, <1>4
  <2> QED
    BY <2>2, <2>3
<1>9. CASE h + d > x
  <2>1. h + d - x \in 0 .. i - x
    BY <1>3, <1>4, <1>9
  <2>2. k + (h + d - x) \in 1 .. z /\ s[k + (h + d - x)] = x + (h + d - x)
    BY <1>7, <2>1
  <2>3. k + (h + d - x) = k - x + h + d /\ x + (h + d - x) = h + d
    BY <1>3, <1>4
  <2> QED
    BY <2>2, <2>3
<1> QED
  BY <1>3, <1>4, <1>8, <1>9

-----------------------------------------------------------------------------
(* What the diff compressor leaves *)

BodyKinds == {"plus", "minus", "plus3", "minus3", "context", "empty", "nonewline"}

\* The lines below a hunk header at p that no scanner takes for a header.
BodyOf(c, p) == {q \in p + 1 .. Len(c) : c[q].kind \in BodyKinds /\ NoHeader(c, p + 1, q)}

\* o shows the hunk at p with all its changes and the context around them, or not at
\* all, in order.
HunkWhole(c, o, p) ==
  /\ \A q \in BodyOf(c, p) : c[q].kind \in Signed => (q \in Elems(o) <=> p \in Elems(o))
  /\ \A q, r \in BodyOf(c, p) :
       /\ c[q].kind \in Signed /\ q \in Elems(o)
       /\ q - r <= MaxContextLines /\ r - q <= MaxContextLines
       => r \in Elems(o)
  /\ Ordered(o, BodyOf(c, p))

\* o is the text of the diff c: p is what is parsed of it, fs the files that are kept.
Cut(c, n, p, fs, o) ==
  /\ p \in Parse /\ Layout(p, c, n)
  /\ FilesLaid(fs, c, n)
  /\ \A k \in 1 .. Len(fs) : \E j \in 1 .. Len(p.files) : fs[k] = p.files[j]
  /\ TextOfDiff(o, c, p.pre, fs)

\* What the compressor writes is such a text.
LEMMA CompressedCut ==
  ASSUME NEW n \in Nat, NEW c, Len(c) = n, Started(c)
  PROVE  \E fs : Cut(c, n, parseDiff(c), fs, Compressed(c, parseDiff(c)).output)
<1>1. PICK p : p = parseDiff(c)
  OBVIOUS
<1>2. p \in Parse /\ Layout(p, c, n)
  BY <1>1, DiffLaid
<1>3. PICK pre \in Seq(Nat), all \in Seq(File) : pre = p.pre /\ all = p.files
  BY <1>2 DEF Parse
<1>4. PICK fs : fs = CappedFiles(all)
  OBVIOUS
<1>5. Chosen(fs, all)
  BY <1>4, CappedAre
<1>6. fs \in Seq(File) /\ Len(fs) \in Nat
      /\ \A k \in 1 .. Len(fs) : \E j \in 1 .. Len(all) : fs[k] = all[j]
  BY <1>5, ChosenType
<1>7. \A j \in 1 .. Len(all) : FileLaid(all[j], c, n)
  BY <1>2, <1>3 DEF Layout
<1>8. FilesLaid(fs, c, n)
  <2>1. HunksApart(all)
    BY <1>2, <1>3, NoneShared
  <2>2. HunksApart(fs)
    BY <1>5, <2>1, ChosenApart
  <2> QED
    BY <1>6, <1>7, <2>2 DEF FilesLaid
<1>9. \A k \in 1 .. Len(fs) : Begun(c, fs[k])
  BY <1>8 DEF FilesLaid, Begun, FileLaid, HunksLaid, HunkLaid
<1>10. PICK small : small = [k \in DOMAIN fs |-> CompressFile(c, fs[k])]
  OBVIOUS
<1>11. TextOfDiff(formatOutput(pre, small), c, pre, fs)
  BY <1>6, <1>9, <1>10, DiffText
<1>12. Compressed(c, p).output = formatOutput(pre, small)
  BY <1>3, <1>4, <1>10 DEF Compressed
<1>13. PICK o : o = formatOutput(pre, small)
  OBVIOUS
<1>14. Cut(c, n, p, fs, o)
  BY <1>2, <1>3, <1>6, <1>8, <1>11, <1>13 DEF Cut
<1> QED
  BY <1>1, <1>12, <1>13, <1>14

\* Where a hunk of a diff is.
LEMMA HunkPlace ==
  ASSUME NEW n \in Nat, NEW c, NEW p \in Parse, Layout(p, c, n), NEW h \in AllHunks(p.files)
  PROVE  /\ h \in Hunk /\ HunkLaid(h, c, n)
         /\ p.files # << >> /\ Len(p.pre) \in Nat /\ Len(p.pre) < h.header
         /\ \A x \in Elems(p.pre) : x \in Nat /\ x < h.header
<1>1. PICK all \in Seq(File), pre \in Seq(Nat) : all = p.files /\ pre = p.pre
  BY DEF Parse
<1>2. PICK j \in 1 .. Len(all) : h \in Elems(all[j].hunks)
  BY <1>1 DEF AllHunks
<1>3. PICK f \in File : f = all[j] /\ FileLaid(f, c, n)
  BY <1>1 DEF Layout
<1>4. PICK hs \in Seq(Hunk) : hs = f.hunks
  BY DEF File
<1>5. PICK a \in 1 .. Len(hs) : h = hs[a]
  BY <1>2, <1>3, <1>4 DEF Elems
<1>6. h \in Hunk /\ HunkLaid(h, c, n) /\ f.header < h.header
  <2>1. HunksLaid(hs, f.header, c, n)
    BY <1>3, <1>4 DEF FileLaid
  <2>2. HunkLaid(hs[a], c, n) /\ f.header < hs[a].header
    BY <2>1 DEF HunksLaid
  <2> QED
    BY <1>5, <2>2
<1>7. Len(all) \in Nat /\ 1 \in 1 .. Len(all)
  OBVIOUS
<1>8. all # << >>
  BY <1>7, EmptySeq
<1>9. all[1].header = Len(pre) + 1
  BY <1>1, <1>8 DEF Layout
<1>10. all[1].header <= f.header
  <2>1. all[1].header \in Nat /\ f.header \in Nat
    <3>1. all[1] \in File
      BY <1>7
    <3> QED
      BY <3>1 DEF File
  <2>2. CASE j = 1
    BY ONLY <1>3, <2>1, <2>2
  <2>3. CASE 1 < j
    <3>1. all[1].header < all[j].header
      BY <1>1, <1>7, <2>3 DEF Layout
    <3> QED
      BY ONLY <1>3, <2>1, <3>1
  <2>4. j = 1 \/ 1 < j
    BY <1>7
  <2> QED
    BY ONLY <2>2, <2>3, <2>4
<1>11. PICK m \in Nat, x \in Nat, y \in Nat : m = Len(pre) /\ x = f.header /\ y = h.header
  <2>1. Len(pre) \in Nat
    OBVIOUS
  <2>2. f.header \in Nat
    BY DEF File
  <2>3. h.header \in Nat
    BY <1>6 DEF Hunk
  <2> QED
    BY ONLY <2>1, <2>2, <2>3
<1>12. m < y
  BY <1>6, <1>9, <1>10, <1>11
<1>13. \A k \in 1 .. m : pre[k] = k
  BY <1>1, <1>11 DEF Layout
<1>14. ASSUME NEW z \in Elems(pre) PROVE z \in Nat /\ z < y
  <2>1. PICK k \in 1 .. m : z = pre[k]
    BY <1>11 DEF Elems
  <2>2. z = k
    BY <1>13, <2>1
  <2> QED
    BY <1>12, <2>2
<1> QED
  BY <1>1, <1>6, <1>8, <1>11, <1>12, <1>14

\* No line belongs to two hunks.
LEMMA OneHunkHas ==
  ASSUME NEW n \in Nat, NEW c, NEW p \in Parse, Layout(p, c, n),
         NEW g \in AllHunks(p.files), NEW h \in AllHunks(p.files),
         NEW x, x = g.header \/ x \in HunkLines(g), x = h.header \/ x \in HunkLines(h)
  PROVE  g = h
<1>1. HunksApart(p.files)
  BY NoneShared
<1>2. PICK j \in 1 .. Len(p.files) : \E a \in 1 .. Len(p.files[j].hunks) : g = p.files[j].hunks[a]
  BY DEF AllHunks, Elems
<1> PICK a \in 1 .. Len(p.files[j].hunks) : g = p.files[j].hunks[a]
  BY <1>2
<1>3. PICK k \in 1 .. Len(p.files) : \E b \in 1 .. Len(p.files[k].hunks) : h = p.files[k].hunks[b]
  BY DEF AllHunks, Elems
<1> PICK b \in 1 .. Len(p.files[k].hunks) : h = p.files[k].hunks[b]
  BY <1>3
<1>4. /\ g.header = h.header => j = k /\ a = b
      /\ (j # k \/ a # b) => HunkLines(g) \intersect HunkLines(h) = {}
  <2>1. LET x1 == p.files[j].hunks[a]
            y1 == p.files[k].hunks[b]
        IN /\ x1.header = y1.header => j = k /\ a = b
           /\ (j # k \/ a # b) => HunkLines(x1) \intersect HunkLines(y1) = {}
    BY <1>1 DEF HunksApart
  <2> QED
    BY <2>1
<1>5. HunkLaid(g, c, n) /\ HunkLaid(h, c, n)
  BY HunkPlace
<1>6. /\ c[g.header].kind \in Headers /\ c[h.header].kind \in Headers
      /\ \A y \in HunkLines(g) : c[y].kind \notin Headers
      /\ \A y \in HunkLines(h) : c[y].kind \notin Headers
  BY <1>5 DEF HunkLaid, HunkLines, NoHeader, Headers
<1>7. g.header \notin HunkLines(h) /\ h.header \notin HunkLines(g)
  BY <1>6
<1>8. j = k /\ a = b
  BY <1>4, <1>7
<1> QED
  BY <1>8

\* The hunks that are kept are hunks of the diff.
LEMMA KeptAreHunks ==
  ASSUME NEW n \in Nat, NEW c, Len(c) = n, Started(c), NEW p, NEW fs, NEW o, Cut(c, n, p, fs, o),
         NEW k \in 1 .. Len(fs), NEW h \in Elems(Kept(c, fs[k]))
  PROVE  h \in Elems(fs[k].hunks) /\ h \in AllHunks(p.files)
<1>1. h \in Elems(fs[k].hunks)
  BY HunksDistinct DEF Cut
<1>2. PICK j \in 1 .. Len(p.files) : fs[k] = p.files[j]
  BY DEF Cut
<1> QED
  BY <1>1, <1>2 DEF AllHunks

\* The lines of a file above its hunks are none of a hunk's.
LEMMA OwnLines ==
  ASSUME NEW n \in Nat, NEW c, NEW fs, FilesLaid(fs, c, n), NEW k \in 1 .. Len(fs),
         NEW x \in 1 .. n, c[x].kind \in BodyKinds \union HunkHeaders
  PROVE  x \notin Own(fs[k])
<1>1. PICK f : f = fs[k] /\ NamesLaid(f, c, n)
  BY DEF FilesLaid, FileLaid
<1>2. c[x].kind \notin {"git", "combined", "old", "new", "rename"}
  BY DEF BodyKinds, HunkHeaders
<1>3. x # f.header /\ x # f.old /\ x # f.new /\ x # 0 /\ x \notin Elems(f.renames)
  BY <1>1, <1>2 DEF NamesLaid, FileHeaders, Elems
<1> QED
  BY <1>1, <1>3 DEF Own

\* A line of a hunk is shown when the hunk is, and is one of those it keeps.
LEMMA LineShown ==
  ASSUME NEW n \in Nat, NEW c, Len(c) = n, Started(c), NEW p, NEW fs, NEW o, Cut(c, n, p, fs, o),
         NEW h \in AllHunks(p.files), NEW x \in 1 .. n, x = h.header \/ x \in HunkLines(h),
         c[x].kind \in BodyKinds \union HunkHeaders, x \in Elems(o)
  PROVE  x \in LinesOf(c, h) /\ LinesOf(c, h) \subseteq Elems(o)
<1>1. /\ p \in Parse /\ Layout(p, c, n) /\ FilesLaid(fs, c, n)
      /\ \A k \in 1 .. Len(fs) : Shows(c, fs[k], Kept(c, fs[k])) \subseteq Elems(o)
      /\ \A y \in Elems(o) :
           \/ y = 0 \/ y \in Elems(p.pre)
           \/ \E k \in 1 .. Len(fs) : y \in Own(fs[k]) \union Shows(c, fs[k], Kept(c, fs[k]))
  BY DEF Cut, TextOfDiff
<1>2. x \notin Elems(p.pre)
  <2>1. h \in Hunk /\ \A y \in Elems(p.pre) : y \in Nat /\ y < h.header
    BY <1>1, HunkPlace
  <2>2. h.header \in Nat /\ h.end \in Nat
    BY <2>1 DEF Hunk
  <2>3. x >= h.header
    BY <2>2 DEF HunkLines
  <2> QED
    BY <2>1, <2>2, <2>3
<1>3. PICK k \in 1 .. Len(fs) : x \in Own(fs[k]) \union Shows(c, fs[k], Kept(c, fs[k]))
  BY <1>1, <1>2
<1>4. x \notin Own(fs[k])
  BY <1>1, OwnLines
<1>5. x \in Shows(c, fs[k], Kept(c, fs[k]))
  BY <1>3, <1>4
<1>6. ~ fs[k].isBinary /\ \E a \in 1 .. Len(Kept(c, fs[k])) : x \in LinesOf(c, Kept(c, fs[k])[a])
  BY <1>5 DEF Shows
<1>7. PICK a \in 1 .. Len(Kept(c, fs[k])) : x \in LinesOf(c, Kept(c, fs[k])[a])
  BY <1>6
<1>8. PICK g : g = Kept(c, fs[k])[a] /\ g \in Elems(Kept(c, fs[k])) /\ x \in LinesOf(c, g)
  BY <1>7 DEF Elems
<1>9. g \in AllHunks(p.files)
  BY <1>8, KeptAreHunks
<1>10. x = g.header \/ x \in HunkLines(g)
  BY <1>8 DEF LinesOf, KeptLines
<1>11. g = h
  BY <1>1, <1>9, <1>10, OneHunkHas
<1>12. LinesOf(c, g) \subseteq Shows(c, fs[k], Kept(c, fs[k]))
  BY <1>6, <1>8 DEF Shows
<1> QED
  BY <1>1, <1>8, <1>11, <1>12

\* The lines below a header that are kept apart from names and headers.
LEMMA BodyLines ==
  ASSUME NEW n \in Nat, NEW c, Len(c) = n, NEW p \in Nat, NEW q \in BodyOf(c, p)
  PROVE  /\ q \in Nat /\ q \in p + 1 .. n /\ q \in 1 .. n /\ q # 0
         /\ c[q].kind \in BodyKinds \union HunkHeaders /\ c[q].kind \in BodyKinds
         /\ NoHeader(c, p + 1, q)
BY DEF BodyOf

\* They are the hunk's, when a hunk of the diff has the header.
LEMMA BodyInHunk ==
  ASSUME NEW n \in Nat, NEW c, Len(c) = n, NEW h \in Hunk, HunkLaid(h, c, n),
         NEW q \in BodyOf(c, h.header)
  PROVE  q \in HunkLines(h)
<1>1. h.header \in Nat /\ h.end \in Nat
  BY DEF Hunk
<1>2. q \in h.header + 1 .. n /\ c[q].kind \in BodyKinds /\ NoHeader(c, h.header + 1, q)
  BY <1>1, BodyLines
<1>3. c[q].kind \notin {"old", "new"}
  BY <1>2 DEF BodyKinds
<1>4. q \notin h.end + 1 .. n
  BY <1>2, <1>3 DEF HunkLaid
<1> QED
  BY <1>1, <1>2, <1>4 DEF HunkLines

\* Only one of the hunks that are kept has such lines.
LEMMA BodyOfOne ==
  ASSUME NEW n \in Nat, NEW c, Len(c) = n, Started(c), NEW p, NEW fs, NEW o, Cut(c, n, p, fs, o),
         NEW h \in AllHunks(p.files),
         NEW k \in 1 .. Len(fs), NEW g \in Elems(Kept(c, fs[k])),
         NEW x \in LinesOf(c, g), x \in BodyOf(c, h.header)
  PROVE  g = h
<1>1. p \in Parse /\ Layout(p, c, n)
  BY DEF Cut
<1>2. h \in Hunk /\ HunkLaid(h, c, n)
  BY <1>1, HunkPlace
<1>3. x \in HunkLines(h)
  BY <1>2, BodyInHunk
<1>4. x = g.header \/ x \in HunkLines(g)
  BY DEF LinesOf, KeptLines
<1>5. g \in AllHunks(p.files)
  BY KeptAreHunks
<1> QED
  BY <1>1, <1>3, <1>4, <1>5, OneHunkHas

\* The lines of a hunk are of one part of the text.
LEMMA BodyIsOnePart ==
  ASSUME NEW n \in Nat, NEW c, Len(c) = n, Started(c), NEW p, NEW fs, NEW o, Cut(c, n, p, fs, o),
         NEW h \in AllHunks(p.files)
  PROVE  OfOnePart(c, p.pre, fs, BodyOf(c, h.header))
<1>1. p \in Parse /\ Layout(p, c, n) /\ FilesLaid(fs, c, n)
  BY DEF Cut
<1>2. /\ h \in Hunk /\ \A y \in Elems(p.pre) : y \in Nat /\ y < h.header
  BY <1>1, HunkPlace
<1>3. h.header \in Nat
  BY <1>2 DEF Hunk
<1>4. PICK B : B = BodyOf(c, h.header)
  OBVIOUS
<1>5. ASSUME NEW q \in B
      PROVE  /\ q \in Nat /\ q > h.header /\ q \in 1 .. n /\ q # 0
             /\ c[q].kind \in BodyKinds \union HunkHeaders
  BY <1>3, <1>4, BodyLines
<1>6. 0 \notin B
  BY <1>5
<1>7. Elems(p.pre) \intersect B = {}
  <2>1. ASSUME NEW y \in Elems(p.pre), y \in B PROVE FALSE
    <3>1. y < h.header /\ y > h.header /\ y \in Nat
      BY <1>2, <1>5, <2>1
    <3> QED
      BY <1>3, <3>1
  <2> QED
    BY <2>1
<1>8. Ordered(p.pre, B)
  <2>1. \A k \in 1 .. Len(p.pre) : p.pre[k] \notin B
    BY <1>7 DEF Elems
  <2> QED
    BY <2>1 DEF Ordered
<1>9. ASSUME NEW k \in 1 .. Len(fs) PROVE Own(fs[k]) \intersect B = {}
  BY <1>1, <1>5, OwnLines
<1>10. ASSUME NEW k \in 1 .. Len(fs), NEW g \in Elems(Kept(c, fs[k])), NEW x \in LinesOf(c, g), x \in B
       PROVE  g = h
  BY <1>4, <1>10, BodyOfOne
<1>11. ASSUME NEW k \in 1 .. Len(fs) PROVE Apart(c, Kept(c, fs[k]), B)
  <2>1. PICK hs \in Seq(Hunk) : hs = Kept(c, fs[k]) /\ Distinct(hs)
    BY <1>1, HunksDistinct
  <2> SUFFICES ASSUME NEW a \in 1 .. Len(hs), NEW b \in 1 .. Len(hs), a # b,
                      NEW x \in LinesOf(c, hs[a]), x \in B,
                      NEW y \in LinesOf(c, hs[b]), y \in B
               PROVE  FALSE
    BY <2>1 DEF Apart
  <2>2. hs[a] \in Elems(Kept(c, fs[k])) /\ hs[b] \in Elems(Kept(c, fs[k]))
    BY <2>1 DEF Elems
  <2>3. hs[a] = h
    BY <1>10, <2>2
  <2>4. hs[b] = h
    BY <1>10, <2>2
  <2>5. hs[a] # hs[b]
    BY <2>1 DEF Distinct
  <2> QED
    BY <2>3, <2>4, <2>5
\* When a file shows lines of the hunk, the hunk is one of its hunks.
<1>12. ASSUME NEW k \in 1 .. Len(fs), Shows(c, fs[k], Kept(c, fs[k])) \intersect B # {}
       PROVE  h \in Elems(fs[k].hunks)
  <2>1. PICK x \in B : x \in Shows(c, fs[k], Kept(c, fs[k]))
    BY <1>12
  <2>2. PICK a \in 1 .. Len(Kept(c, fs[k])) : x \in LinesOf(c, Kept(c, fs[k])[a])
    <3>1. \E a \in 1 .. Len(Kept(c, fs[k])) : x \in LinesOf(c, Kept(c, fs[k])[a])
      BY <2>1 DEF Shows
    <3> QED
      BY <3>1
  <2>3. PICK g : g = Kept(c, fs[k])[a] /\ g \in Elems(Kept(c, fs[k])) /\ x \in LinesOf(c, g)
    BY <2>2 DEF Elems
  <2>4. g = h
    BY <1>10, <2>3
  <2> QED
    BY <2>3, <2>4, KeptAreHunks
<1>13. ASSUME NEW j \in 1 .. Len(fs), NEW k \in 1 .. Len(fs), j # k
       PROVE  \/ Shows(c, fs[j], Kept(c, fs[j])) \intersect B = {}
              \/ Shows(c, fs[k], Kept(c, fs[k])) \intersect B = {}
  <2>1. Elems(fs[j].hunks) \intersect Elems(fs[k].hunks) = {}
    BY <1>1, <1>13, FilesApart
  <2> QED
    BY <1>12, <2>1
<1>14. OfOnePart(c, p.pre, fs, B)
  BY <1>6, <1>7, <1>8, <1>9, <1>11, <1>13 DEF OfOnePart
<1> QED
  BY <1>4, <1>14

\* A hunk of a file that is parsed is whole in the text.
LEMMA HunkCut ==
  ASSUME NEW n \in Nat, NEW c, Len(c) = n, Started(c), NEW p, NEW fs, NEW o, Cut(c, n, p, fs, o),
         NEW h \in AllHunks(p.files)
  PROVE  HunkWhole(c, o, h.header)
<1>1. /\ p \in Parse /\ Layout(p, c, n)
      /\ \A B : OfOnePart(c, p.pre, fs, B) => Ordered(o, B)
  BY DEF Cut, TextOfDiff
<1>2. h \in Hunk /\ HunkLaid(h, c, n)
  BY <1>1, HunkPlace
<1>3. h.header \in Nat /\ h.end \in Nat /\ h.header \in 1 .. n /\ c[h.header].kind \in HunkHeaders
  BY <1>2 DEF Hunk, HunkLaid
<1>4. PICK B : B = BodyOf(c, h.header)
  OBVIOUS
<1>5. ASSUME NEW q \in B
      PROVE  /\ q \in Nat /\ q \in 1 .. n /\ q \in HunkLines(h)
             /\ c[q].kind \in BodyKinds \union HunkHeaders
  BY <1>2, <1>3, <1>4, BodyLines, BodyInHunk
<1>6. ASSUME NEW q \in B, q \in Elems(o) PROVE LinesOf(c, h) \subseteq Elems(o)
  BY <1>5, <1>6, LineShown
<1>7. h.header \in Elems(o) => LinesOf(c, h) \subseteq Elems(o)
  BY <1>3, LineShown
<1>8. h.header \in LinesOf(c, h)
  BY DEF LinesOf
<1>9. ASSUME NEW q \in B, c[q].kind \in Signed PROVE q \in LinesOf(c, h)
  <2>1. q \in OfKind(c, h, c[q].kind)
    BY <1>5 DEF OfKind
  <2> QED
    BY <1>3, <1>9, <2>1, ChangesKept
<1>10. ASSUME NEW q \in B, NEW r \in B, c[q].kind \in Signed,
              q - r <= MaxContextLines, r - q <= MaxContextLines
       PROVE  r \in LinesOf(c, h)
  <2>1. q \in {i \in HunkLines(h) : c[i].kind \in Signed} /\ r \in HunkLines(h)
    BY <1>5, <1>10
  <2>2. r \in KeptLines(c, h)
    BY <1>10, <2>1 DEF KeptLines
  <2> QED
    BY <2>2 DEF LinesOf
<1>11. Ordered(o, B)
  BY <1>1, <1>4, BodyIsOnePart
<1>12. \A q \in B : c[q].kind \in Signed => (q \in Elems(o) <=> h.header \in Elems(o))
  BY <1>6, <1>7, <1>8, <1>9
<1>13. \A q, r \in B : /\ c[q].kind \in Signed /\ q \in Elems(o)
                       /\ q - r <= MaxContextLines /\ r - q <= MaxContextLines
                       => r \in Elems(o)
  BY <1>6, <1>10
<1> QED
  BY <1>4, <1>11, <1>12, <1>13 DEF HunkWhole

\* So is a hunk above the first file.
LEMMA PreCut ==
  ASSUME NEW n \in Nat, NEW c, Len(c) = n, Started(c), NEW p, NEW fs, NEW o, Cut(c, n, p, fs, o),
         NEW g \in 1 .. n, g <= Len(p.pre)
  PROVE  HunkWhole(c, o, g)
<1>1. /\ p \in Parse /\ Layout(p, c, n) /\ FilesLaid(fs, c, n) /\ Elems(p.pre) \subseteq Elems(o)
      /\ \A B : OfOnePart(c, p.pre, fs, B) => Ordered(o, B)
  BY DEF Cut, TextOfDiff
<1>2. PICK pre \in Seq(Nat), all \in Seq(File) : pre = p.pre /\ all = p.files
  BY <1>1 DEF Parse
<1>3. PICK m \in Nat : m = Len(pre)
  OBVIOUS
<1>4. /\ m <= n /\ \A k \in 1 .. m : pre[k] = k
      /\ all = << >> => m = n
      /\ all # << >> => all[1].header = m + 1
      /\ \A k \in 1 .. Len(all) : FileLaid(all[k], c, n)
  BY <1>1, <1>2, <1>3 DEF Layout
<1>5. PICK B : B = BodyOf(c, g)
  OBVIOUS
<1>6. ASSUME NEW q \in B
      PROVE  /\ q \in Nat /\ q \in g + 1 .. n /\ q # 0 /\ q \in 1 .. n
             /\ c[q].kind \in BodyKinds \union HunkHeaders /\ NoHeader(c, g + 1, q)
  BY <1>5, BodyLines
<1>7. ASSUME NEW q \in B PROVE q \in 1 .. m
  <2>1. CASE all = << >>
    BY <1>4, <1>6, <2>1
  <2>2. CASE all # << >>
    <3>1. 1 \in 1 .. Len(all)
      BY <2>2
    <3>2. NamesLaid(all[1], c, n)
      BY <1>4, <3>1 DEF FileLaid
    <3>3. c[m + 1].kind \in Headers
      BY <1>4, <2>2, <3>2 DEF NamesLaid, Headers
    <3>4. m + 1 \notin g + 1 .. q
      BY <1>6, <3>3 DEF NoHeader
    <3> QED
      BY <1>2, <1>3, <1>6, <3>4
  <2> QED
    BY <2>1, <2>2
<1>8. \A k \in 1 .. m : k \in Elems(p.pre)
  BY <1>2, <1>3, <1>4 DEF Elems
<1>9. B \subseteq Elems(o) /\ g \in Elems(o)
  BY <1>1, <1>2, <1>3, <1>7, <1>8
<1>10. Ordered(p.pre, B)
  <2>1. \A k, l \in 1 .. Len(pre) : k < l => pre[k] < pre[l]
    BY <1>3, <1>4
  <2> QED
    BY <1>2, <2>1 DEF Ordered
<1>11. ASSUME NEW k \in 1 .. Len(fs), NEW h \in Elems(Kept(c, fs[k])) PROVE LinesOf(c, h) \intersect B = {}
  <2>1. h \in AllHunks(p.files)
    BY KeptAreHunks
  <2>2. h \in Hunk /\ Len(p.pre) < h.header
    BY <1>1, <2>1, HunkPlace
  <2>3. h.header \in Nat /\ h.end \in Nat /\ m < h.header
    BY <1>2, <1>3, <2>2 DEF Hunk
  <2>4. \A x \in LinesOf(c, h) : x >= h.header
    BY <2>3 DEF LinesOf, KeptLines, HunkLines
  <2>5. ASSUME NEW x \in LinesOf(c, h), x \in B PROVE FALSE
    <3>1. x \in 1 .. m /\ x >= h.header
      BY <1>7, <2>4, <2>5
    <3> QED
      BY <2>3, <3>1
  <2> QED
    BY <2>5
<1>12. ASSUME NEW k \in 1 .. Len(fs)
       PROVE  /\ Own(fs[k]) \intersect B = {}
              /\ Apart(c, Kept(c, fs[k]), B)
              /\ Shows(c, fs[k], Kept(c, fs[k])) \intersect B = {}
  <2>1. Own(fs[k]) \intersect B = {}
    BY <1>1, <1>6, OwnLines
  <2>2. \A a \in 1 .. Len(Kept(c, fs[k])) : LinesOf(c, Kept(c, fs[k])[a]) \intersect B = {}
    BY <1>11 DEF Elems
  <2>3. Apart(c, Kept(c, fs[k]), B)
    BY <2>2 DEF Apart
  <2>4. Shows(c, fs[k], Kept(c, fs[k])) \intersect B = {}
    BY <2>2 DEF Shows
  <2> QED
    BY <2>1, <2>3, <2>4
<1>13. 0 \notin B
  BY <1>6
<1>14. OfOnePart(c, p.pre, fs, B)
  BY <1>10, <1>12, <1>13 DEF OfOnePart
<1>15. Ordered(o, B)
  BY <1>1, <1>14
<1> QED
  BY <1>5, <1>9, <1>15 DEF HunkWhole

\* Every hunk of a diff is whole in what the compressor writes.
LEMMA AllWhole ==
  ASSUME NEW n \in Nat, NEW c, Len(c) = n, Started(c),
         NEW g \in 1 .. n, c[g].kind \in HunkHeaders
  PROVE  HunkWhole(c, Compressed(c, parseDiff(c)).output, g)
<1>1. PICK p, o : p = parseDiff(c) /\ o = Compressed(c, parseDiff(c)).output
  OBVIOUS
<1>2. PICK fs : Cut(c, n, p, fs, o)
  BY <1>1, CompressedCut
<1>3. g <= Len(p.pre) \/ \E k \in 1 .. Len(p.files) : g \in Heads(p.files[k].hunks)
  BY <1>2 DEF Cut, Layout
<1>4. CASE g <= Len(p.pre)
  BY <1>1, <1>2, <1>4, PreCut
<1>5. CASE \E k \in 1 .. Len(p.files) : g \in Heads(p.files[k].hunks)
  <2>1. PICK k \in 1 .. Len(p.files) : g \in Heads(p.files[k].hunks)
    BY <1>5
  <2>2. PICK h : h \in Elems(p.files[k].hunks) /\ g = h.header
    BY <2>1 DEF Heads, Elems
  <2>3. h \in AllHunks(p.files)
    BY <2>2 DEF AllHunks
  <2>4. HunkWhole(c, o, h.header)
    BY <1>2, <2>3, HunkCut
  <2> QED
    BY <1>1, <2>2, <2>4
<1> QED
  BY <1>3, <1>4, <1>5

-----------------------------------------------------------------------------
(* WholeHunks *)

\* The property, of any content and of the numbers of its lines that are shown.
HeaderIn(c, i) ==
  LET above == {j \in 1 .. i - 1 : c[j].kind \in HunkHeaders}
      at    == CHOOSE j \in above : \A k \in above : k <= j
  IN IF above = {} \/ \E j \in at .. i : c[j].kind \in FileHeaders THEN 0 ELSE at

BodiesIn(c) == {i \in DOMAIN c : c[i].kind \in BodyKinds /\ HeaderIn(c, i) # 0}

ChangesIn(c) == {i \in BodiesIn(c) : c[i].kind \in Signed}

NearIn(c, i, j) ==
  HeaderIn(c, i) = HeaderIn(c, j) /\ i - j <= MaxContextLines /\ j - i <= MaxContextLines

ShownIn(s, i) == \E k \in DOMAIN s : s[k] = i

WholeIn(c, s) ==
  /\ \A i \in ChangesIn(c) : ShownIn(s, i) <=> ShownIn(s, HeaderIn(c, i))
  /\ \A i \in ChangesIn(c), j \in BodiesIn(c) : ShownIn(s, i) /\ NearIn(c, i, j) => ShownIn(s, j)
  /\ \A k, l \in DOMAIN s :
       /\ k < l
       /\ {s[k], s[l]} \subseteq BodiesIn(c)
       /\ HeaderIn(c, s[k]) = HeaderIn(c, s[l])
       => s[k] < s[l]

\* w consists of lines of c, numbered by s, and of others; the lines of c are in order,
\* and those of a hunk together.
Faithful(c, w, s) ==
  /\ s \in Seq(0 .. Len(c)) /\ Len(s) = Len(w)
  /\ \A k \in 1 .. Len(s) : s[k] # 0 => w[k] = c[s[k]]
  /\ Ascends(s) /\ Adjoins(c, s)

\* A line of a hunk is below its header, with none between them.
LEMMA HeaderAbove ==
  ASSUME NEW n \in Nat, NEW c, Len(c) = n, DOMAIN c = 1 .. n, NEW i \in BodiesIn(c),
         NEW h, h = HeaderIn(c, i)
  PROVE  /\ h \in Nat /\ i \in Nat /\ h # 0 /\ i # 0 /\ Under(c, h, i)
         /\ c[h].kind \in HunkHeaders /\ NoHeader(c, h + 1, i)
<1>1. i \in 1 .. n /\ c[i].kind \in BodyKinds /\ h # 0
  BY DEF BodiesIn
<1>2. PICK above : above = {j \in 1 .. i - 1 : c[j].kind \in HunkHeaders}
  OBVIOUS
<1>3. PICK at : at = CHOOSE j \in above : \A k \in above : k <= j
  OBVIOUS
<1>4. h = IF above = {} \/ \E j \in at .. i : c[j].kind \in FileHeaders THEN 0 ELSE at
  BY <1>2, <1>3 DEF HeaderIn
<1>5. above # {} /\ h = at /\ \A j \in h .. i : c[j].kind \notin FileHeaders
  BY <1>1, <1>4
<1>6. \E j \in above : \A k \in above : k <= j
  <2>1. above \subseteq 1 .. i - 1 /\ above \subseteq Int
    BY <1>2
  <2>2. IsFiniteSet(1 .. i - 1)
    BY <1>1, FS_Interval
  <2>3. IsFiniteSet(above)
    BY <2>1, <2>2, FS_Subset
  <2> QED
    BY <1>5, <2>1, <2>3, GreatestElement
<1>7. at \in above /\ \A k \in above : k <= at
  BY <1>3, <1>6
<1>8. h \in 1 .. i - 1 /\ c[h].kind \in HunkHeaders /\ \A k \in above : k <= h
  BY <1>2, <1>5, <1>7
<1>9. ASSUME NEW k \in h + 1 .. i PROVE c[k].kind \notin Headers
  <2>1. c[k].kind \notin FileHeaders
    BY <1>1, <1>5, <1>8
  <2>2. CASE k = i
    BY <1>1, <2>1, <2>2 DEF BodyKinds, Headers, HunkHeaders
  <2>3. CASE k # i
    <3>1. k \in 1 .. i - 1 /\ k > h
      BY <1>1, <1>8, <2>3
    <3>2. k \notin above
      BY <1>8, <3>1
    <3> QED
      BY <1>2, <2>1, <3>1, <3>2 DEF Headers
  <2> QED
    BY <2>2, <2>3
<1>10. Under(c, h, i)
  BY <1>1, <1>5, <1>8 DEF Under
<1> QED
  BY <1>1, <1>8, <1>9, <1>10 DEF NoHeader

\* The hunk header h is at place p of the wire, and its line i as far below as in c.
HunkAt(c, w, s, i, h, p) ==
  /\ s[p] = h /\ w[p].kind \in HunkHeaders
  /\ p + (i - h) \in BodyOf(w, p) /\ s[p + (i - h)] = i /\ w[p + (i - h)] = c[i]

\* When one of the lines from a hunk's header h to its line i is on the wire, so are
\* all, and those below the header make up a hunk there.
LEMMA BodyListed ==
  ASSUME NEW n \in Nat, NEW c, Len(c) = n, DOMAIN c = 1 .. n,
         NEW z \in Nat, NEW w, Len(w) = z, NEW s, Faithful(c, w, s),
         NEW i \in BodiesIn(c), NEW h, h = HeaderIn(c, i),
         NEW k \in 1 .. z, s[k] \in h .. i
  PROVE  \E p \in 1 .. z : p = k - s[k] + h /\ HunkAt(c, w, s, i, h, p)
<1>1. /\ s \in Seq(0 .. n) /\ Len(s) = z /\ Adjoins(c, s)
      /\ \A j \in 1 .. z : s[j] # 0 => w[j] = c[s[j]]
  BY DEF Faithful
<1>2. /\ h \in Nat /\ i \in Nat /\ h # 0 /\ i # 0 /\ Under(c, h, i)
      /\ c[h].kind \in HunkHeaders /\ NoHeader(c, h + 1, i)
  BY HeaderAbove
<1>3. h \in 1 .. i - 1 /\ i \in 1 .. n /\ c[i].kind \in BodyKinds
  BY <1>2 DEF Under, BodiesIn
<1>4. PICK x \in Nat : x = s[k] /\ x \in h .. i
  BY <1>1
<1>5. PICK p \in Int : p = k - x + h
  BY <1>3
<1>6. \A d \in 0 .. i - h : k - s[k] + h + d \in 1 .. Len(s) /\ s[k - s[k] + h + d] = h + d
  <2>1. k \in 1 .. Len(s)
    BY <1>1
  <2>2. Run(s, k, h, i)
    BY <1>1, <1>2, <2>1, Together
  <2> QED
    BY <2>2 DEF Run
<1>7. \A d \in 0 .. i - h : p + d \in 1 .. z /\ s[p + d] = h + d
  BY <1>1, <1>4, <1>5, <1>6
<1>8. \A d \in 0 .. i - h : w[p + d] = c[h + d]
  BY <1>1, <1>3, <1>7
<1>9. p \in 1 .. z /\ s[p] = h /\ w[p] = c[h]
  <2>1. 0 \in 0 .. i - h
    BY <1>3
  <2>2. p + 0 \in 1 .. z /\ s[p + 0] = h + 0 /\ w[p + 0] = c[h + 0]
    BY <1>7, <1>8, <2>1
  <2>3. p + 0 = p /\ h + 0 = h
    BY <1>3
  <2> QED
    BY <2>2, <2>3
<1>10. p + (i - h) \in 1 .. z /\ s[p + (i - h)] = i /\ w[p + (i - h)] = c[i]
  <2>1. i - h \in 0 .. i - h
    BY <1>3
  <2>2. /\ p + (i - h) \in 1 .. z /\ s[p + (i - h)] = h + (i - h)
        /\ w[p + (i - h)] = c[h + (i - h)]
    BY <1>7, <1>8, <2>1
  <2>3. h + (i - h) = i
    BY <1>3
  <2> QED
    BY <2>2, <2>3
<1>11. ASSUME NEW j \in p + 1 .. p + (i - h) PROVE w[j].kind \notin Headers
  <2>1. PICK d \in 0 .. i - h : d = j - p /\ d > 0 /\ j = p + d
    BY <1>3
  <2>2. h + d \in h + 1 .. i
    BY <1>3, <2>1
  <2>3. c[h + d].kind \notin Headers
    BY <1>2, <2>2 DEF NoHeader
  <2> QED
    BY <1>8, <2>1, <2>3
<1>12. p + (i - h) \in p + 1 .. z
  BY <1>3, <1>9, <1>10
<1>13. p + (i - h) \in BodyOf(w, p)
  BY <1>3, <1>10, <1>11, <1>12 DEF BodyOf, NoHeader
<1> QED
  BY <1>2, <1>4, <1>5, <1>9, <1>10, <1>13 DEF HunkAt

\* t has the numbers of s that o picks, and nothing else.
Composed(t, o, s) ==
  /\ Len(o) <= Len(t)
  /\ \A k \in 1 .. Len(o) : t[k] = IF o[k] = 0 THEN 0 ELSE s[o[k]]
  /\ \A k \in Len(o) + 1 .. Len(t) : t[k] = 0

\* When o shows the hunks of w whole, the hunks of the content are.
LEMMA StaysWhole ==
  ASSUME NEW n \in Nat, NEW c, Len(c) = n, DOMAIN c = 1 .. n,
         NEW z \in Nat, NEW w, Len(w) = z, NEW s, Faithful(c, w, s),
         NEW o \in Seq(0 .. z), \A g \in 1 .. z : w[g].kind \in HunkHeaders => HunkWhole(w, o, g),
         NEW t, DOMAIN t = 1 .. Len(t), Len(t) \in Nat, Composed(t, o, s)
  PROVE  WholeIn(c, t)
<1>1. PICK m \in Nat : m = Len(o) /\ \A k \in 1 .. m : o[k] \in 0 .. z
  <2>1. \A k \in 1 .. Len(o) : o[k] \in 0 .. z
    OBVIOUS
  <2> QED
    BY <2>1
<1>2. PICK y \in Nat : y = Len(t) /\ DOMAIN t = 1 .. y /\ m <= y
  BY <1>1 DEF Composed
<1>3. /\ \A k \in 1 .. m : t[k] = IF o[k] = 0 THEN 0 ELSE s[o[k]]
      /\ \A k \in m + 1 .. y : t[k] = 0
  BY <1>1, <1>2 DEF Composed
<1>4. s \in Seq(0 .. n) /\ Len(s) = z /\ Ascends(s)
  BY DEF Faithful
<1>5. \A k \in 1 .. z : s[k] \in 0 .. n
  BY <1>4
\* The lines that are shown.
<1>6. ASSUME NEW i \in Nat, i # 0, NEW k \in 1 .. y, t[k] = i
      PROVE  k \in 1 .. m /\ o[k] \in 1 .. z /\ o[k] \in Elems(o) /\ s[o[k]] = i
  <2>1. k \in 1 .. m
    <3>1. k \notin m + 1 .. y
      BY <1>3, <1>6
    <3> QED
      BY <1>2, <3>1
  <2>2. o[k] # 0 /\ o[k] \in 0 .. z
    BY <1>1, <1>3, <1>6, <2>1
  <2>3. o[k] \in 1 .. z /\ s[o[k]] = i
    BY <1>3, <1>6, <2>1, <2>2
  <2>4. o[k] \in Elems(o)
    BY <1>1, <2>1 DEF Elems
  <2> QED
    BY <2>1, <2>3, <2>4
<1>7. ASSUME NEW i \in Nat, i # 0, ShownIn(t, i)
      PROVE  \E q \in 1 .. z : q \in Elems(o) /\ s[q] = i
  BY <1>2, <1>6, <1>7 DEF ShownIn
<1>8. ASSUME NEW q \in 1 .. z, q \in Elems(o) PROVE ShownIn(t, s[q])
  <2>1. PICK k \in 1 .. m : o[k] = q
    BY <1>1, <1>8 DEF Elems
  <2>2. k \in 1 .. y
    BY ONLY <1>2
  <2>3. t[k] = s[q]
    BY <1>3, <2>1
  <2> QED
    BY ONLY <1>2, <2>2, <2>3 DEF ShownIn
\* A line of a hunk and the header of the hunk are on the wire together.
<1>9. ASSUME NEW i \in BodiesIn(c), NEW h, h = HeaderIn(c, i), NEW q \in 1 .. z, s[q] = i
      PROVE  \E p \in 1 .. z : /\ s[p] = h /\ HunkWhole(w, o, p)
                               /\ q \in BodyOf(w, p) /\ q = p + (i - h) /\ w[q] = c[i]
  <2>1. h \in Nat /\ i \in Nat /\ h \in 1 .. i - 1
    BY <1>9, HeaderAbove DEF Under
  <2>2. s[q] \in h .. i
    BY <1>9, <2>1
  <2>3. PICK p \in 1 .. z : p = q - s[q] + h /\ HunkAt(c, w, s, i, h, p)
    BY <1>9, <2>2, BodyListed
  <2>4. q = p + (i - h)
    BY <1>9, <2>1, <2>3
  <2> QED
    BY <2>3, <2>4 DEF HunkAt
<1>10. ASSUME NEW i \in BodiesIn(c), NEW h, h = HeaderIn(c, i), NEW p \in 1 .. z, s[p] = h
       PROVE  \E q \in 1 .. z : /\ s[q] = i /\ HunkWhole(w, o, p)
                                /\ q \in BodyOf(w, p) /\ q = p + (i - h) /\ w[q] = c[i]
  <2>1. h \in Nat /\ i \in Nat /\ h \in 1 .. i - 1
    BY <1>10, HeaderAbove DEF Under
  <2>2. s[p] \in h .. i
    BY <1>10, <2>1
  <2>3. PICK x \in 1 .. z : x = p - s[p] + h /\ HunkAt(c, w, s, i, h, x)
    BY <1>10, <2>2, BodyListed
  <2>4. x = p
    BY <1>10, <2>1, <2>3
  <2>5. HunkWhole(w, o, p)
    BY <2>3, <2>4 DEF HunkAt
  <2>6. PICK q \in Int : q = p + (i - h)
    BY <2>1
  <2>7. q \in BodyOf(w, p) /\ s[q] = i /\ w[q] = c[i]
    BY <2>3, <2>4, <2>6 DEF HunkAt
  <2>8. q \in 1 .. z
    BY <2>7, BodyLines
  <2> QED
    BY <2>5, <2>6, <2>7, <2>8
\* The three parts of the property.
<1>11. ASSUME NEW i \in ChangesIn(c) PROVE ShownIn(t, i) <=> ShownIn(t, HeaderIn(c, i))
  <2>1. i \in BodiesIn(c) /\ c[i].kind \in Signed
    BY DEF ChangesIn
  <2>2. PICK h : h = HeaderIn(c, i)
    OBVIOUS
  <2>3. h \in Nat /\ h # 0 /\ i \in Nat /\ i # 0
    BY <2>1, <2>2, HeaderAbove
  <2>4. ASSUME ShownIn(t, i) PROVE ShownIn(t, h)
    <3>1. PICK q \in 1 .. z : q \in Elems(o) /\ s[q] = i
      BY <1>7, <2>3, <2>4
    <3>2. PICK p \in 1 .. z : /\ s[p] = h /\ HunkWhole(w, o, p)
                              /\ q \in BodyOf(w, p) /\ w[q] = c[i]
      BY <1>9, <2>1, <2>2, <3>1
    <3>3. p \in Elems(o)
      BY <2>1, <3>1, <3>2 DEF HunkWhole
    <3> QED
      BY <1>8, <3>2, <3>3
  <2>5. ASSUME ShownIn(t, h) PROVE ShownIn(t, i)
    <3>1. PICK p \in 1 .. z : p \in Elems(o) /\ s[p] = h
      BY <1>7, <2>3, <2>5
    <3>2. PICK q \in 1 .. z : /\ s[q] = i /\ HunkWhole(w, o, p)
                              /\ q \in BodyOf(w, p) /\ w[q] = c[i]
      BY <1>10, <2>1, <2>2, <3>1
    <3>3. q \in Elems(o)
      BY <2>1, <3>1, <3>2 DEF HunkWhole
    <3> QED
      BY <1>8, <3>2, <3>3
  <2> QED
    BY <2>2, <2>4, <2>5
<1>12. ASSUME NEW i \in ChangesIn(c), NEW j \in BodiesIn(c), ShownIn(t, i), NearIn(c, i, j)
       PROVE  ShownIn(t, j)
  <2>1. i \in BodiesIn(c) /\ c[i].kind \in Signed
    BY DEF ChangesIn
  <2>2. PICK h : /\ h = HeaderIn(c, i) /\ h = HeaderIn(c, j)
                 /\ i - j <= MaxContextLines /\ j - i <= MaxContextLines
    BY <1>12 DEF NearIn
  <2>3. h \in Nat /\ i \in Nat /\ i # 0
    BY <2>1, <2>2, HeaderAbove
  <2>4. j \in Nat
    BY <2>2, HeaderAbove
  <2>5. PICK q \in 1 .. z : q \in Elems(o) /\ s[q] = i
    BY <1>7, <1>12, <2>3
  <2>6. PICK p \in 1 .. z : /\ s[p] = h /\ HunkWhole(w, o, p)
                            /\ q \in BodyOf(w, p) /\ q = p + (i - h) /\ w[q] = c[i]
    <3>1. h = HeaderIn(c, i)
      BY <2>2
    <3> QED
      BY <1>9, <2>1, <2>5, <3>1
  <2>7. PICK r \in 1 .. z : s[r] = j /\ r \in BodyOf(w, p) /\ r = p + (j - h)
    BY <1>10, <2>2, <2>6
  <2>8. q - r = i - j /\ r - q = j - i
    BY <2>3, <2>4, <2>6, <2>7
  <2>9. q - r <= MaxContextLines /\ r - q <= MaxContextLines
    BY <2>2, <2>8
  <2>10. r \in Elems(o)
    BY <2>1, <2>5, <2>6, <2>7, <2>9 DEF HunkWhole
  <2> QED
    BY <1>8, <2>7, <2>10
<1>13. ASSUME NEW k \in 1 .. y, NEW l \in 1 .. y, k < l, t[k] \in BodiesIn(c), t[l] \in BodiesIn(c),
              HeaderIn(c, t[k]) = HeaderIn(c, t[l])
       PROVE  t[k] < t[l]
  <2>1. PICK i \in BodiesIn(c), j \in BodiesIn(c) : i = t[k] /\ j = t[l]
    BY <1>13
  <2>2. PICK h : h = HeaderIn(c, i) /\ h = HeaderIn(c, j)
    BY <1>13, <2>1
  <2>3. h \in Nat /\ h # 0 /\ i \in Nat /\ i # 0 /\ j \in Nat /\ j # 0
    BY <2>2, HeaderAbove
  <2>4. k \in 1 .. m /\ o[k] \in 1 .. z /\ s[o[k]] = i
    BY <1>6, <2>1, <2>3
  <2>5. l \in 1 .. m /\ o[l] \in 1 .. z /\ s[o[l]] = j
    BY <1>6, <2>1, <2>3
  <2>12. PICK a \in 1 .. z, b \in 1 .. z : a = o[k] /\ b = o[l] /\ s[a] = i /\ s[b] = j
    BY <2>4, <2>5
  <2>13. h = HeaderIn(c, i) /\ h = HeaderIn(c, j)
    BY <2>2
  <2>14. \E p \in 1 .. z : s[p] = h /\ HunkWhole(w, o, p) /\ a \in BodyOf(w, p)
    <3>1. s[a] = i /\ h = HeaderIn(c, i)
      BY <2>12, <2>13
    <3> QED
      BY ONLY <1>9, <3>1
  <2>15. \E r \in 1 .. z : s[r] = h /\ b \in BodyOf(w, r)
    <3>1. s[b] = j /\ h = HeaderIn(c, j)
      BY <2>12, <2>13
    <3> QED
      BY ONLY <1>9, <3>1
  <2>6. PICK p \in 1 .. z : s[p] = h /\ HunkWhole(w, o, p) /\ o[k] \in BodyOf(w, p)
    BY <2>12, <2>14
  <2>7. PICK r \in 1 .. z : s[r] = h /\ o[l] \in BodyOf(w, r)
    BY <2>12, <2>15
  <2>8. p = r
    <3>1. p < r => s[p] < s[r]
      BY <1>4, <2>3, <2>6, <2>7 DEF Ascends
    <3>2. r < p => s[r] < s[p]
      BY <1>4, <2>3, <2>6, <2>7 DEF Ascends
    <3> QED
      BY <2>3, <2>6, <2>7, <3>1, <3>2
  <2>9. Ordered(o, BodyOf(w, p))
    BY <2>6 DEF HunkWhole
  <2>10. o[k] < o[l]
    BY <1>1, <1>13, <2>4, <2>5, <2>6, <2>7, <2>8, <2>9 DEF Ordered
  <2>11. s[o[k]] < s[o[l]]
    BY <1>4, <2>3, <2>4, <2>5, <2>10 DEF Ascends
  <2> QED
    BY <2>1, <2>4, <2>5, <2>11
<1> QED
  BY <1>2, <1>11, <1>12, <1>13 DEF WholeIn

\* What is on the wire before the compressor has its turn shows all hunks whole.
LEMMA FaithfulIsWhole ==
  ASSUME NEW n \in Nat, NEW c, Len(c) = n, DOMAIN c = 1 .. n,
         NEW z \in Nat, NEW w, Len(w) = z, NEW s, Faithful(c, w, s)
  PROVE  WholeIn(c, s)
<1>1. PICK o : o = [k \in 1 .. z |-> k]
  OBVIOUS
<1>2. o \in Seq(0 .. z) /\ Len(o) = z
  <2>1. PICK T : T = 0 .. z
    OBVIOUS
  <2>2. o \in [1 .. z -> T]
    BY <1>1, <2>1
  <2>3. o \in Seq(T) /\ Len(o) = z
    BY <2>2, SeqDef
  <2> QED
    BY <2>1, <2>3
<1>3. s \in Seq(0 .. n) /\ Len(s) = z
  BY DEF Faithful
<1>4. Elems(o) = 1 .. z
  BY <1>1, <1>2 DEF Elems
<1>5. ASSUME NEW g \in 1 .. z PROVE HunkWhole(w, o, g)
  <2>1. \A q \in BodyOf(w, g) : q \in 1 .. z
    BY BodyLines
  <2>2. \A B : Ordered(o, B)
    BY <1>1, <1>2 DEF Ordered
  <2> QED
    BY <1>4, <2>1, <2>2 DEF HunkWhole
<1>6. Composed(s, o, s)
  <2>1. \A k \in 1 .. z : o[k] = k /\ o[k] # 0
    BY <1>1
  <2> QED
    BY <1>2, <1>3, <2>1 DEF Composed
<1>7. DOMAIN s = 1 .. Len(s) /\ Len(s) \in Nat
  BY <1>3
<1> QED
  BY <1>2, <1>5, <1>6, <1>7, StaysWhole

\* What the compressor writes are lines of what it gets.
LEMMA CutLines ==
  ASSUME NEW n \in Nat, NEW c, Len(c) = n, Started(c), NEW p, NEW fs, NEW o, Cut(c, n, p, fs, o)
  PROVE  o \in Seq(0 .. n)
<1>1. /\ p \in Parse /\ Layout(p, c, n) /\ FilesLaid(fs, c, n) /\ o \in Seq(Nat)
      /\ \A y \in Elems(o) :
           \/ y = 0 \/ y \in Elems(p.pre)
           \/ \E k \in 1 .. Len(fs) : y \in Own(fs[k]) \union Shows(c, fs[k], Kept(c, fs[k]))
  BY DEF Cut, TextOfDiff
<1>2. \A y \in Elems(p.pre) : y \in 0 .. n
  <2>1. PICK pre \in Seq(Nat) : pre = p.pre
    BY <1>1 DEF Parse
  <2>2. PICK m \in Nat : m = Len(pre)
    OBVIOUS
  <2>3. m <= n /\ \A k \in 1 .. m : pre[k] = k
    BY <1>1, <2>1, <2>2 DEF Layout
  <2> QED
    BY <2>1, <2>2, <2>3 DEF Elems
<1>3. ASSUME NEW k \in 1 .. Len(fs), NEW y \in Own(fs[k]) PROVE y \in 0 .. n
  <2>1. PICK f : f = fs[k] /\ NamesLaid(f, c, n)
    BY <1>1 DEF FilesLaid, FileLaid
  <2>2. /\ f.header \in 0 .. n /\ f.old \in 0 .. n /\ f.new \in 0 .. n
        /\ \A x \in Elems(f.renames) : x \in 0 .. n
    BY <2>1 DEF NamesLaid, Elems
  <2> QED
    BY <2>1, <2>2 DEF Own
<1>4. ASSUME NEW k \in 1 .. Len(fs), NEW y \in Shows(c, fs[k], Kept(c, fs[k])) PROVE y \in 0 .. n
  <2>1. PICK a \in 1 .. Len(Kept(c, fs[k])) : y \in LinesOf(c, Kept(c, fs[k])[a])
    <3>1. \E a \in 1 .. Len(Kept(c, fs[k])) : y \in LinesOf(c, Kept(c, fs[k])[a])
      BY DEF Shows
    <3> QED
      BY <3>1
  <2>2. PICK g : g = Kept(c, fs[k])[a] /\ g \in Elems(Kept(c, fs[k])) /\ y \in LinesOf(c, g)
    BY <2>1 DEF Elems
  <2>3. g \in Hunk /\ HunkLaid(g, c, n)
    BY <1>1, <2>2, KeptAreHunks, HunkPlace
  <2>4. g.header \in 1 .. n /\ g.end \in g.header .. n
    BY <2>3 DEF HunkLaid
  <2> QED
    BY <2>2, <2>4 DEF LinesOf, KeptLines, HunkLines
<1>5. Elems(o) \subseteq 0 .. n
  BY <1>1, <1>2, <1>3, <1>4
<1> QED
  BY <1>1, <1>5, ElemsType

\* w and s are what diff_noise makes of c, o the numbers of the lines it writes.
NoiseText(c, o, w, s) ==
  /\ Len(w) = Len(o) + 2 /\ Len(s) = Len(o) + 2
  /\ \A k \in 1 .. Len(o) : (o[k] # 0 => w[k] = c[o[k]]) /\ s[k] = o[k]
  /\ s[Len(o) + 1] = 0 /\ s[Len(o) + 2] = 0

\* What diff_noise writes numbers the lines that are left and two of its own.
LEMMA NoiseIsFaithful ==
  ASSUME NEW n \in Nat, NEW c, Len(c) = n, DOMAIN c = 1 .. n,
         NEW o, o = NoiseOutput(c), NEW w, NEW s \in Seq(0 .. n), NoiseText(c, o, w, s)
  PROVE  Faithful(c, w, s)
<1>1. o \in Seq(0 .. n) /\ Ascends(o) /\ Adjoins(c, o)
  BY NoiseType, NoiseInOrder
<1>6. PICK m \in Nat : m = Len(o)
  BY <1>1
<1>7. /\ Len(w) = m + 2 /\ Len(s) = m + 2
      /\ \A k \in 1 .. m : (o[k] # 0 => w[k] = c[o[k]]) /\ s[k] = o[k]
      /\ s[m + 1] = 0 /\ s[m + 2] = 0
  BY ONLY <1>6, NoiseText(c, o, w, s) DEF NoiseText
<1>2. \A k \in 1 .. m + 2 : k \in 1 .. m \/ (k > m /\ s[k] = 0)
  <2>1. \A k \in 1 .. m + 2 : k \in 1 .. m \/ k = m + 1 \/ k = m + 2
    OBVIOUS
  <2> QED
    BY <1>7, <2>1
<1>3. \A k \in 1 .. m + 2 : s[k] # 0 => w[k] = c[s[k]]
  BY <1>2, <1>7
<1>4. Ascends(s)
  <2> SUFFICES ASSUME NEW k \in 1 .. m + 2, NEW l \in 1 .. m + 2, k < l, s[k] # 0, s[l] # 0
               PROVE  s[k] < s[l]
    BY <1>7 DEF Ascends
  <2>1. k \in 1 .. m /\ l \in 1 .. m
    BY <1>2
  <2>2. o[k] < o[l]
    BY <1>1, <1>6, <1>7, <2>1 DEF Ascends
  <2> QED
    BY <1>7, <2>1, <2>2
<1>5. Adjoins(c, s)
  <2> SUFFICES ASSUME NEW h \in Nat, NEW i \in Nat, Under(c, h, i), NEW k \in 1 .. m + 2
               PROVE  NextTo(s, k, i)
    BY <1>7 DEF Adjoins
  <2>1. i # 0 /\ i - 1 # 0
    BY DEF Under
  <2>2. CASE k \notin 1 .. m
    BY <1>2, <2>1, <2>2 DEF NextTo
  <2>3. CASE k \in 1 .. m
    <3>1. NextTo(o, k, i)
      BY <1>1, <1>6, <2>3 DEF Adjoins
    <3>2. s[k] = o[k]
      BY <1>7, <2>3
    <3>3. ASSUME s[k] = i PROVE k > 1 /\ s[k - 1] = i - 1
      <4>1. k > 1 /\ o[k - 1] = i - 1
        BY <3>1, <3>2, <3>3 DEF NextTo
      <4>2. k - 1 \in 1 .. m
        BY <2>3, <4>1
      <4> QED
        BY <1>7, <4>1, <4>2
    <3>4. ASSUME s[k] = i - 1 PROVE k < Len(s) /\ s[k + 1] = i
      <4>1. k < m /\ o[k + 1] = i
        BY <1>6, <3>1, <3>2, <3>4 DEF NextTo
      <4>2. k + 1 \in 1 .. m
        BY <2>3, <4>1
      <4> QED
        BY <1>7, <4>1, <4>2
    <3> QED
      BY <3>3, <3>4 DEF NextTo
  <2> QED
    BY <2>2, <2>3
<1> QED
  BY <1>3, <1>4, <1>5, <1>7 DEF Faithful

\* r has the numbers of s that o picks, and a zero for each line of tail.
Renumbered(r, o, s, tail) ==
  r = [k \in DOMAIN o |-> IF o[k] = 0 THEN 0 ELSE s[o[k]]] \o [k \in DOMAIN tail |-> 0]

\* Numbers picked from s and zeros below them.
LEMMA RewrittenNumbers ==
  ASSUME NEW n \in Nat, NEW z \in Nat, NEW s \in Seq(0 .. n), Len(s) = z,
         NEW o \in Seq(0 .. z), NEW T, NEW tail \in Seq(T),
         NEW r, Renumbered(r, o, s, tail)
  PROVE  r \in Seq(0 .. n) /\ Len(r) = Len(o) + Len(tail) /\ Composed(r, o, s)
<1>1. PICK m \in Nat, y \in Nat : m = Len(o) /\ y = Len(tail)
  OBVIOUS
<1>2. DOMAIN o = 1 .. m /\ DOMAIN tail = 1 .. y
  BY <1>1
<1>3. PICK D : D = 0 .. n
  OBVIOUS
<1>4. PICK u, v : /\ u = [k \in 1 .. m |-> IF o[k] = 0 THEN 0 ELSE s[o[k]]]
                  /\ v = [k \in 1 .. y |-> 0]
  OBVIOUS
<1>5. \A k \in 1 .. m : o[k] \in 0 .. z
  BY <1>1
<1>13. \A x \in 1 .. z : s[x] \in D
  BY <1>3
<1>6. ASSUME NEW k \in 1 .. m PROVE u[k] \in D
  <2>1. CASE o[k] = 0
    BY <1>3, <1>4, <2>1
  <2>2. CASE o[k] \in 1 .. z
    <3>1. s[o[k]] \in D
      BY <1>13, <2>2
    <3> QED
      BY <1>4, <2>2, <3>1
  <2> QED
    BY <1>5, <2>1, <2>2
<1>7. u \in [1 .. m -> D] /\ v \in [1 .. y -> D]
  BY <1>3, <1>4, <1>6
<1>8. u \in Seq(D) /\ Len(u) = m /\ v \in Seq(D) /\ Len(v) = y
  <2>1. u \in Seq(D) /\ v \in Seq(D)
    BY ONLY <1>7, SeqDef
  <2>2. DOMAIN u = 1 .. m /\ DOMAIN v = 1 .. y
    BY <1>4
  <2> QED
    BY <2>1, <2>2
<1>9. r = u \o v
  <2>1. [k \in DOMAIN o |-> IF o[k] = 0 THEN 0 ELSE s[o[k]]] = u
    BY <1>2, <1>4
  <2>2. [k \in DOMAIN tail |-> 0] = v
    BY <1>2, <1>4
  <2> QED
    BY ONLY <2>1, <2>2, Renumbered(r, o, s, tail) DEF Renumbered
<1>10. /\ r \in Seq(D) /\ Len(r) = m + y
       /\ \A k \in 1 .. m : r[k] = u[k]
       /\ \A k \in m + 1 .. m + y : r[k] = v[k - m]
  <2>1. PICK a \in Seq(D), b \in Seq(D) : a = u /\ b = v /\ r = a \o b
    BY <1>8, <1>9
  <2>2. /\ a \o b \in Seq(D) /\ Len(a \o b) = Len(a) + Len(b)
        /\ \A k \in 1 .. Len(a) + Len(b) :
             (a \o b)[k] = IF k <= Len(a) THEN a[k] ELSE b[k - Len(a)]
    BY ONLY ConcatProperties
  <2>3. /\ r \in Seq(D) /\ Len(r) = m + y
        /\ \A k \in 1 .. m + y : r[k] = IF k <= m THEN u[k] ELSE v[k - m]
    BY ONLY <1>8, <2>1, <2>2
  <2>4. /\ \A k \in 1 .. m : k \in 1 .. m + y /\ k <= m
        /\ \A k \in m + 1 .. m + y : k \in 1 .. m + y /\ ~ k <= m
    OBVIOUS
  <2> QED
    BY ONLY <2>3, <2>4
<1>11. \A k \in m + 1 .. m + y : r[k] = 0
  <2> SUFFICES ASSUME NEW k \in m + 1 .. m + y PROVE r[k] = 0
    OBVIOUS
  <2>1. k - m \in 1 .. y
    OBVIOUS
  <2> QED
    BY <1>4, <1>10, <2>1
<1>12. \A k \in 1 .. m : r[k] = IF o[k] = 0 THEN 0 ELSE s[o[k]]
  BY <1>4, <1>10
<1> QED
  BY <1>1, <1>3, <1>10, <1>11, <1>12 DEF Composed

\* The lines that w consists of, and those added below it.
LEMMA RewrittenLines ==
  ASSUME NEW n \in Nat, NEW m \in Nat, NEW o \in Seq(0 .. n), Len(o) = m,
         NEW c, DOMAIN c = 1 .. n, NEW x, NEW a, NEW b,
         NEW r, r = [k \in DOMAIN o |-> IF o[k] = 0 THEN x ELSE c[o[k]]] \o <<a, b>>
  PROVE  Len(r) = m + 2 /\ \A k \in 1 .. m : o[k] # 0 => r[k] = c[o[k]]
<1>1. PICK u : u = [k \in 1 .. m |-> IF o[k] = 0 THEN x ELSE c[o[k]]]
  OBVIOUS
<1>2. PICK D : D = {u[k] : k \in 1 .. m} \union {a, b}
  OBVIOUS
<1>3. u \in [1 .. m -> D] /\ a \in D /\ b \in D
  BY <1>1, <1>2
<1>4. u \in Seq(D) /\ Len(u) = m
  <2>1. u \in Seq(D)
    BY ONLY <1>3, SeqDef
  <2>2. DOMAIN u = 1 .. m
    BY <1>1
  <2> QED
    BY <2>1, <2>2
<1>11. <<a, b>> \in Seq(D) /\ Len(<<a, b>>) = 2
  BY <1>3
<1>5. PICK v \in Seq(D) : v = <<a, b>> /\ Len(v) = 2
  BY <1>11
<1>6. r = u \o v
  <2>1. [k \in DOMAIN o |-> IF o[k] = 0 THEN x ELSE c[o[k]]] = u
    BY <1>1
  <2> QED
    BY ONLY <1>5, <2>1, r = [k \in DOMAIN o |-> IF o[k] = 0 THEN x ELSE c[o[k]]] \o <<a, b>>
<1>7. /\ Len(u \o v) = Len(u) + Len(v)
      /\ \A k \in 1 .. Len(u) + Len(v) :
           (u \o v)[k] = IF k <= Len(u) THEN u[k] ELSE v[k - Len(u)]
  BY ONLY <1>4, <1>5, ConcatProperties
<1>8. /\ Len(r) = m + 2
      /\ \A k \in 1 .. m + 2 : r[k] = IF k <= m THEN u[k] ELSE v[k - m]
  BY ONLY <1>4, <1>5, <1>6, <1>7
<1>9. \A k \in 1 .. m : k \in 1 .. m + 2 /\ k <= m
  OBVIOUS
<1>10. \A k \in 1 .. m : r[k] = u[k]
  BY ONLY <1>8, <1>9
<1> QED
  BY <1>1, <1>8, <1>10

\* The numbers of all lines of a content.
LEMMA AllNumbers ==
  ASSUME NEW n \in Nat, NEW c, Len(c) = n, DOMAIN c = 1 .. n, NEW s, s = [i \in DOMAIN c |-> i]
  PROVE  s \in Seq(0 .. n) /\ Len(s) = n /\ Faithful(c, c, s)
<1>1. PICK T : T = 0 .. n
  OBVIOUS
<1>2. s = [i \in 1 .. n |-> i]
  OBVIOUS
<1>3. s \in [1 .. n -> T]
  BY <1>1, <1>2
<1>4. s \in Seq(T) /\ Len(s) = n
  <2>1. s \in Seq(T)
    BY ONLY <1>3, SeqDef
  <2>2. DOMAIN s = 1 .. n
    BY <1>2
  <2> QED
    BY <2>1, <2>2
<1>5. \A i \in 1 .. n : s[i] = i
  BY <1>2
<1>6. Ascends(s)
  BY <1>4, <1>5 DEF Ascends
<1>7. Adjoins(c, s)
  <2> SUFFICES ASSUME NEW h \in Nat, NEW i \in Nat, Under(c, h, i), NEW k \in 1 .. n
               PROVE  NextTo(s, k, i)
    BY <1>4 DEF Adjoins
  <2>1. i > 1 /\ i \in 1 .. n
    BY DEF Under
  <2>2. s[k] = k
    BY <1>5
  <2>3. ASSUME s[k] = i PROVE k > 1 /\ s[k - 1] = i - 1
    BY <1>5, <2>1, <2>2, <2>3
  <2>4. ASSUME s[k] = i - 1 PROVE k < Len(s) /\ s[k + 1] = i
    BY <1>4, <1>5, <2>1, <2>2, <2>4
  <2> QED
    BY <2>3, <2>4 DEF NextTo
<1> QED
  BY <1>1, <1>4, <1>5, <1>6, <1>7 DEF Faithful

\* What the wire shows of the content: all of it, lines of it that are in order with
\* those of a hunk together, and in the end its hunks whole or not at all.
WholeInv ==
  /\ stage = "reading" => shown = [i \in DOMAIN content |-> i]
  /\ stage = "diff" => Faithful(content, wire, shown)
  /\ stage = "done" => WholeIn(content, shown)

\* diff_noise leaves lines of the content in order.
LEMMA NoiseKeepsWhole ==
  ASSUME Reach, WholeInv, NoiseDrops
  PROVE  WholeInv'
<1>1. /\ content \in Seq(ChunkLines) /\ wire = content
      /\ shown = [i \in DOMAIN content |-> i]
      /\ stage' = "diff" /\ content' = content
  BY DEF Reach, NoiseDrops, WholeInv
<1>2. PICK n \in Nat : n = Len(content) /\ DOMAIN content = 1 .. n
  BY <1>1
<1>3. PICK o : o = NoiseOutput(content)
  OBVIOUS
<1>4. o \in Seq(0 .. n) /\ o = ApplyNoise(content).output
  BY <1>2, <1>3, NoiseType, NoiseApplies DEF NoiseDrops
<1>5. PICK m \in Nat : m = Len(o)
  BY <1>4
<1>6. shown \in Seq(0 .. n) /\ Len(shown) = n /\ \A i \in 1 .. n : shown[i] = i
  BY <1>1, <1>2, AllNumbers
<1>7. PICK a, b, x : a = Written("blank") /\ b = Written("noise") /\ x = Written("none")
  OBVIOUS
<1>8. PICK w, s : w = wire' /\ s = shown'
  OBVIOUS
<1>9. /\ w = [k \in DOMAIN o |-> IF o[k] = 0 THEN x ELSE content[o[k]]] \o <<a, b>>
      /\ Renumbered(s, o, shown, <<a, b>>)
  <2>1. Rewrite(ApplyNoise(content).output, <<Written("blank"), Written("noise")>>)
    BY DEF NoiseDrops
  <2>2. Rewrite(o, <<a, b>>)
    BY ONLY <1>4, <1>7, <2>1
  <2>3. /\ wire' = [k \in DOMAIN o |-> IF o[k] = 0 THEN Written("none") ELSE wire[o[k]]] \o <<a, b>>
        /\ shown' = [k \in DOMAIN o |-> IF o[k] = 0 THEN 0 ELSE shown[o[k]]]
                    \o [k \in DOMAIN <<a, b>> |-> 0]
    BY ONLY <2>2 DEF Rewrite
  <2>4. w = [k \in DOMAIN o |-> IF o[k] = 0 THEN x ELSE content[o[k]]] \o <<a, b>>
    BY ONLY <1>1, <1>7, <1>8, <2>3
  <2> QED
    BY ONLY <1>8, <2>3, <2>4 DEF Renumbered
<1>10. Len(w) = m + 2 /\ \A k \in 1 .. m : o[k] # 0 => w[k] = content[o[k]]
  BY <1>2, <1>4, <1>5, <1>9, RewrittenLines
<1>11. PICK T, tail : T = {a, b} /\ tail = <<a, b>> /\ tail \in Seq(T) /\ Len(tail) = 2
  <2>1. <<a, b>> \in Seq({a, b}) /\ Len(<<a, b>>) = 2
    OBVIOUS
  <2> QED
    BY <2>1
<1>12. s \in Seq(0 .. n) /\ Len(s) = Len(o) + Len(tail) /\ Composed(s, o, shown)
  <2>1. Renumbered(s, o, shown, tail)
    BY ONLY <1>9, <1>11
  <2>2. o \in Seq(0 .. n) /\ shown \in Seq(0 .. n) /\ Len(shown) = n /\ tail \in Seq(T) /\ n \in Nat
    BY <1>4, <1>6, <1>11
  <2> QED
    BY ONLY <2>1, <2>2, RewrittenNumbers
<1>13. Len(s) = m + 2
  BY <1>5, <1>11, <1>12
<1>14. /\ \A k \in 1 .. m : s[k] = IF o[k] = 0 THEN 0 ELSE shown[o[k]]
       /\ \A k \in m + 1 .. m + 2 : s[k] = 0
  BY <1>5, <1>12, <1>13 DEF Composed
<1>15. \A k \in 1 .. m : s[k] = o[k]
  <2>1. \A k \in 1 .. m : o[k] \in 0 .. n
    BY <1>4, <1>5
  <2> QED
    BY <1>6, <1>14, <2>1
<1>16. s[m + 1] = 0 /\ s[m + 2] = 0
  BY <1>14
<1>18. NoiseText(content, o, w, s)
  BY ONLY <1>5, <1>10, <1>13, <1>15, <1>16 DEF NoiseText
<1>17. Faithful(content, w, s)
  BY <1>2, <1>3, <1>12, <1>18, NoiseIsFaithful
<1> QED
  BY <1>1, <1>8, <1>17 DEF WholeInv

\* The diff compressor keeps hunks whole.
LEMMA DiffKeepsWhole ==
  ASSUME Reach, WholeInv, DiffCompresses
  PROVE  WholeInv'
<1>1. /\ content \in Seq(ChunkLines) /\ wire \in Seq(WireLines)
      /\ stage' = "done" /\ content' = content /\ Faithful(content, wire, shown)
  BY DEF Reach, WholeInv, DiffCompresses
<1>2. PICK n \in Nat : n = Len(content) /\ DOMAIN content = 1 .. n
  BY <1>1
<1>3. PICK z \in Nat : z = Len(wire)
  BY <1>1
<1>4. PICK o : o = Compressed(wire, parseDiff(wire)).output
  OBVIOUS
<1>5. diff' = CompressWithStore(wire) /\ diff'.cacheKey
  BY DEF DiffCompresses, Accepts
<1>6. diff' = Compressed(wire, parseDiff(wire))
  <2>1. PassThrough(wire).cacheKey = FALSE
    BY DEF PassThrough
  <2> QED
    BY <1>5, <2>1 DEF CompressWithStore
<1>7. Started(wire)
  BY <1>1, WireStarts
<1>8. o \in Seq(0 .. z)
  <2>1. PICK fs : Cut(wire, z, parseDiff(wire), fs, o)
    BY <1>3, <1>4, <1>7, CompressedCut
  <2> QED
    BY <1>3, <1>7, <2>1, CutLines
<1>9. \A g \in 1 .. z : wire[g].kind \in HunkHeaders => HunkWhole(wire, o, g)
  BY <1>3, <1>4, <1>7, AllWhole
<1>10. PICK y, tail, T : y = Written("diff") /\ tail = <<y>> /\ T = {y}
  OBVIOUS
<1>11. tail \in Seq(T)
  BY <1>10
<1>12. PICK t : t = shown'
  OBVIOUS
<1>13. Renumbered(t, o, shown, tail)
  <2>1. Rewrite(diff'.output, <<Written("diff")>>)
    BY <1>5 DEF DiffCompresses
  <2>2. Rewrite(o, tail)
    BY ONLY <1>4, <1>6, <1>10, <2>1
  <2> QED
    BY ONLY <1>12, <2>2 DEF Rewrite, Renumbered
<1>14. shown \in Seq(0 .. n) /\ Len(shown) = z
  BY <1>1, <1>2, <1>3 DEF Faithful
<1>15. t \in Seq(0 .. n) /\ Composed(t, o, shown)
  BY <1>8, <1>11, <1>13, <1>14, RewrittenNumbers
<1>16. DOMAIN t = 1 .. Len(t) /\ Len(t) \in Nat
  BY <1>15
<1>17. WholeIn(content, t)
  BY <1>1, <1>2, <1>3, <1>8, <1>9, <1>15, <1>16, StaysWhole
<1> QED
  BY <1>1, <1>12, <1>17 DEF WholeInv

\* The property, of the content and of the numbers that are shown.
LEMMA WholeHunksIs ==
  ASSUME stage = "done" => WholeIn(content, shown)
  PROVE  WholeHunks
<1>1. \A i : HeaderOf(i) = HeaderIn(content, i)
  BY DEF HeaderOf, HeaderIn
<1>2. Bodies = BodiesIn(content)
  BY <1>1 DEF Bodies, BodiesIn, BodyKinds
<1>3. Changes = ChangesIn(content)
  BY <1>2 DEF Changes, ChangesIn
<1>4. \A i, j : Near(i, j) <=> NearIn(content, i, j)
  BY <1>1 DEF Near, NearIn
<1>5. \A i : Shown(i) <=> ShownIn(shown, i)
  BY DEF Shown, ShownIn
<1>6. ASSUME stage = "done"
      PROVE  /\ \A i \in Changes : Shown(i) <=> Shown(HeaderOf(i))
             /\ \A i \in Changes, j \in Bodies : Shown(i) /\ Near(i, j) => Shown(j)
             /\ \A k, l \in DOMAIN shown :
                  /\ k < l
                  /\ {shown[k], shown[l]} \subseteq Bodies
                  /\ HeaderOf(shown[k]) = HeaderOf(shown[l])
                  => shown[k] < shown[l]
  <2>1. /\ \A i \in ChangesIn(content) : ShownIn(shown, i) <=> ShownIn(shown, HeaderIn(content, i))
        /\ \A i \in ChangesIn(content), j \in BodiesIn(content) :
             ShownIn(shown, i) /\ NearIn(content, i, j) => ShownIn(shown, j)
        /\ \A k, l \in DOMAIN shown :
             /\ k < l
             /\ {shown[k], shown[l]} \subseteq BodiesIn(content)
             /\ HeaderIn(content, shown[k]) = HeaderIn(content, shown[l])
             => shown[k] < shown[l]
    BY <1>6 DEF WholeIn
  <2>2. \A i \in Changes : Shown(i) <=> Shown(HeaderOf(i))
    BY ONLY <1>1, <1>3, <1>5, <2>1
  <2>3. \A i \in Changes, j \in Bodies : Shown(i) /\ Near(i, j) => Shown(j)
    BY ONLY <1>2, <1>3, <1>4, <1>5, <2>1
  <2>4. \A k, l \in DOMAIN shown :
          /\ k < l
          /\ {shown[k], shown[l]} \subseteq Bodies
          /\ HeaderOf(shown[k]) = HeaderOf(shown[l])
          => shown[k] < shown[l]
    BY ONLY <1>1, <1>2, <2>1
  <2> QED
    BY <2>2, <2>3, <2>4
<1> QED
  BY <1>6 DEF WholeHunks

\* A hunk is shown with all its changes and the context around them, or not at
\* all, whatever the two offloads drop between them; lines keep their order
\* (diffcompressor.go:588-736, 963-1111; diff_noise.go:151-216).
THEOREM HunksStayWhole == Spec => []WholeHunks
<1>1. Init => WholeInv
  BY DEF Init, WholeInv
<1>2. Reach /\ WholeInv /\ [Next]_vars => WholeInv'
  <2> SUFFICES ASSUME Reach, WholeInv, [Next]_vars PROVE WholeInv'
    OBVIOUS
  <2>1. ASSUME NEW k \in Chunks, Receive(k) PROVE WholeInv'
    BY <2>1 DEF Receive, WholeInv
  <2>2. CASE NoiseLeaves
    <3>1. /\ content \in Seq(ChunkLines) /\ wire = content
          /\ shown = [i \in DOMAIN content |-> i]
          /\ stage' = "diff" /\ content' = content /\ wire' = wire /\ shown' = shown
      BY <2>2 DEF Reach, NoiseLeaves, WholeInv
    <3>2. PICK n \in Nat : n = Len(content) /\ DOMAIN content = 1 .. n
      BY <3>1
    <3>3. Faithful(content, content, shown)
      BY <3>1, <3>2, AllNumbers
    <3> QED
      BY <3>1, <3>3 DEF WholeInv
  <2>3. CASE NoiseDrops
    BY <2>3, NoiseKeepsWhole
  <2>4. CASE DiffLeaves
    <3>1. /\ content \in Seq(ChunkLines) /\ wire \in Seq(WireLines)
          /\ Faithful(content, wire, shown)
          /\ stage' = "done" /\ content' = content /\ shown' = shown
      BY <2>4 DEF Reach, DiffLeaves, WholeInv
    <3>2. PICK n \in Nat : n = Len(content) /\ DOMAIN content = 1 .. n
      BY <3>1
    <3>3. PICK z \in Nat : z = Len(wire)
      BY <3>1
    <3>4. WholeIn(content, shown)
      BY <3>1, <3>2, <3>3, FaithfulIsWhole
    <3> QED
      BY <3>1, <3>4 DEF WholeInv
  <2>5. CASE DiffCompresses
    BY <2>5, DiffKeepsWhole
  <2>6. CASE UNCHANGED vars
    BY <2>6 DEF vars, WholeInv
  <2> QED
    BY <2>1, <2>2, <2>3, <2>4, <2>5, <2>6 DEF Next
<1>3. WholeInv => WholeHunks
  BY WholeHunksIs DEF WholeInv
<1> QED
  BY <1>1, <1>2, <1>3, ReachInvariant, PTL DEF Spec
=============================================================================

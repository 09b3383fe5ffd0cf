----------------------------- MODULE LogTemplate -----------------------------
(***************************************************************************)
(* The log_template reformat: runs of lines with one template become the   *)
(* template and a table of what varies.                                    *)
(*                                                                         *)
(* A line is [indent, tokens, count]: whether it begins with white space,  *)
(* its words, and the number of occurrences it states (0 but in the header *)
(* of a template).  A blank line has no tokens.                            *)
(***************************************************************************)
EXTENDS SeqOrder

CONSTANTS
  TemplateMinLines, MinRun, MinConstantTokens, SimilarityThreshold

ASSUME TemplateAssumption ==
  {TemplateMinLines, MinRun, MinConstantTokens, SimilarityThreshold} \subseteq Nat

Wildcard == "<*>"
Opening  == "[Template"

\* A slot of a run's template that varies; it is printed as Wildcard.
Varying == "varying"

NoRun == [indices |-> << >>, template |-> << >>]

newLogRun(i, tokens) == [indices |-> <<i>>, template |-> tokens]

\* Positions at which the line has what the template has, or the template varies.
Matching(template, tokens) == {p \in DOMAIN tokens : template[p] \in {tokens[p], Varying}}

extendsRun(run, tokens) ==
  /\ run.indices # << >>
  /\ Len(tokens) = Len(run.template)
  /\ 100 * Cardinality(Matching(run.template, tokens)) >= SimilarityThreshold * Len(tokens)

mergeIntoTemplate(template, tokens) ==
  [p \in DOMAIN template |-> IF template[p] = tokens[p] THEN tokens[p] ELSE Varying]

Varies(template) == {p \in DOMAIN template : template[p] = Varying}

Collapses(run) ==
  /\ Len(run.indices) >= MinRun
  /\ Len(run.template) - Cardinality(Varies(run.template)) >= MinConstantTokens
  /\ Varies(run.template) # {}

Header(run) ==
  [indent |-> FALSE, count |-> Len(run.indices),
   tokens |-> <<Opening>> \o [p \in DOMAIN run.template |->
                               IF run.template[p] = Varying THEN Wildcard ELSE run.template[p]]]

\* What a line has at the positions that vary.
Variant(run, tokens) ==
  LET at == InOrder(Varies(run.template))
  IN [indent |-> FALSE, count |-> 0, tokens |-> [k \in DOMAIN at |-> tokens[at[k]]]]

flushRun(lines, run) ==
  IF Collapses(run)
  THEN <<Header(run)>>
       \o [k \in DOMAIN run.indices |-> Variant(run, lines[run.indices[k]].tokens)]
  ELSE [k \in DOMAIN run.indices |-> lines[run.indices[k]]]

\* Mutant of MineLine: a blank line is passed on and the run goes on.
MineLineOverBlanks(lines, s, i) ==
  LET tokens == lines[i].tokens
  IN IF tokens = << >> THEN [s EXCEPT !.out = @ \o <<lines[i]>>]
     ELSE IF extendsRun(s.run, tokens)
     THEN [s EXCEPT !.run = [indices  |-> Append(@.indices, i),
                             template |-> mergeIntoTemplate(@.template, tokens)]]
     ELSE [out |-> s.out \o flushRun(lines, s.run), run |-> newLogRun(i, tokens)]

\* One line of Apply: a blank line and a line that differs end the run.
MineLine(lines, s, i) ==
  LET tokens == lines[i].tokens
  IN IF tokens = << >>
     THEN [out |-> s.out \o flushRun(lines, s.run) \o <<lines[i]>>, run |-> NoRun]
     ELSE IF extendsRun(s.run, tokens)
     THEN [s EXCEPT !.run = [indices  |-> Append(@.indices, i),
                             template |-> mergeIntoTemplate(@.template, tokens)]]
     ELSE [out |-> s.out \o flushRun(lines, s.run), run |-> newLogRun(i, tokens)]

Mine(lines) ==
  LET s[i \in 0 .. Len(lines)] ==
        IF i = 0 THEN [out |-> << >>, run |-> NoRun] ELSE MineLine(lines, s[i - 1], i)
  IN s[Len(lines)].out \o flushRun(lines, s[Len(lines)].run)

\* The length of lines, a word and a line break as one each.
Size(lines) ==
  SumOf([i \in DOMAIN lines |->
           1 + Len(lines[i].tokens) + (IF lines[i].indent THEN 1 ELSE 0)
             + (IF lines[i].count > 0 THEN 1 ELSE 0)],
        DOMAIN lines)

\* The empty line that is left of a last line break is not counted.
LinesIn(lines) ==
  IF lines # << >> /\ lines[Len(lines)].tokens = << >> /\ ~ lines[Len(lines)].indent
  THEN Len(lines) - 1 ELSE Len(lines)

\* LogTemplate.Apply as the pipeline takes it: too few lines, or an output that
\* is not shorter, leave the content as it is.
ApplyTemplate(lines) ==
  IF LinesIn(lines) < TemplateMinLines \/ Size(Mine(lines)) >= Size(lines) THEN lines
  ELSE Mine(lines)

-----------------------------------------------------------------------------
(* What a reader makes of templates and their tables *)

\* A header's line number, when the line is in its table.
HeaderAbove(lines, i) ==
  LET at == {h \in 1 .. i - 1 : lines[h].count > 0 /\ i - h <= lines[h].count}
  IN IF at = {} THEN 0 ELSE CHOOSE h \in at : TRUE

\* A row of the table put into the template above it.
FillIn(header, row) ==
  LET slots == Tail(header.tokens)
      holes == InOrder({p \in DOMAIN slots : slots[p] = Wildcard})
  IN [row EXCEPT !.tokens = [p \in DOMAIN slots |->
        IF slots[p] = Wildcard THEN row.tokens[CHOOSE k \in DOMAIN holes : holes[k] = p]
        ELSE slots[p]]]

Expand(lines) ==
  LET rows == SelectSeq([i \in DOMAIN lines |-> i], LAMBDA i : lines[i].count = 0)
  IN [k \in DOMAIN rows |->
        LET h == HeaderAbove(lines, rows[k])
        IN IF h = 0 THEN lines[rows[k]] ELSE FillIn(lines[h], lines[rows[k]])]
=============================================================================

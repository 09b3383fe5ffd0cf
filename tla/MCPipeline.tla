----------------------------- MODULE MCPipeline -----------------------------
(***************************************************************************)
(* Small instances of Pipeline.  The contents are the plain ones of size 0 *)
(* to MaxSize and everything offloads can make of them: shorter, and ended *)
(* by the marker of what they were made of.                                *)
(***************************************************************************)
EXTENDS Pipeline, TLC

CONSTANT MaxSize  \* bound on the size of a content

Plain == {[size |-> n, mark |-> NoKey] : n \in 0 .. MaxSize}

\* What an offload makes of the contents of S.
MadeOf(S) ==
  UNION {{[size |-> n, mark |-> <<h, c>>] :
            n \in 1 .. (c.size - 1), h \in {HashOf[o] : o \in Offloads}}
         : c \in S}

Once  == MadeOf(Plain)
Twice == MadeOf(Once)

MCContents == Plain \union Once \union Twice
AllInputs  == Plain
LongInputs == {c \in Plain : c.size > 1}

\* json_offload and json_structure_offload; diff_noise and diff_offload.
SameHash   == <<"blake3", "blake3">>
TwoHashes  == <<"blake3", "md5">>

\* Scores under and over the threshold.
AllScores == {0, 30, 60}
FewScores == {0, 60}

Symmetry == Permutations(Runs)
=============================================================================

---------------------------- MODULE LiveZoneTypes ----------------------------
(***************************************************************************)
(* The data of core/transforms/livezone: the texts of a request, what      *)
(* compressTextWithCCR makes of one (compress.go), and the blocks of a     *)
(* manifest (types.go).                                                    *)
(*                                                                         *)
(* A text is one slot of a message or item.  The compressors and the       *)
(* tokenizer are functions of the text: their results are given by the     *)
(* constants, once for the plain result and once with a CCR marker at its  *)
(* end.                                                                    *)
(***************************************************************************)
EXTENDS SeqOrder

CONSTANTS
  Texts,    \* the texts of the slots
  Long,     \* those of at least minCompressibleBytes
  Shrinks,  \* those of a type with a compressor that changes them
  Footed,   \* logs, searches and diffs that shrink so much that their
            \* compressor ends its result with a footer
  Tokens,   \* text -> its tokens
  Small,    \* text -> the tokens of its compressor's result
  Marked    \* text -> the same, with the CCR marker

ASSUME TextAssumption ==
  /\ Long \subseteq Texts
  /\ Shrinks \subseteq Texts
  /\ Footed \subseteq Texts
  /\ Tokens \in [Texts -> Nat \ {0}]
  /\ Small \in [Texts -> Nat]
  /\ Marked \in [Texts -> Nat]

\* A message, or an item of the Responses API: its role, and its text slots.
Roles == {"system", "user", "assistant", "tool"}
Message == [role : Roles, slots : Seq(Texts)]

\* A key names a text to the reader of the wire: the kind of hash and the text
\* hashed.
Key == {"blake3", "md5"} \X Texts

\* What a slot may hold on the wire: a text as the client wrote it, or the
\* compressor's result for it, with or without a CCR marker, and the keys under
\* which it offers to retrieve more.
Slot == [of : Texts, form : {"raw", "small", "marked"}, names : SUBSET Key]

Raw(t) == [of |-> t, form |-> "raw", names |-> {}]

-----------------------------------------------------------------------------
(* compressTextWithCCR *)

CompressedTokens(t, ccr) == IF ccr THEN Marked[t] ELSE Small[t]

\* Mutant of Compresses: the marker is not counted.
CompressesUnmarked(t, ccr) == t \in Long \intersect Shrinks /\ Small[t] < Tokens[t]

\* The compression of a text is accepted only when it saves tokens, those of
\* the marker included.
Compresses(t, ccr) ==
  /\ t \in Long \intersect Shrinks
  /\ CompressedTokens(t, ccr) < Tokens[t]

\* The key in the footer "Retrieve ...: hash=" of the log, the search and the
\* diff compressor.  They write it whatever store they were given; the live zone
\* gives the log compressor one that it throws away, and the others none.
FooterNames(t) == IF t \in Footed THEN {<<"md5", t>>} ELSE {}

\* The key in the live zone's own CCR marker.
MarkerNames(t, ccr) == IF ccr THEN {<<"blake3", t>>} ELSE {}

\* The text that takes the place of t.
Compressed(t, ccr) ==
  [of |-> t, form |-> IF ccr THEN "marked" ELSE "small",
   names |-> FooterNames(t) \union MarkerNames(t, ccr)]

\* Mutant of Stashes: the original is stored before the token gate.
StashesEarly(t, ccr) == ccr /\ t \in Long \intersect Shrinks

\* The original is stored, under the hash of the live zone's marker only, behind
\* the token gate.
Stashes(t, ccr) == ccr /\ Compresses(t, ccr)

-----------------------------------------------------------------------------
(* The blocks of a manifest, in a set: nothing depends on their order *)

Excluded(i, r) ==
  [index |-> i, slot |-> 0, action |-> "Excluded", reason |-> r,
   original |-> 0, compressed |-> 0]

\* The block for slot j of message i, which holds text t.
SlotBlock(i, j, t, ccr) ==
  IF Compresses(t, ccr)
  THEN [index |-> i, slot |-> j, action |-> "Compressed", reason |-> "none",
        original |-> Tokens[t], compressed |-> CompressedTokens(t, ccr)]
  ELSE [index |-> i, slot |-> j, action |-> "Passthrough", reason |-> "none",
        original |-> Tokens[t], compressed |-> 0]

\* The slots of a message that are long enough to be tried.
LongSlots(m) == {j \in DOMAIN m.slots : m.slots[j] \in Long}

\* The last message of a role.
IsLast(h, r, i) == h[i].role = r /\ \A j \in DOMAIN h : j > i => h[j].role # r

HasRole(h, r) == \E i \in DOMAIN h : h[i].role = r
=============================================================================

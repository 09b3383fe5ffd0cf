--------------------------- MODULE LiveZoneProofs ---------------------------
(***************************************************************************)
(* Proofs about LiveZone, for any texts, any results of the compressors and*)
(* of the tokenizer, any number of messages and any number of markers.     *)
(***************************************************************************)
EXTENDS LiveZone, DataLemmas, SequenceTheorems, TLAPS

-----------------------------------------------------------------------------
(* Facts about the operators *)

\* A sequence is a function on the numbers up to its length.
LEMMA SeqShape ==
  ASSUME NEW S, NEW s \in Seq(S)
  PROVE  /\ Len(s) \in Nat
         /\ DOMAIN s = 1 .. Len(s)
         /\ \A i \in DOMAIN s : s[i] \in S
  OBVIOUS

\* A function on the numbers up to n is a sequence.
LEMMA FunctionIsSeq ==
  ASSUME NEW S, NEW n \in Nat, NEW f \in [1 .. n -> S]
  PROVE  f \in Seq(S) /\ Len(f) = n
  BY SeqDef

\* What a slot says of its text.
LEMMA SlotForms ==
  ASSUME NEW t, NEW c
  PROVE  /\ Raw(t).form = "raw" /\ Raw(t).of = t
         /\ Compressed(t, c).of = t
         /\ Compressed(t, c).form # "raw"
  BY DEF Raw, Compressed

\* A result with a marker names the text.
LEMMA MarkerIsNamed ==
  ASSUME NEW t, NEW c, c
  PROVE  <<"blake3", t>> \in Compressed(t, c).names
  BY DEF Compressed, MarkerNames

\* The slots of a message.
LEMMA SlotsShape ==
  ASSUME TypeOK, NEW i \in DOMAIN history
  PROVE  /\ history[i] \in Message
         /\ Len(history[i].slots) \in Nat
         /\ DOMAIN history[i].slots = 1 .. Len(history[i].slots)
         /\ \A j \in DOMAIN history[i].slots : history[i].slots[j] \in Texts
<1>1. history \in Seq(Message)
  BY DEF TypeOK
<1>2. history[i] \in Message
  BY <1>1, SeqShape
<1>3. history[i].slots \in Seq(Texts)
  BY <1>2 DEF Message
<1> QED
  BY <1>2, <1>3, SeqShape

\* What the rewriting of slots makes of each.
LEMMA RewrittenAt ==
  ASSUME NEW R, NEW c
  PROVE  /\ DOMAIN Rewritten(R, c) = DOMAIN history
         /\ \A i \in DOMAIN history :
              /\ DOMAIN Rewritten(R, c)[i] = DOMAIN history[i].slots
              /\ \A j \in DOMAIN history[i].slots :
                   Rewritten(R, c)[i][j] = IF <<i, j>> \in R
                                           THEN Compressed(history[i].slots[j], c)
                                           ELSE Raw(history[i].slots[j])
  BY DEF Rewritten

\* Nothing is replaced.
LEMMA RewrittenNothing ==
  ASSUME NEW i \in DOMAIN history, NEW j \in DOMAIN history[i].slots
  PROVE  Rewritten({}, FALSE)[i][j] = Raw(history[i].slots[j])
  BY DEF Rewritten

\* It is a list of lists of slots, of the conversation's shape.
LEMMA RewrittenType ==
  ASSUME TypeOK, NEW R, NEW c
  PROVE  /\ Rewritten(R, c) \in Seq(Seq(Slot))
         /\ Len(Rewritten(R, c)) = Len(history)
         /\ \A i \in DOMAIN Rewritten(R, c) :
              Len(Rewritten(R, c)[i]) = Len(history[i].slots)
<1>1. Len(history) \in Nat /\ DOMAIN history = 1 .. Len(history)
  BY SeqShape DEF TypeOK
<1>2. ASSUME NEW i \in DOMAIN history
      PROVE  Rewritten(R, c)[i] \in Seq(Slot) /\ Len(Rewritten(R, c)[i]) = Len(history[i].slots)
  <2> DEFINE n == Len(history[i].slots)
  <2>1. n \in Nat /\ DOMAIN history[i].slots = 1 .. n
        /\ \A j \in 1 .. n : history[i].slots[j] \in Texts
    BY SlotsShape
  <2>2. ASSUME NEW t \in Texts PROVE Compressed(t, c) \in Slot /\ Raw(t) \in Slot
    BY DEF Compressed, Raw, Slot, Key, FooterNames, MarkerNames
  <2>3. Rewritten(R, c)[i] \in [1 .. n -> Slot]
    BY <2>1, <2>2 DEF Rewritten
  <2> QED
    BY <2>1, <2>3, FunctionIsSeq
<1>3. Rewritten(R, c) \in [1 .. Len(history) -> Seq(Slot)]
  BY <1>1, <1>2 DEF Rewritten
<1>4. Rewritten(R, c) \in Seq(Seq(Slot)) /\ Len(Rewritten(R, c)) = Len(history)
  BY <1>1, <1>3, FunctionIsSeq
<1> QED
  BY <1>2, <1>4, RewrittenAt

\* What is tried is a long slot of a live message.
LEMMA TriedAt ==
  ASSUME NEW K, NEW i \in DOMAIN history, NEW j \in DOMAIN history[i].slots
  PROVE  <<i, j>> \in Tried(K) <=> Live(K, i) /\ history[i].slots[j] \in Long
  BY DEF Tried, LongSlots

\* What is replaced is a long slot of a live message.
LEMMA ReplacedIsLive ==
  ASSUME NEW K, NEW c, NEW i, NEW j, <<i, j>> \in Replaced(K, c)
  PROVE  /\ i \in DOMAIN history
         /\ j \in DOMAIN history[i].slots
         /\ Live(K, i)
         /\ Compresses(history[i].slots[j], c)
  BY DEF Replaced, Tried, LongSlots, TextAt

\* A request is the conversation with some slots replaced: none, or those of
\* its walk.
LEMMA SendKinds ==
  ASSUME NEW K, NEW req, Send(K, req)
  PROVE  /\ history' = history
         /\ format' = format
         /\ marks' = K
         /\ request' = req
         /\ store \subseteq store'
         /\ \/ wire' = Rewritten({}, FALSE)
            \/ /\ req.mode = "auto" /\ HasLive(K)
               /\ wire' = Rewritten(Replaced(K, UsesCcr(req)), UsesCcr(req))
               /\ store' = store \union Stashed(K, UsesCcr(req))
  BY DEF Send, SendAsIs, SendUnchanged, SendCompressed

\* A conversation keeps its format.
LEMMA FormatStays == [Next]_vars => format' = format
<1> SUFFICES ASSUME [Next]_vars PROVE format' = format
  OBVIOUS
<1>1. ASSUME NEW m \in Said[format], Say(m) PROVE format' = format
  BY <1>1 DEF Say
<1>2. ASSUME NEW K \in Marks, NEW req \in Request, Send(K, req) PROVE format' = format
  BY <1>2, SendKinds
<1> QED
  BY <1>1, <1>2 DEF Next, vars

\* Every message of the conversation is sent, with all its slots.
LEMMA AllIsSent ==
  ASSUME NEW K, NEW req, Send(K, req)
  PROVE  /\ DOMAIN wire' = DOMAIN history
         /\ \A i \in DOMAIN history : DOMAIN wire'[i] = DOMAIN history[i].slots
<1>1. PICK R, c : wire' = Rewritten(R, c)
  BY SendKinds
<1> QED
  BY <1>1, RewrittenAt

\* The conversation grows at its end.
LEMMA SayGrows ==
  ASSUME TypeOK, NEW m \in Said[format], Say(m)
  PROVE  /\ history' \in Seq(Message)
         /\ Len(history') = Len(history) + 1
         /\ DOMAIN history \subseteq DOMAIN history'
         /\ \A i \in DOMAIN history : history'[i] = history[i]
<1>1. history \in Seq(Message) /\ m \in Message /\ history' = Append(history, m)
  <2>1. Said[format] \subseteq Message
    BY LiveZoneAssumption DEF TypeOK
  <2> QED
    BY <2>1 DEF TypeOK, Say
<1>2. /\ Append(history, m) \in Seq(Message)
      /\ Len(Append(history, m)) = Len(history) + 1
      /\ \A i \in 1 .. Len(history) : Append(history, m)[i] = history[i]
  BY <1>1, AppendProperties
<1>3. /\ Len(history) \in Nat /\ DOMAIN history = 1 .. Len(history)
      /\ DOMAIN Append(history, m) = 1 .. Len(Append(history, m))
  BY <1>1, <1>2, SeqShape
<1> QED
  BY <1>1, <1>2, <1>3

\* The messages on the wire are messages of the conversation.
LEMMA WireShape ==
  ASSUME TypeOK
  PROVE  /\ DOMAIN wire \subseteq DOMAIN history
         /\ \A i \in DOMAIN wire : DOMAIN wire[i] = DOMAIN history[i].slots
<1>1. /\ Len(wire) \in Nat /\ DOMAIN wire = 1 .. Len(wire)
      /\ \A i \in DOMAIN wire : wire[i] \in Seq(Slot)
  BY SeqShape DEF TypeOK
<1>2. Len(history) \in Nat /\ DOMAIN history = 1 .. Len(history)
  BY SeqShape DEF TypeOK
<1>3. DOMAIN wire \subseteq DOMAIN history
  BY <1>1, <1>2 DEF TypeOK
<1>4. ASSUME NEW i \in DOMAIN wire PROVE DOMAIN wire[i] = DOMAIN history[i].slots
  <2>1. DOMAIN wire[i] = 1 .. Len(wire[i])
    BY <1>1, SeqShape
  <2>2. DOMAIN history[i].slots = 1 .. Len(history[i].slots)
    BY <1>3, SlotsShape
  <2> QED
    BY <2>1, <2>2 DEF TypeOK
<1> QED
  BY <1>3, <1>4

-----------------------------------------------------------------------------
(* Types *)

\* At first nothing is said and nothing sent.
LEMMA TypeInit == Init => TypeOK
<1> SUFFICES ASSUME Init PROVE TypeOK
  OBVIOUS
<1>1. history \in Seq(Message) /\ wire \in Seq(Seq(Slot)) /\ Len(wire) <= Len(history)
  BY DEF Init
<1>2. marks \subseteq DOMAIN history /\ store \subseteq Key /\ DOMAIN wire = {} /\ format \in Formats
  BY DEF Init
<1>3. request \in Request
  BY DEF Init, Request
<1> QED
  BY <1>1, <1>2, <1>3 DEF TypeOK

\* Both kinds of steps keep the types.
LEMMA TypeStep == TypeOK /\ [Next]_vars => TypeOK'
<1> SUFFICES ASSUME TypeOK, [Next]_vars PROVE TypeOK'
  OBVIOUS
<1>1. ASSUME NEW m \in Said[format], Say(m) PROVE TypeOK'
  <2>1. UNCHANGED <<format, marks, request, wire, store>>
    BY <1>1 DEF Say
  <2>2. /\ history' \in Seq(Message) /\ Len(history') = Len(history) + 1
        /\ DOMAIN history \subseteq DOMAIN history'
        /\ \A i \in DOMAIN history : history'[i] = history[i]
    BY <1>1, SayGrows
  <2>3. Len(wire) \in Nat /\ Len(history) \in Nat /\ Len(wire) <= Len(history)
    BY SeqShape DEF TypeOK
  <2>4. Len(wire') <= Len(history')
    BY <2>1, <2>2, <2>3
  <2>5. \A i \in DOMAIN wire' : Len(wire'[i]) = Len(history'[i].slots)
    BY <2>1, <2>2, WireShape DEF TypeOK
  <2>6. marks' \subseteq DOMAIN history'
    BY <2>1, <2>2 DEF TypeOK
  <2> QED
    BY <2>1, <2>2, <2>4, <2>5, <2>6 DEF TypeOK
<1>2. ASSUME NEW K \in Marks, NEW req \in Request, Send(K, req) PROVE TypeOK'
  <2>1. history' = history /\ marks' = K /\ request' = req /\ format' = format
    BY <1>2, SendKinds
  <2>2. PICK R, c : wire' = Rewritten(R, c)
    BY <1>2, SendKinds
  <2>3. /\ wire' \in Seq(Seq(Slot)) /\ Len(wire') = Len(history)
        /\ \A i \in DOMAIN wire' : Len(wire'[i]) = Len(history[i].slots)
    BY <2>2, RewrittenType
  <2>4. store' \subseteq Key
    <3>1. ASSUME NEW p \in Tried(K) PROVE TextAt(p) \in Texts
      <4>1. PICK i, j : p = <<i, j>> /\ i \in DOMAIN history /\ j \in DOMAIN history[i].slots
        BY <3>1 DEF Tried, LongSlots
      <4>2. TextAt(p) = history[i].slots[j]
        BY <4>1 DEF TextAt
      <4> QED
        BY <4>1, <4>2, SlotsShape
    <3>2. Stashed(K, UsesCcr(req)) \subseteq Key
      BY <3>1 DEF Stashed, Key
    <3>3. store' = store \/ store' = store \union Stashed(K, UsesCcr(req))
      BY <1>2 DEF Send, SendAsIs, SendUnchanged, SendCompressed
    <3> QED
      BY <3>2, <3>3 DEF TypeOK
  <2>5. Len(wire') <= Len(history')
    <3>1. Len(history) \in Nat
      BY SeqShape DEF TypeOK
    <3> QED
      BY <2>1, <2>3, <3>1
  <2>6. marks' \subseteq DOMAIN history' /\ history' \in Seq(Message) /\ request' \in Request
    BY <2>1 DEF TypeOK, Marks
  <2> QED
    BY <2>1, <2>3, <2>4, <2>5, <2>6 DEF TypeOK
<1>3. CASE UNCHANGED vars
  BY <1>3 DEF vars, TypeOK
<1> QED
  BY <1>1, <1>2, <1>3 DEF Next

\* Types are correct, for conversations of any length.
THEOREM TypeCorrect == Spec => []TypeOK
  BY TypeInit, TypeStep, PTL DEF Spec

-----------------------------------------------------------------------------
(* The frozen prefix *)

\* A message without replaced slots is sent as it was said.
LEMMA RewrittenAsSaid ==
  ASSUME NEW R, NEW c, NEW i \in DOMAIN history,
         \A j \in DOMAIN history[i].slots : <<i, j>> \notin R
  PROVE  Rewritten(R, c)[i] = AsSaid(history[i])
  BY DEF Rewritten, AsSaid

\* A request leaves the messages alone that are not live.
LEMMA DeadAsSaid ==
  ASSUME NEW K, NEW req, Send(K, req), NEW i \in DOMAIN history, ~ Live(K, i)
  PROVE  wire'[i] = AsSaid(history[i])
<1>1. CASE wire' = Rewritten({}, FALSE)
  BY <1>1, RewrittenAsSaid
<1>2. CASE wire' = Rewritten(Replaced(K, UsesCcr(req)), UsesCcr(req))
  <2>1. \A j : <<i, j>> \notin Replaced(K, UsesCcr(req))
    BY ReplacedIsLive
  <2> QED
    BY <1>2, <2>1, RewrittenAsSaid
<1> QED
  BY <1>1, <1>2, SendKinds

\* A frozen message is not live.
LEMMA FrozenIsDead ==
  ASSUME format = "anthropic", NEW K, NEW i, Frozen(K, i)
  PROVE  ~ Live(K, i)
  BY DEF Live, AnthropicLive

\* A request sends its frozen messages as they were said.
LEMMA FrozenStep == TypeOK /\ FrozenUntouched /\ [Next]_vars => FrozenUntouched'
<1> SUFFICES ASSUME TypeOK, FrozenUntouched, [Next]_vars, format' = "anthropic",
                    NEW i \in DOMAIN wire', Frozen(marks, i)'
             PROVE  wire'[i] = AsSaid(history'[i])
  BY DEF FrozenUntouched, AsSaid, Raw
<1>0. format = "anthropic"
  BY FormatStays
<1>1. ASSUME NEW m \in Said[format], Say(m) PROVE wire'[i] = AsSaid(history'[i])
  <2>1. wire' = wire /\ marks' = marks
    BY <1>1 DEF Say
  <2>2. history'[i] = history[i]
    BY <1>1, <2>1, SayGrows, WireShape
  <2>3. Frozen(marks, i)
    BY <2>1 DEF Frozen
  <2> QED
    BY <1>0, <2>1, <2>2, <2>3 DEF FrozenUntouched
<1>2. ASSUME NEW K \in Marks, NEW req \in Request, Send(K, req)
      PROVE  wire'[i] = AsSaid(history'[i])
  <2>1. marks' = K /\ history' = history
    BY <1>2, SendKinds
  <2>2. i \in DOMAIN history
    BY <1>2, AllIsSent
  <2>3. ~ Live(K, i)
    BY <1>0, <2>1, FrozenIsDead DEF Frozen
  <2> QED
    BY <1>2, <2>1, <2>2, <2>3, DeadAsSaid
<1>3. CASE UNCHANGED vars
  BY <1>0, <1>3 DEF vars, FrozenUntouched, Frozen
<1> QED
  BY <1>1, <1>2, <1>3 DEF Next

\* Nothing up to the last marker is ever modified (anthropic.go:49-66, 104-125).
THEOREM FrozenIsUntouched == Spec => []FrozenUntouched
<1>1. Init => FrozenUntouched
  BY DEF Init, FrozenUntouched
<1> QED
  BY <1>1, TypeCorrect, FrozenStep, PTL DEF Spec

-----------------------------------------------------------------------------
(* Markers and stashes *)

\* What a changed slot of a request with CCR names.
LEMMA ReachableSlot ==
  ASSUME TypeOK, NEW K, NEW req, Send(K, req), UsesCcr(req),
         NEW i \in DOMAIN wire', NEW j \in DOMAIN wire'[i], wire'[i][j].form # "raw"
  PROVE  LET k == <<"blake3", history[i].slots[j]>> IN k \in store' /\ k \in wire'[i][j].names
<1>1. i \in DOMAIN history /\ j \in DOMAIN history[i].slots
  BY AllIsSent
<1>2. wire' # Rewritten({}, FALSE)
  <2> SUFFICES ASSUME wire' = Rewritten({}, FALSE) PROVE FALSE
    OBVIOUS
  <2>1. wire'[i][j] = Raw(history[i].slots[j])
    BY <1>1, RewrittenNothing
  <2>2. wire'[i][j].form = "raw"
    BY <2>1, SlotForms
  <2> QED
    BY <2>2
<1>3. /\ wire' = Rewritten(Replaced(K, UsesCcr(req)), UsesCcr(req))
      /\ store' = store \union Stashed(K, UsesCcr(req))
  BY <1>2, SendKinds
<1>4. /\ <<i, j>> \in Replaced(K, UsesCcr(req))
      /\ <<"blake3", history[i].slots[j]>> \in wire'[i][j].names
  <2>p. PICK R, c : R = Replaced(K, UsesCcr(req)) /\ c = UsesCcr(req)
    OBVIOUS
  <2>a. Rewritten(R, c)[i][j] = IF <<i, j>> \in R THEN Compressed(history[i].slots[j], c)
                                ELSE Raw(history[i].slots[j])
    BY <1>1, RewrittenAt
  <2>1. wire'[i][j] = IF <<i, j>> \in Replaced(K, UsesCcr(req))
                      THEN Compressed(history[i].slots[j], UsesCcr(req))
                      ELSE Raw(history[i].slots[j])
    BY <1>3, <2>p, <2>a, Zenon
  <2>2. <<i, j>> \in Replaced(K, UsesCcr(req))
    <3> SUFFICES ASSUME <<i, j>> \notin Replaced(K, UsesCcr(req)) PROVE FALSE
      OBVIOUS
    <3>1. wire'[i][j] = Raw(history[i].slots[j])
      BY <2>1
    <3>2. wire'[i][j].form = "raw"
      BY <3>1, SlotForms
    <3> QED
      BY <3>2
  <2>3. <<"blake3", history[i].slots[j]>> \in Compressed(history[i].slots[j], UsesCcr(req)).names
    BY MarkerIsNamed
  <2> QED
    BY <2>1, <2>2, <2>3
<1>5. <<i, j>> \in Tried(K) /\ Compresses(TextAt(<<i, j>>), UsesCcr(req))
      /\ TextAt(<<i, j>>) = history[i].slots[j]
  BY <1>4 DEF Replaced, TextAt
<1>6. <<"blake3", TextAt(<<i, j>>)>> \in Stashed(K, UsesCcr(req))
  BY <1>5 DEF Stashed, Stashes
<1> QED
  BY <1>3, <1>4, <1>5, <1>6

\* Behind every text that a request with CCR replaced the client's own can be had
\* (compress.go:87-103).
THEOREM OriginalsAreReachable == Spec => []OriginalsReachable
<1>1. Init => OriginalsReachable
  BY DEF Init, OriginalsReachable
<1>2. TypeOK /\ OriginalsReachable /\ [Next]_vars => OriginalsReachable'
  <2> SUFFICES ASSUME TypeOK, OriginalsReachable, [Next]_vars, UsesCcr(request)',
                      NEW i \in DOMAIN wire', NEW j \in DOMAIN wire'[i], Changed(i, j)'
               PROVE  \E k \in wire'[i][j].names : k \in store' /\ k[2] = history'[i].slots[j]
    BY DEF OriginalsReachable
  <2>1. ASSUME NEW m \in Said[format], Say(m)
        PROVE  \E k \in wire'[i][j].names : k \in store' /\ k[2] = history'[i].slots[j]
    <3>1. UNCHANGED <<format, request, wire, store>>
      BY <2>1 DEF Say
    <3>2. history'[i] = history[i]
      BY <2>1, <3>1, SayGrows, WireShape
    <3> QED
      BY <3>1, <3>2 DEF OriginalsReachable, Changed, UsesCcr
  <2>2. ASSUME NEW K \in Marks, NEW req \in Request, Send(K, req)
        PROVE  \E k \in wire'[i][j].names : k \in store' /\ k[2] = history'[i].slots[j]
    <3>1. history' = history /\ request' = req /\ format' = format
      BY <2>2, SendKinds
    <3>2. UsesCcr(req) /\ wire'[i][j].form # "raw"
      BY <3>1 DEF UsesCcr, Changed
    <3>3. PICK k : k = <<"blake3", history[i].slots[j]>>
      OBVIOUS
    <3>4. k \in store' /\ k \in wire'[i][j].names
      BY <2>2, <3>2, <3>3, ReachableSlot
    <3> QED
      BY <3>1, <3>3, <3>4
  <2>3. CASE UNCHANGED vars
    BY <2>3 DEF vars, OriginalsReachable, Changed, UsesCcr
  <2> QED
    BY <2>1, <2>2, <2>3 DEF Next
<1> QED
  BY <1>1, <1>2, TypeCorrect, PTL DEF Spec

\* No request stores a text that it does not replace (compress.go:99-103).
THEOREM NothingIsOrphaned == Spec => NoOrphans
<1>1. TypeOK /\ [Next]_vars =>
        [\A k \in store' \ store :
           \E i \in DOMAIN wire' : \E j \in DOMAIN wire'[i] : k \in wire'[i][j].names]_vars
  <2> SUFFICES ASSUME TypeOK, Next, NEW k \in store' \ store
               PROVE  \E i \in DOMAIN wire' : \E j \in DOMAIN wire'[i] : k \in wire'[i][j].names
    OBVIOUS
  <2>1. PICK K \in Marks, req \in Request : Send(K, req)
    BY DEF Next, Say
  <2>2. k \in Stashed(K, UsesCcr(req)) /\ (SendUnchanged(K, req) \/ SendCompressed(K, req))
    BY <2>1 DEF Send, SendAsIs, SendUnchanged, SendCompressed
  <2>3. PICK p \in Tried(K) : k = <<"blake3", TextAt(p)>> /\ Stashes(TextAt(p), UsesCcr(req))
    BY <2>2 DEF Stashed
  <2>4. PICK i, j : p = <<i, j>> /\ i \in DOMAIN history /\ j \in DOMAIN history[i].slots
    BY <2>3 DEF Tried, LongSlots
  <2>5. p \in Replaced(K, UsesCcr(req)) /\ UsesCcr(req)
    BY <2>3 DEF Stashes, Replaced
  <2>6. wire' = Rewritten(Replaced(K, UsesCcr(req)), UsesCcr(req))
    BY <2>2, <2>5 DEF SendUnchanged, SendCompressed
  <2>7. wire'[i][j] = Compressed(history[i].slots[j], TRUE)
        /\ i \in DOMAIN wire' /\ j \in DOMAIN wire'[i]
    BY <2>4, <2>5, <2>6, RewrittenAt
  <2>8. k = <<"blake3", history[i].slots[j]>>
    BY <2>3, <2>4 DEF TextAt
  <2> QED
    BY <2>7, <2>8, MarkerIsNamed
<1> QED
  BY <1>1, TypeCorrect, PTL DEF Spec, NoOrphans

-----------------------------------------------------------------------------
(* The manifest *)

\* What a compressed block tells.
LEMMA BlockTells ==
  ASSUME NEW K, NEW c, NEW b \in Blocks(K, c), b.action = "Compressed"
  PROVE  \E p \in Tried(K) :
           /\ Compresses(TextAt(p), c) /\ b.index = p[1] /\ b.slot = p[2]
           /\ b.original = Tokens[TextAt(p)] /\ b.compressed = CompressedTokens(TextAt(p), c)
<1>1. \A k, r : Excluded(k, r).action = "Excluded"
  BY DEF Excluded
<1>2. PICK p \in Tried(K) : b = SlotBlock(p[1], p[2], TextAt(p), c)
  BY <1>1 DEF Blocks
<1>3. Compresses(TextAt(p), c)
  BY <1>2 DEF SlotBlock
<1> QED
  BY <1>2, <1>3 DEF SlotBlock

\* Which blocks speak of a compressed slot.
LEMMA CompressedBlocks ==
  ASSUME NEW K, NEW c, NEW i, NEW j
  PROVE  (\E b \in Blocks(K, c) : b.index = i /\ b.slot = j /\ b.action = "Compressed")
           <=> <<i, j>> \in Replaced(K, c)
<1>1. ASSUME NEW b \in Blocks(K, c), b.index = i, b.slot = j, b.action = "Compressed"
      PROVE  <<i, j>> \in Replaced(K, c)
  <2>1. PICK p \in Tried(K) : Compresses(TextAt(p), c) /\ i = p[1] /\ j = p[2]
    BY <1>1, BlockTells
  <2>2. p = <<i, j>>
    BY <2>1 DEF Tried
  <2> QED
    BY <2>1, <2>2 DEF Replaced
<1>2. ASSUME <<i, j>> \in Replaced(K, c)
      PROVE  \E b \in Blocks(K, c) : b.index = i /\ b.slot = j /\ b.action = "Compressed"
  <2> DEFINE b == SlotBlock(i, j, TextAt(<<i, j>>), c)
  <2>1. <<i, j>> \in Tried(K) /\ Compresses(TextAt(<<i, j>>), c)
    BY <1>2 DEF Replaced
  <2>2. b \in Blocks(K, c)
    BY <2>1 DEF Blocks
  <2>3. b.index = i /\ b.slot = j /\ b.action = "Compressed"
    BY <2>1 DEF SlotBlock
  <2> QED
    BY <2>2, <2>3
<1> QED
  BY <1>1, <1>2

\* A request of which nothing is replaced changes nothing.
LEMMA NothingChanged ==
  ASSUME NEW i \in DOMAIN history, NEW j \in DOMAIN history[i].slots
  PROVE  Rewritten({}, FALSE)[i][j].form = "raw"
<1>1. Rewritten({}, FALSE)[i][j] = Raw(history[i].slots[j])
  BY RewrittenNothing
<1>2. Raw(history[i].slots[j]).form = "raw"
  BY SlotForms
<1> QED
  BY <1>1, <1>2

\* There are no blocks without a manifest.
LEMMA NoBlocks ==
  ASSUME NEW r
  PROVE  NoOutcome(r).blocks = {}
  BY DEF NoOutcome

\* The manifest and the wire agree on every slot (anthropic.go:160-183, 218-240).
THEOREM ManifestIsTrue == Spec => []ManifestTellsChanges
<1>1. Init => ManifestTellsChanges
  BY DEF Init, ManifestTellsChanges
<1>2. ManifestTellsChanges /\ [Next]_vars => ManifestTellsChanges'
  <2> SUFFICES ASSUME ManifestTellsChanges, [Next]_vars PROVE ManifestTellsChanges'
    OBVIOUS
  <2>1. ASSUME NEW m \in Said[format], Say(m) PROVE ManifestTellsChanges'
    BY <2>1 DEF Say, ManifestTellsChanges, Changed
  <2>2. ASSUME NEW K \in Marks, NEW req \in Request, Send(K, req) PROVE ManifestTellsChanges'
    <3> SUFFICES ASSUME NEW i \in DOMAIN wire', NEW j \in DOMAIN wire'[i]
                 PROVE  wire'[i][j].form # "raw" <=>
                          \E b \in outcome'.blocks : b.index = i /\ b.slot = j /\ b.action = "Compressed"
      BY DEF ManifestTellsChanges, Changed
    <3>0. i \in DOMAIN history /\ j \in DOMAIN history[i].slots
      BY <2>2, AllIsSent
    <3>1. CASE SendAsIs(K, req) \/ SendUnchanged(K, req)
      <4>1. wire' = Rewritten({}, FALSE) /\ outcome'.blocks = {}
        <5>1. wire' = Rewritten({}, FALSE)
          BY <3>1 DEF SendAsIs, SendUnchanged
        <5>2. \E r : outcome' = NoOutcome(r)
          BY <3>1 DEF SendAsIs, SendUnchanged
        <5> QED
          BY <5>1, <5>2, NoBlocks
      <4> QED
        BY <3>0, <4>1, NothingChanged
    <3>2. CASE SendCompressed(K, req)
      <4> DEFINE c == UsesCcr(req)
      <4>1. wire' = Rewritten(Replaced(K, c), c) /\ outcome'.blocks = Blocks(K, c)
        BY <3>2 DEF SendCompressed
      <4>2. wire'[i][j] = IF <<i, j>> \in Replaced(K, c)
                          THEN Compressed(history[i].slots[j], c)
                          ELSE Raw(history[i].slots[j])
        BY <3>0, <4>1, RewrittenAt
      <4>3. wire'[i][j].form # "raw" <=> <<i, j>> \in Replaced(K, c)
        BY <4>2, SlotForms
      <4> QED
        BY <4>1, <4>3, CompressedBlocks
    <3> QED
      BY <2>2, <3>1, <3>2 DEF Send
  <2>3. CASE UNCHANGED vars
    BY <2>3 DEF vars, ManifestTellsChanges, Changed
  <2> QED
    BY <2>1, <2>2, <2>3 DEF Next
<1> QED
  BY <1>1, <1>2, PTL DEF Spec

-----------------------------------------------------------------------------
(* The savings *)

\* The numbers of tokens are numbers.
LEMMA TokenCounts ==
  ASSUME NEW t \in Texts, NEW c
  PROVE  Tokens[t] \in Int /\ CompressedTokens(t, c) \in Int
  BY TextAssumption DEF CompressedTokens

\* The slots of a request are finitely many.
LEMMA SlotsAreFinite ==
  ASSUME NEW w \in Seq(Seq(Slot))
  PROVE  IsFiniteSet(UNION {{i} \X DOMAIN w[i] : i \in DOMAIN w})
<1>1. PICK n \in Nat : DOMAIN w = 1 .. n
  BY SeqShape
<1>2. \A i \in DOMAIN w : w[i] \in Seq(Slot)
  BY SeqShape
<1>3. PICK f : f = [i \in DOMAIN w |-> {i} \X DOMAIN w[i]]
  OBVIOUS
<1>4. IsFiniteSet(DOMAIN w)
  BY <1>1, FS_Interval
<1>5. IsFiniteSet({f[i] : i \in DOMAIN w})
  BY <1>4, ImageFinite
<1>6. {f[i] : i \in DOMAIN w} = {{i} \X DOMAIN w[i] : i \in DOMAIN w}
  BY <1>3
<1>7. ASSUME NEW i \in DOMAIN w PROVE IsFiniteSet({i} \X DOMAIN w[i])
  <2>1. PICK k \in Nat : DOMAIN w[i] = 1 .. k
    BY <1>2, SeqShape
  <2>2. IsFiniteSet(1 .. k)
    BY FS_Interval
  <2>3. IsFiniteSet({i})
    BY FS_Singleton
  <2> QED
    BY <2>1, <2>2, <2>3, FS_Product
<1>8. \A T \in {{i} \X DOMAIN w[i] : i \in DOMAIN w} : IsFiniteSet(T)
  BY <1>7
<1> QED
  BY <1>5, <1>6, <1>8, FS_UNION

\* A slot that is sent is a slot of the conversation.
LEMMA SentSlot ==
  ASSUME TypeOK, NEW K, NEW req, Send(K, req), NEW p
  PROVE  p \in SentSlots' <=> \E i \in DOMAIN history : \E j \in DOMAIN history[i].slots : p = <<i, j>>
<1>1. DOMAIN wire' = DOMAIN history /\ \A i \in DOMAIN history : DOMAIN wire'[i] = DOMAIN history[i].slots
  BY AllIsSent
<1>2. SentSlots' = UNION {{i} \X DOMAIN history[i].slots : i \in DOMAIN history}
  BY <1>1 DEF SentSlots
<1> QED
  BY <1>2

\* What a slot saves: nothing when it is raw.
LEMMA SlotSavings ==
  ASSUME NEW t \in Texts, NEW c \in BOOLEAN
  PROVE  /\ Tokens[Raw(t).of] - WireTokens(Raw(t)) = 0
         /\ Tokens[Compressed(t, c).of] - WireTokens(Compressed(t, c))
              = Tokens[t] - CompressedTokens(t, c)
  BY TextAssumption DEF Raw, Compressed, WireTokens, CompressedTokens

\* The savings of a request, when each slot that is not raw is one of the set T
\* of those that were tried, and the manifest's totals f and g are over T.
LEMMA SavingsOfRequest ==
  ASSUME TypeOK', NEW T \in SUBSET SentSlots', NEW f, NEW g,
         \A p \in T : f[p] \in Int /\ g[p] \in Int /\ SlotSaves(p)' = f[p] - g[p],
         \A p \in SentSlots' \ T : SlotSaves(p)' = 0,
         \A p \in SentSlots' : Changed(p[1], p[2])' => SlotSaves(p)' > 0,
         \A b \in outcome'.blocks :
           b.action = "Compressed" => b.original - b.compressed = SlotSaves(<<b.index, b.slot>>)',
         outcome'.original - outcome'.compressed = SumOf(f, T) - SumOf(g, T)
  PROVE  SavingsAreReal'
<1>1. PICK S : S = SentSlots'
  OBVIOUS
<1>2. PICK h : h = [p \in S |-> SlotSaves(p)']
  OBVIOUS
<1>3. IsFiniteSet(S)
  <2>1. wire' \in Seq(Seq(Slot))
    BY DEF TypeOK
  <2> QED
    BY <1>1, <2>1, SlotsAreFinite DEF SentSlots
<1>4. \A p \in S : h[p] = SlotSaves(p)'
  BY <1>2
<1>5. SumOf(h, S) = SumOf(f, T) - SumOf(g, T)
  <2>1. \A p \in T : f[p] \in Int /\ g[p] \in Int /\ h[p] = f[p] - g[p]
    BY <1>1, <1>4
  <2>2. \A p \in S \ T : h[p] = 0
    BY <1>1, <1>4
  <2> QED
    BY <1>1, <1>3, <2>1, <2>2, SumOfDifferences
<1>6. SumOf([p \in SentSlots |-> SlotSaves(p)], SentSlots)' = SumOf(h, S)
  BY <1>1, <1>2
<1> QED
  BY <1>5, <1>6 DEF SavingsAreReal

\* A request of which nothing is replaced saves nothing.
LEMMA NothingSaved ==
  ASSUME TypeOK, TypeOK', NEW K, NEW req, Send(K, req), wire' = Rewritten({}, FALSE), NEW r,
         outcome' = NoOutcome(r)
  PROVE  SavingsAreReal'
<1>1. ASSUME NEW p \in SentSlots' PROVE SlotSaves(p)' = 0 /\ ~ Changed(p[1], p[2])'
  <2>1. PICK i, j : i \in DOMAIN history /\ j \in DOMAIN history[i].slots /\ p = <<i, j>>
    BY SentSlot
  <2>2. PICK t \in Texts : wire'[p[1]][p[2]] = Raw(t)
    BY <2>1, RewrittenNothing, SlotsShape
  <2>3. Tokens[Raw(t).of] - WireTokens(Raw(t)) = 0
    BY SlotSavings
  <2>4. SlotSaves(p)' = Tokens[Raw(t).of] - WireTokens(Raw(t))
    BY <2>2 DEF SlotSaves, WireTokens
  <2>5. Changed(p[1], p[2])' <=> Raw(t).form # "raw"
    BY <2>2 DEF Changed
  <2> QED
    BY <2>3, <2>4, <2>5, SlotForms
<1>2. PICK f : f = [p \in {} |-> 0]
  OBVIOUS
<1>3. outcome'.original - outcome'.compressed = SumOf(f, {}) - SumOf(f, {})
  <2>1. outcome'.original - outcome'.compressed = 0
    BY DEF NoOutcome
  <2>2. SumOf(f, {}) = 0
    BY SumEmpty
  <2> QED
    BY <2>1, <2>2
<1>4. outcome'.blocks = {}
  BY NoBlocks
<1> QED
  BY <1>1, <1>3, <1>4, SavingsOfRequest

\* A request saves what its manifest says.
LEMMA WalkSaves ==
  ASSUME TypeOK, TypeOK', NEW K, NEW req, SendCompressed(K, req)
  PROVE  SavingsAreReal'
<1>0. Send(K, req)
  BY DEF Send
<1>1. PICK c \in BOOLEAN : c = UsesCcr(req)
  BY DEF UsesCcr, TypeOK
<1>2. wire' = Rewritten(Replaced(K, c), c)
      /\ outcome'.original = TotalOriginal(K) /\ outcome'.compressed = TotalCompressed(K, c)
  BY <1>1 DEF SendCompressed
<1>3. Tried(K) \in SUBSET SentSlots'
  <2>1. ASSUME NEW p \in Tried(K)
        PROVE  \E i \in DOMAIN history : \E j \in DOMAIN history[i].slots : p = <<i, j>>
    BY DEF Tried, LongSlots
  <2> QED
    BY <1>0, <2>1, SentSlot
<1>4. ASSUME NEW p \in SentSlots'
      PROVE  /\ TextAt(p) \in Texts
             /\ p \in Replaced(K, c) =>
                  /\ SlotSaves(p)' = Tokens[TextAt(p)] - CompressedTokens(TextAt(p), c)
                  /\ SlotSaves(p)' > 0
             /\ p \notin Replaced(K, c) => SlotSaves(p)' = 0 /\ ~ Changed(p[1], p[2])'
  <2>1. PICK i, j : i \in DOMAIN history /\ j \in DOMAIN history[i].slots /\ p = <<i, j>>
    BY <1>0, SentSlot
  <2>2. PICK t : t = TextAt(p) /\ t = history[i].slots[j] /\ t \in Texts
    BY <2>1, SlotsShape DEF TextAt
  <2>3. wire'[p[1]][p[2]] = IF p \in Replaced(K, c) THEN Compressed(t, c) ELSE Raw(t)
    BY <1>2, <2>1, <2>2, RewrittenAt
  <2>4. CASE p \in Replaced(K, c)
    <3>1. SlotSaves(p)' = Tokens[Compressed(t, c).of] - WireTokens(Compressed(t, c))
      BY <2>3, <2>4 DEF SlotSaves, WireTokens
    <3>2. SlotSaves(p)' = Tokens[t] - CompressedTokens(t, c)
      BY <2>2, <3>1, SlotSavings
    <3>3. CompressedTokens(t, c) < Tokens[t]
      BY <2>2, <2>4 DEF Replaced, Compresses
    <3>4. Tokens[t] \in Int /\ CompressedTokens(t, c) \in Int
      BY <2>2, TokenCounts
    <3>5. Tokens[t] - CompressedTokens(t, c) > 0
      BY <3>3, <3>4
    <3> QED
      BY <2>2, <2>4, <3>2, <3>5
  <2>5. CASE p \notin Replaced(K, c)
    <3>1. SlotSaves(p)' = Tokens[Raw(t).of] - WireTokens(Raw(t))
      BY <2>3, <2>5 DEF SlotSaves, WireTokens
    <3>2. Changed(p[1], p[2])' <=> Raw(t).form # "raw"
      BY <2>3, <2>5 DEF Changed
    <3> QED
      BY <2>2, <2>5, <3>1, <3>2, SlotSavings, SlotForms
  <2> QED
    BY <2>2, <2>4, <2>5
<1>5. PICK T : T = Tried(K)
  OBVIOUS
<1>6. PICK f : f = [p \in T |-> Tokens[TextAt(p)]]
  OBVIOUS
<1>7. PICK g : g = [p \in T |-> IF p \in Replaced(K, c)
                                 THEN CompressedTokens(TextAt(p), c) ELSE Tokens[TextAt(p)]]
  OBVIOUS
<1>8. outcome'.original - outcome'.compressed = SumOf(f, T) - SumOf(g, T)
  BY <1>2, <1>5, <1>6, <1>7 DEF TotalOriginal, TotalCompressed
<1>9. ASSUME NEW p \in T
      PROVE  f[p] \in Int /\ g[p] \in Int /\ SlotSaves(p)' = f[p] - g[p]
  <2>1. TextAt(p) \in Texts /\ p \in SentSlots'
    BY <1>3, <1>4, <1>5
  <2>2. Tokens[TextAt(p)] \in Int /\ CompressedTokens(TextAt(p), c) \in Int
    BY <2>1, TokenCounts
  <2>3. f[p] = Tokens[TextAt(p)]
        /\ g[p] = IF p \in Replaced(K, c) THEN CompressedTokens(TextAt(p), c) ELSE Tokens[TextAt(p)]
    BY <1>6, <1>7
  <2>4. PICK a \in Int : a = Tokens[TextAt(p)]
    BY <2>2
  <2>5. a - a = 0
    OBVIOUS
  <2> QED
    BY <1>4, <2>1, <2>2, <2>3, <2>4, <2>5
<1>10. \A p \in SentSlots' \ T : SlotSaves(p)' = 0
  BY <1>4, <1>5 DEF Replaced
<1>11. \A p \in SentSlots' : Changed(p[1], p[2])' => SlotSaves(p)' > 0
  BY <1>4
<1>12. T \in SUBSET SentSlots'
  BY <1>3, <1>5
<1>13. ASSUME NEW b \in outcome'.blocks, b.action = "Compressed"
       PROVE  b.original - b.compressed = SlotSaves(<<b.index, b.slot>>)'
  <2>1. b \in Blocks(K, c)
    BY <1>1 DEF SendCompressed
  <2>2. PICK p \in Tried(K) :
          /\ Compresses(TextAt(p), c) /\ b.index = p[1] /\ b.slot = p[2]
          /\ b.original = Tokens[TextAt(p)] /\ b.compressed = CompressedTokens(TextAt(p), c)
    BY <1>13, <2>1, BlockTells
  <2>3. p = <<b.index, b.slot>> /\ p \in Replaced(K, c) /\ p \in SentSlots'
    BY <1>3, <2>2 DEF Replaced, Tried
  <2>4. SlotSaves(p)' = Tokens[TextAt(p)] - CompressedTokens(TextAt(p), c)
    BY <1>4, <2>3
  <2>5. SlotSaves(p)' = SlotSaves(<<b.index, b.slot>>)'
    BY <2>3
  <2> QED
    BY <2>2, <2>4, <2>5
<1> QED
  BY <1>8, <1>9, <1>10, <1>11, <1>12, <1>13, SavingsOfRequest

\* The difference of the manifest's totals is what the request became shorter, and
\* so is each compressed block's of its slot, for conversations of any length and
\* any results of the compressors (compress.go:82-108; anthropic.go:160-183).
THEOREM SavingsAlwaysReal == Spec => []SavingsAreReal
<1>1. Init => SavingsAreReal
  <2> SUFFICES ASSUME Init PROVE SavingsAreReal
    OBVIOUS
  <2>1. SentSlots = {}
    BY DEF Init, SentSlots
  <2>2. outcome.original - outcome.compressed = 0
    BY DEF Init, NoOutcome
  <2>3. SumOf([p \in SentSlots |-> SlotSaves(p)], SentSlots) = 0
    BY <2>1, SumEmpty
  <2>4. outcome.blocks = {}
    BY DEF Init, NoOutcome
  <2> QED
    BY <2>1, <2>2, <2>3, <2>4 DEF SavingsAreReal
<1>2. TypeOK /\ TypeOK' /\ SavingsAreReal /\ [Next]_vars => SavingsAreReal'
  <2> SUFFICES ASSUME TypeOK, TypeOK', SavingsAreReal, [Next]_vars PROVE SavingsAreReal'
    OBVIOUS
  <2>1. CASE wire' = wire /\ outcome' = outcome
    <3>1. SentSlots' = SentSlots
      BY <2>1 DEF SentSlots
    <3>2. \A p : SlotSaves(p)' = SlotSaves(p) /\ (Changed(p[1], p[2])' <=> Changed(p[1], p[2]))
      BY <2>1 DEF SlotSaves, WireTokens, Changed
    <3>3. [p \in SentSlots |-> SlotSaves(p)]' = [p \in SentSlots |-> SlotSaves(p)]
      BY <3>1, <3>2
    <3>4. SumOf([p \in SentSlots |-> SlotSaves(p)], SentSlots)'
            = SumOf([p \in SentSlots |-> SlotSaves(p)], SentSlots)
      BY <3>1, <3>3
    <3> QED
      BY <2>1, <3>1, <3>2, <3>4 DEF SavingsAreReal
  <2>2. ASSUME NEW m \in Said[format], Say(m) PROVE SavingsAreReal'
    BY <2>1, <2>2 DEF Say
  <2>3. ASSUME NEW K \in Marks, NEW req \in Request, Send(K, req) PROVE SavingsAreReal'
    <3>1. CASE SendAsIs(K, req) \/ SendUnchanged(K, req)
      <4>1. wire' = Rewritten({}, FALSE) /\ \E r : outcome' = NoOutcome(r)
        BY <3>1 DEF SendAsIs, SendUnchanged
      <4> QED
        BY <2>3, <4>1, NothingSaved
    <3>2. CASE SendCompressed(K, req)
      BY <3>2, WalkSaves
    <3> QED
      BY <2>3, <3>1, <3>2 DEF Send
  <2>4. CASE UNCHANGED vars
    BY <2>1, <2>4 DEF vars
  <2> QED
    BY <2>2, <2>3, <2>4 DEF Next
<1> QED
  BY <1>1, <1>2, TypeCorrect, PTL DEF Spec

-----------------------------------------------------------------------------
(* Turns of a Responses conversation *)

\* What is sent of an item: nothing but the item and the mode decides.
ItemSent(m, mode) ==
  [j \in DOMAIN m.slots |->
     IF mode = "auto" /\ m.role \in {"tool", "user"} /\ Compresses(m.slots[j], FALSE)
     THEN Compressed(m.slots[j], FALSE)
     ELSE Raw(m.slots[j])]

ItemsSent ==
  format = "openai_responses" =>
    \A i \in DOMAIN wire : wire[i] = ItemSent(history[i], request.mode)

\* The same item and the same mode give the same result.
LEMMA ItemRewritten ==
  ASSUME format = "openai_responses", NEW K, NEW req \in Request, Send(K, req),
         NEW i \in DOMAIN history
  PROVE  wire'[i] = ItemSent(history[i], req.mode)
<1>1. UsesCcr(req) = FALSE
  BY DEF UsesCcr
<1>2. HasLive(K)
  BY DEF HasLive
<1>3. \A j \in DOMAIN history[i].slots :
        <<i, j>> \in Replaced(K, FALSE) <=>
          history[i].role \in {"tool", "user"} /\ Compresses(history[i].slots[j], FALSE)
  <2>1. Live(K, i) <=> history[i].role \in {"tool", "user"}
    BY DEF Live, ResponsesLive
  <2>2. \A j \in DOMAIN history[i].slots :
          <<i, j>> \in Tried(K) <=> Live(K, i) /\ history[i].slots[j] \in Long
    BY TriedAt
  <2>3. \A j : TextAt(<<i, j>>) = history[i].slots[j]
    BY DEF TextAt
  <2>4. \A j : Compresses(history[i].slots[j], FALSE) => history[i].slots[j] \in Long
    BY DEF Compresses
  <2>5. \A j : <<i, j>> \in Replaced(K, FALSE) <=>
                 <<i, j>> \in Tried(K) /\ Compresses(TextAt(<<i, j>>), FALSE)
    BY DEF Replaced
  <2> QED
    BY <2>1, <2>2, <2>3, <2>4, <2>5
<1>4. CASE SendAsIs(K, req)
  BY <1>2, <1>4 DEF SendAsIs, Rewritten, ItemSent
<1>5. CASE SendUnchanged(K, req)
  <2>1. req.mode = "auto" /\ wire' = Rewritten({}, FALSE) /\ Replaced(K, FALSE) = {}
    BY <1>1, <1>5 DEF SendUnchanged
  <2> QED
    BY <1>3, <2>1 DEF Rewritten, ItemSent
<1>6. CASE SendCompressed(K, req)
  <2>1. req.mode = "auto" /\ wire' = Rewritten(Replaced(K, FALSE), FALSE)
    BY <1>1, <1>6 DEF SendCompressed
  <2> QED
    BY <1>3, <2>1 DEF Rewritten, ItemSent
<1> QED
  BY <1>4, <1>5, <1>6 DEF Send

\* Every item on the wire is what the item and the mode make it.
LEMMA ItemsStep == TypeOK /\ ItemsSent /\ [Next]_vars => ItemsSent'
<1> SUFFICES ASSUME TypeOK, ItemsSent, [Next]_vars, format = "openai_responses",
                    NEW i \in DOMAIN wire'
             PROVE  wire'[i] = ItemSent(history'[i], request'.mode)
  BY FormatStays DEF ItemsSent, ItemSent, Compressed, Raw, Compresses, CompressedTokens
<1>1. ASSUME NEW m \in Said[format], Say(m) PROVE wire'[i] = ItemSent(history'[i], request'.mode)
  <2>1. wire' = wire /\ request' = request
    BY <1>1 DEF Say
  <2>2. history'[i] = history[i]
    BY <1>1, <2>1, SayGrows, WireShape
  <2> QED
    BY <2>1, <2>2 DEF ItemsSent
<1>2. ASSUME NEW K \in Marks, NEW req \in Request, Send(K, req)
      PROVE  wire'[i] = ItemSent(history'[i], request'.mode)
  <2>1. i \in DOMAIN history /\ history' = history /\ request' = req
    BY <1>2, AllIsSent, SendKinds
  <2> QED
    BY <1>2, <2>1, ItemRewritten
<1>3. CASE UNCHANGED vars
  BY <1>3 DEF vars, ItemsSent
<1> QED
  BY <1>1, <1>2, <1>3 DEF Next

\* An item of a Responses conversation is sent in the same form again and
\* again, as long as the mode is the same (openai_responses.go:62-132).
THEOREM ResponsesPrefixIsStable == Spec => ResponsesPrefixStable
<1>1. Init => ItemsSent
  BY DEF Init, ItemsSent
<1>2. TypeOK /\ ItemsSent /\ [Next]_vars =>
        [format = "openai_responses" /\ request' = request =>
           \A i \in DOMAIN wire : wire'[i] = wire[i]]_vars
  <2> SUFFICES ASSUME TypeOK, ItemsSent, Next, format = "openai_responses",
                      request' = request, NEW i \in DOMAIN wire
               PROVE  wire'[i] = wire[i]
    OBVIOUS
  <2>1. ASSUME NEW m \in Said[format], Say(m) PROVE wire'[i] = wire[i]
    BY <2>1 DEF Say
  <2>2. ASSUME NEW K \in Marks, NEW req \in Request, Send(K, req) PROVE wire'[i] = wire[i]
    <3>1. i \in DOMAIN history /\ req = request
      BY <2>2, WireShape, SendKinds
    <3>2. wire'[i] = ItemSent(history[i], request.mode)
      BY <2>2, <3>1, ItemRewritten
    <3> QED
      BY <3>2 DEF ItemsSent
  <2> QED
    BY <2>1, <2>2 DEF Next
<1> QED
  BY <1>1, <1>2, ItemsStep, TypeCorrect, PTL DEF Spec, ResponsesPrefixStable

-----------------------------------------------------------------------------
(* The tool loop of a Chat conversation *)

\* Message i is live in a request of the messages D of the conversation.
LiveIn(D, i) ==
  \/ history[i].role = "user" /\ \A j \in D : j > i => history[j].role # "user"
  \/ history[i].role = "tool" /\ \A j \in D : j > i => history[j].role # "tool"
  \/ history[i].role = "tool"
     /\ \E r \in Candidates : (\E j \in D : history[j].role = r)
                              /\ \A j \in D : history[j].role = r => j < i

\* What is sent of a message that is live or is not.
MessageSent(m, live, mode) ==
  [j \in DOMAIN m.slots |->
     IF mode = "auto" /\ live /\ Compresses(m.slots[j], FALSE)
     THEN Compressed(m.slots[j], FALSE)
     ELSE Raw(m.slots[j])]

\* The last request put every message on the wire as it was live then.
MessagesSent ==
  format = "openai_chat" =>
    \A i \in DOMAIN wire : wire[i] = MessageSent(history[i], LiveIn(DOMAIN wire, i), request.mode)

\* The walk's notion of live is this one, for all messages.
LEMMA LiveInAll ==
  ASSUME format = "openai_chat", NEW K, NEW i
  PROVE  Live(K, i) <=> LiveIn(DOMAIN history, i)
  BY DEF Live, ChatLive, IsLast, AboveFloor, HasRole, LiveIn

\* A message that is live makes the request have live messages.
LEMMA SomeLive ==
  ASSUME format = "openai_chat", NEW K, NEW i \in DOMAIN history, Live(K, i)
  PROVE  HasLive(K)
<1>1. history[i].role \in Candidates
  BY DEF Live, ChatLive, IsLast, Candidates
<1> QED
  BY <1>1 DEF HasLive, ChatHasLive, HasRole

\* What a request makes of a message.
LEMMA MessageRewritten ==
  ASSUME format = "openai_chat", NEW K, NEW req \in Request, Send(K, req),
         NEW i \in DOMAIN history
  PROVE  wire'[i] = MessageSent(history[i], LiveIn(DOMAIN history, i), req.mode)
<1>1. UsesCcr(req) = FALSE
  BY DEF UsesCcr
<1>2. Live(K, i) <=> LiveIn(DOMAIN history, i)
  BY LiveInAll
<1>3. \A j \in DOMAIN history[i].slots :
        <<i, j>> \in Replaced(K, FALSE) <=>
          LiveIn(DOMAIN history, i) /\ Compresses(history[i].slots[j], FALSE)
  <2>1. \A j \in DOMAIN history[i].slots :
          <<i, j>> \in Tried(K) <=> Live(K, i) /\ history[i].slots[j] \in Long
    BY TriedAt
  <2>2. \A j : TextAt(<<i, j>>) = history[i].slots[j]
    BY DEF TextAt
  <2>3. \A j : Compresses(history[i].slots[j], FALSE) => history[i].slots[j] \in Long
    BY DEF Compresses
  <2>4. \A j : <<i, j>> \in Replaced(K, FALSE) <=>
                 <<i, j>> \in Tried(K) /\ Compresses(TextAt(<<i, j>>), FALSE)
    BY DEF Replaced
  <2> QED
    BY <1>2, <2>1, <2>2, <2>3, <2>4
<1>4. CASE SendAsIs(K, req)
  <2>1. wire'[i] = [j \in DOMAIN history[i].slots |-> Raw(history[i].slots[j])]
    BY <1>4 DEF SendAsIs, Rewritten
  <2>2. req.mode = "off" \/ ~ LiveIn(DOMAIN history, i)
    BY <1>2, <1>4, SomeLive DEF SendAsIs
  <2>3. ~ (req.mode = "auto" /\ LiveIn(DOMAIN history, i))
    BY <2>2
  <2> QED
    BY <2>1, <2>3 DEF MessageSent
<1>5. CASE SendUnchanged(K, req)
  <2>1. req.mode = "auto" /\ wire' = Rewritten({}, FALSE) /\ Replaced(K, FALSE) = {}
    BY <1>1, <1>5 DEF SendUnchanged
  <2> QED
    BY <1>3, <2>1 DEF Rewritten, MessageSent
<1>6. CASE SendCompressed(K, req)
  <2>1. req.mode = "auto" /\ wire' = Rewritten(Replaced(K, FALSE), FALSE)
    BY <1>1, <1>6 DEF SendCompressed
  <2> QED
    BY <1>3, <2>1 DEF Rewritten, MessageSent
<1> QED
  BY <1>4, <1>5, <1>6 DEF Send

\* What has been sent stays as it was sent while the conversation grows.
LEMMA MessagesStep == TypeOK /\ MessagesSent /\ [Next]_vars => MessagesSent'
<1> SUFFICES ASSUME TypeOK, MessagesSent, [Next]_vars, format = "openai_chat",
                    NEW i \in DOMAIN wire'
             PROVE  (wire[i] = MessageSent(history[i], LiveIn(DOMAIN wire, i), request.mode))'
  BY FormatStays DEF MessagesSent
<1>1. ASSUME NEW m \in Said[format], Say(m)
      PROVE  (wire[i] = MessageSent(history[i], LiveIn(DOMAIN wire, i), request.mode))'
  <2>1. wire' = wire /\ request' = request
    BY <1>1 DEF Say
  <2>2. \A k \in DOMAIN wire : history'[k] = history[k]
    BY <1>1, SayGrows, WireShape
  <2>3. LiveIn(DOMAIN wire, i)' <=> LiveIn(DOMAIN wire, i)
    BY <2>1, <2>2 DEF LiveIn
  <2>4. wire[i] = MessageSent(history[i], LiveIn(DOMAIN wire, i), request.mode)
    BY <2>1 DEF MessagesSent
  <2> QED
    BY <2>1, <2>2, <2>3, <2>4 DEF MessageSent, Compresses, CompressedTokens, Compressed, Raw
<1>2. ASSUME NEW K \in Marks, NEW req \in Request, Send(K, req)
      PROVE  (wire[i] = MessageSent(history[i], LiveIn(DOMAIN wire, i), request.mode))'
  <2>1. i \in DOMAIN history /\ history' = history /\ request' = req
        /\ DOMAIN wire' = DOMAIN history
    BY <1>2, AllIsSent, SendKinds
  <2>2. wire'[i] = MessageSent(history[i], LiveIn(DOMAIN history, i), req.mode)
    BY <1>2, <2>1, MessageRewritten
  <2>3. LiveIn(DOMAIN wire, i)' <=> LiveIn(DOMAIN history, i)
    BY <2>1 DEF LiveIn
  <2> QED
    BY <2>1, <2>2, <2>3 DEF MessageSent, Compresses, CompressedTokens, Compressed, Raw
<1>3. CASE UNCHANGED vars
  <2>1. wire' = wire /\ request' = request /\ history' = history
    BY <1>3 DEF vars
  <2>2. LiveIn(DOMAIN wire, i)' <=> LiveIn(DOMAIN wire, i)
    BY <2>1 DEF LiveIn
  <2>3. wire[i] = MessageSent(history[i], LiveIn(DOMAIN wire, i), request.mode)
    BY <2>1 DEF MessagesSent
  <2> QED
    BY <2>1, <2>2, <2>3 DEF MessageSent, Compresses, CompressedTokens, Compressed, Raw
<1> QED
  BY <1>1, <1>2, <1>3 DEF Next

\* In a tool loop what was live stays live, and nothing sent becomes live: the
\* latest user message stays the latest, and a tool message above it stays so.
LEMMA LoopKeepsLive ==
  ASSUME TypeOK, InToolLoop, NEW i \in DOMAIN wire
  PROVE  LiveIn(DOMAIN wire, i) <=> LiveIn(DOMAIN history, i)
<1> DEFINE D == DOMAIN wire
           E == DOMAIN history
<1>1. D \subseteq E /\ E \subseteq Nat /\ \A k \in D, l \in E \ D : k < l
  <2>1. Len(wire) \in Nat /\ D = 1 .. Len(wire)
    BY SeqShape DEF TypeOK
  <2>2. Len(history) \in Nat /\ E = 1 .. Len(history)
    BY SeqShape DEF TypeOK
  <2>3. Len(wire) <= Len(history)
    BY DEF TypeOK
  <2> QED
    BY <2>1, <2>2, <2>3
<1>2. /\ \E k \in D : history[k].role = "user"
      /\ \A k \in E \ D : history[k].role # "user"
      /\ \A k \in D : history[k].role = "tool" /\ (\A j \in D : j > k => history[j].role # "tool") =>
           \A j \in D : history[j].role = "user" => j < k
  BY DEF InToolLoop
<1>3. CASE history[i].role = "user"
  <2>1. LiveIn(D, i) <=> \A j \in D : j > i => history[j].role # "user"
    BY <1>3 DEF LiveIn
  <2>2. LiveIn(E, i) <=> \A j \in E : j > i => history[j].role # "user"
    BY <1>3 DEF LiveIn
  <2> QED
    BY <1>1, <1>2, <2>1, <2>2
<1>4. CASE history[i].role = "tool"
  <2> DEFINE Above(C) == \A j \in C : history[j].role = "user" => j < i
             Last(C) == \A j \in C : j > i => history[j].role # "tool"
  <2>1. ~ \E C : i \in C /\ \A j \in C : history[j].role = "tool" => j < i
    BY <1>1, <1>4
  <2>2. LiveIn(D, i) <=> Last(D) \/ Above(D)
    BY <1>2, <1>4, <2>1 DEF LiveIn, Candidates
  <2>3. LiveIn(E, i) <=> Last(E) \/ Above(E)
    BY <1>1, <1>2, <1>4, <2>1 DEF LiveIn, Candidates
  <2>4. Above(D) <=> Above(E)
    BY <1>1, <1>2
  <2>5. Last(E) => Last(D)
    BY <1>1
  <2>6. Last(D) => Above(D)
    BY <1>2, <1>4
  <2> HIDE DEF Above, Last
  <2> QED
    BY <2>2, <2>3, <2>4, <2>5, <2>6
<1>5. CASE history[i].role \notin {"user", "tool"}
  BY <1>5 DEF LiveIn
<1> QED
  BY <1>3, <1>4, <1>5

\* In a tool loop the messages that were sent are sent again in the same form
\* (openai_chat.go:82-157).
THEOREM ToolLoopIsStable == Spec => StableInToolLoop
<1>1. Init => MessagesSent
  BY DEF Init, MessagesSent
<1>2. TypeOK /\ MessagesSent /\ [Next]_vars =>
        [InToolLoop /\ request' = request => \A i \in DOMAIN wire : wire'[i] = wire[i]]_vars
  <2> SUFFICES ASSUME TypeOK, MessagesSent, Next, InToolLoop, request' = request,
                      NEW i \in DOMAIN wire
               PROVE  wire'[i] = wire[i]
    OBVIOUS
  <2>1. ASSUME NEW m \in Said[format], Say(m) PROVE wire'[i] = wire[i]
    BY <2>1 DEF Say
  <2>2. ASSUME NEW K \in Marks, NEW req \in Request, Send(K, req) PROVE wire'[i] = wire[i]
    <3>1. i \in DOMAIN history /\ req = request /\ format = "openai_chat"
      BY <2>2, WireShape, SendKinds DEF InToolLoop
    <3>2. wire'[i] = MessageSent(history[i], LiveIn(DOMAIN history, i), request.mode)
      BY <2>2, <3>1, MessageRewritten
    <3>3. wire[i] = MessageSent(history[i], LiveIn(DOMAIN wire, i), request.mode)
      BY <3>1 DEF MessagesSent
    <3>4. LiveIn(DOMAIN wire, i) <=> LiveIn(DOMAIN history, i)
      BY LoopKeepsLive
    <3> QED
      BY <3>2, <3>3, <3>4 DEF MessageSent
  <2> QED
    BY <2>1, <2>2 DEF Next
<1> QED
  BY <1>1, <1>2, MessagesStep, TypeCorrect, PTL DEF Spec, StableInToolLoop
=============================================================================

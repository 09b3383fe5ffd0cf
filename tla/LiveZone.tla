------------------------------ MODULE LiveZone ------------------------------
(***************************************************************************)
(* A conversation whose requests go through CompressLiveZone               *)
(* (core/compress.go) before they go on the wire.  The client keeps the    *)
(* conversation as it was said: it appends messages and sends all of them  *)
(* again with every request, never what was compressed.  The provider keeps*)
(* prefixes of what it was sent.  A conversation keeps to one format.      *)
(*                                                                         *)
(* Requests are well-formed: an object with an array of messages.          *)
(***************************************************************************)
EXTENDS AnthropicWalk, ChatWalk, ResponsesWalk

CONSTANTS
  Said,        \* format -> the messages that may be appended
  MaxMessages, \* bound on the length of the conversation
  MaxMarks     \* bound on the number of marked messages of a request

Formats == {"anthropic", "openai_chat", "openai_responses"}

ASSUME LiveZoneAssumption ==
  /\ Said \in [Formats -> SUBSET Message]
  /\ MaxMessages \in Nat
  /\ MaxMarks \in Nat

VARIABLES
  format,   \* of the conversation's requests
  history,  \* the conversation
  marks,    \* the marked messages of the last request
  request,  \* the mode and the CCR option of the last request
  wire,     \* the slots of the messages that the last request put on the wire
  outcome,  \* what CompressLiveZone returned
  store     \* the keys in the CCR store: kind of hash and text

vars == <<format, history, marks, request, wire, outcome, store>>

Request == [mode : {"auto", "off"}, ccr : BOOLEAN]

NoOutcome(r) ==
  [kind |-> "NoCompression", reason |-> r, blocks |-> {}, original |-> 0,
   compressed |-> 0]

TypeOK ==
  /\ format \in Formats
  /\ history \in Seq(Message)
  /\ marks \subseteq DOMAIN history
  /\ request \in Request
  /\ wire \in Seq(Seq(Slot))
  /\ Len(wire) <= Len(history)
  /\ \A i \in DOMAIN wire : Len(wire[i]) = Len(history[i].slots)
  /\ store \subseteq Key

Init ==
  /\ format \in Formats
  /\ history = << >>
  /\ marks = {}
  /\ request = [mode |-> "off", ccr |-> FALSE]
  /\ wire = << >>
  /\ outcome = NoOutcome("none")
  /\ store = {}

\* The client says something, or hears the model's answer.
Say(m) ==
  /\ Len(history) < MaxMessages
  /\ history' = Append(history, m)
  /\ UNCHANGED <<format, marks, request, wire, outcome, store>>

-----------------------------------------------------------------------------
(* CompressLiveZone of the conversation with marks K and options req *)

\* CCR is for Anthropic requests only.
UsesCcr(req) == format = "anthropic" /\ req.ccr

\* The dispatch on the format.
HasLive(K) ==
  CASE format = "anthropic"        -> AnthropicHasLive(history, K)
    [] format = "openai_chat"      -> ChatHasLive(history)
    [] format = "openai_responses" -> history # << >>

Live(K, i) ==
  CASE format = "anthropic"        -> AnthropicLive(history, K, i)
    [] format = "openai_chat"      -> ChatLive(history, i)
    [] format = "openai_responses" -> ResponsesLive(history, i)

Reason(K, i) ==
  CASE format = "anthropic"        -> AnthropicReason(history, K, i)
    [] format = "openai_chat"      -> ChatReason(history, i)
    [] format = "openai_responses" -> ResponsesReason(history, i)

\* The slots that are given to CompressText: message and number in it.
Tried(K) ==
  UNION {{i} \X LongSlots(history[i]) : i \in {k \in DOMAIN history : Live(K, k)}}

TextAt(p) == history[p[1]].slots[p[2]]

\* Those whose text is replaced.
Replaced(K, ccr) == {p \in Tried(K) : Compresses(TextAt(p), ccr)}

\* Mutant of Stashed: the hash is the one of the compressors' footers.
StashedLikeFooters(K, ccr) ==
  {<<"md5", TextAt(p)>> : p \in {q \in Tried(K) : Stashes(TextAt(q), ccr)}}

\* What compressTextWithCCR puts in the store.
Stashed(K, ccr) ==
  {<<"blake3", TextAt(p)>> : p \in {q \in Tried(K) : Stashes(TextAt(q), ccr)}}

Blocks(K, ccr) ==
  {Excluded(i, Reason(K, i)) : i \in {k \in DOMAIN history : Reason(K, k) # "none"}}
  \union {SlotBlock(p[1], p[2], TextAt(p), ccr) : p \in Tried(K)}

\* The totals of the manifest, which the walk adds up slot by slot.
TotalOriginal(K) == SumOf([p \in Tried(K) |-> Tokens[TextAt(p)]], Tried(K))

TotalCompressed(K, ccr) ==
  SumOf([p \in Tried(K) |-> IF p \in Replaced(K, ccr)
                             THEN CompressedTokens(TextAt(p), ccr)
                             ELSE Tokens[TextAt(p)]], Tried(K))

\* Mutant of Rewritten: the number of the slot is off by one.
RewrittenShifted(R, ccr) ==
  [i \in DOMAIN history |->
     [j \in DOMAIN history[i].slots |->
        IF <<i, j - 1>> \in R THEN Compressed(history[i].slots[j], ccr)
        ELSE Raw(history[i].slots[j])]]

\* The conversation with the slots of R replaced.
Rewritten(R, ccr) ==
  [i \in DOMAIN history |->
     [j \in DOMAIN history[i].slots |->
        IF <<i, j>> \in R THEN Compressed(history[i].slots[j], ccr)
        ELSE Raw(history[i].slots[j])]]

\* The walk is not begun: mode_off, empty_messages, no_live_user_message.
SendAsIs(K, req) ==
  /\ req.mode = "off" \/ ~ HasLive(K)
  /\ marks' = K
  /\ request' = req
  /\ wire' = Rewritten({}, FALSE)
  /\ outcome' = NoOutcome(IF req.mode = "off" THEN "mode_off" ELSE "no_live")
  /\ UNCHANGED <<format, history, store>>

\* The walk replaces nothing, and the client's bytes are sent.
SendUnchanged(K, req) ==
  /\ req.mode = "auto" /\ HasLive(K)
  /\ Replaced(K, UsesCcr(req)) = {}
  /\ marks' = K
  /\ request' = req
  /\ wire' = Rewritten({}, FALSE)
  /\ outcome' = NoOutcome("nothing_compressible")
  /\ store' = store \union Stashed(K, UsesCcr(req))
  /\ UNCHANGED <<format, history>>

\* The walk replaces some slots, and the whole body is marshalled anew.
SendCompressed(K, req) ==
  /\ req.mode = "auto" /\ HasLive(K)
  /\ Replaced(K, UsesCcr(req)) # {}
  /\ marks' = K
  /\ request' = req
  /\ wire' = Rewritten(Replaced(K, UsesCcr(req)), UsesCcr(req))
  /\ outcome' = [kind |-> "Compressed", reason |-> "none",
                 blocks |-> Blocks(K, UsesCcr(req)),
                 original |-> TotalOriginal(K),
                 compressed |-> TotalCompressed(K, UsesCcr(req))]
  /\ store' = store \union Stashed(K, UsesCcr(req))
  /\ UNCHANGED <<format, history>>

Send(K, req) == SendAsIs(K, req) \/ SendUnchanged(K, req) \/ SendCompressed(K, req)

\* The markers are the Anthropic API's.
Marks ==
  {K \in SUBSET DOMAIN history :
     Cardinality(K) <= MaxMarks /\ (K # {} => format = "anthropic")}

Next ==
  \/ \E m \in Said[format] : Say(m)
  \/ \E K \in Marks, req \in Request : Send(K, req)

Spec == Init /\ [][Next]_vars

-----------------------------------------------------------------------------
(* Properties *)

\* A message as the client wrote it.
AsSaid(m) == [j \in DOMAIN m.slots |-> Raw(m.slots[j])]

\* What the last request changed of the conversation.
Changed(i, j) == wire[i][j].form # "raw"

\* Up to the last cache_control marker of an Anthropic request every slot is
\* sent as the client wrote it: "messages below this index are in the
\* provider's prompt cache and must not be modified" (docs/PROXY_ANALYSIS.md:636;
\* anthropic.go:49-66, 104-125).
FrozenUntouched ==
  format = "anthropic" =>
    \A i \in DOMAIN wire : Frozen(marks, i) => wire[i] = AsSaid(history[i])

\* What a Responses conversation sends twice with the same options is sent in
\* the same form (openai_responses.go:62-132).
ResponsesPrefixStable ==
  [][format = "openai_responses" /\ request' = request =>
       \A i \in DOMAIN wire : wire'[i] = wire[i]]_vars

\* The provider caches every prefix of a Chat conversation.  While the model
\* and its tools alternate after a user message, what has been sent stays, the
\* first time tools answer excepted (openai_chat.go:82-157).
InToolLoop ==
  LET sent == DOMAIN wire IN
  /\ format = "openai_chat"
  /\ \E i \in sent : history[i].role = "user"
  /\ \A i \in DOMAIN history \ sent : history[i].role # "user"
  /\ \A i \in sent : history[i].role = "tool" /\ (\A j \in sent : j > i => history[j].role # "tool") =>
       \A k \in sent : history[k].role = "user" => k < i

StableInToolLoop ==
  [][InToolLoop /\ request' = request => \A i \in DOMAIN wire : wire'[i] = wire[i]]_vars

\* The manifest reports a slot as compressed exactly when it is another one on
\* the wire; without a manifest nothing is (anthropic.go:160-183, 218-240).
ManifestTellsChanges ==
  \A i \in DOMAIN wire : \A j \in DOMAIN wire[i] :
    Changed(i, j) <=>
      \E b \in outcome.blocks : b.index = i /\ b.slot = j /\ b.action = "Compressed"

\* The tokens of a slot on the wire.
WireTokens(s) ==
  CASE s.form = "raw" -> Tokens[s.of] [] s.form = "small" -> Small[s.of]
    [] s.form = "marked" -> Marked[s.of]

\* The slots on the wire, and by how many tokens each has become shorter.
SentSlots    == UNION {{i} \X DOMAIN wire[i] : i \in DOMAIN wire}
SlotSaves(p) == Tokens[wire[p[1]][p[2]].of] - WireTokens(wire[p[1]][p[2]])

\* The difference of the manifest's totals is what the request became shorter, a
\* compressed block tells what its slot became shorter, and each text that was
\* replaced is shorter, its marker included (compress.go:82-108;
\* anthropic.go:160-183, 218-240).
SavingsAreReal ==
  /\ SumOf([p \in SentSlots |-> SlotSaves(p)], SentSlots) = outcome.original - outcome.compressed
  /\ \A b \in outcome.blocks :
       b.action = "Compressed" => b.original - b.compressed = SlotSaves(<<b.index, b.slot>>)
  /\ \A p \in SentSlots : Changed(p[1], p[2]) => SlotSaves(p) > 0

\* With CCR, each text that was replaced names a key under which the client's
\* text of that slot can be had from the store.  It may name others that can not:
\* nothing stores what the footers of logs, searches and diffs name
\* (compress.go:49-74, 87-103).
OriginalsReachable ==
  UsesCcr(request) =>
    \A i \in DOMAIN wire : \A j \in DOMAIN wire[i] :
      Changed(i, j) =>
        \E k \in wire[i][j].names : k \in store /\ k[2] = history[i].slots[j]

\* What is stored is named on the wire: the request stores nothing for a slot it
\* does not replace (compress.go:99-103).
NoOrphans ==
  [][\A k \in store' \ store :
       \E i \in DOMAIN wire' : \E j \in DOMAIN wire'[i] : k \in wire'[i][j].names]_vars
=============================================================================

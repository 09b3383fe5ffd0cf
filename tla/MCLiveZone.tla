----------------------------- MODULE MCLiveZone -----------------------------
(***************************************************************************)
(* Small instances of LiveZone.  The texts are one of each kind that the   *)
(* walks tell apart: too short; long without a compressor; compressed with *)
(* a gain that outweighs a marker, and with one that does not; compressed  *)
(* with a footer of the compressor's own.                                  *)
(***************************************************************************)
EXTENDS LiveZone

MCTexts   == {"short", "prose", "json", "tight", "log"}
MCLong    == MCTexts \ {"short"}
MCShrinks == {"short", "json", "tight", "log"}
MCFooted  == {"log"}
MCTokens  == [t \in MCTexts |-> IF t = "short" THEN 1 ELSE 6]
MCSmall   == [t \in MCTexts |-> IF t = "tight" THEN 5 ELSE 2]
MCMarked  == [t \in MCTexts |-> MCSmall[t] + 1]

Message1(r, t) == [role |-> r, slots |-> <<t>>]
Message2(r, t, u) == [role |-> r, slots |-> <<t, u>>]

\* Tool results are slots of user messages.
AnthropicSaid ==
  {Message1("assistant", "short"), Message1("user", "short"),
   Message2("user", "json", "tight"), Message1("user", "log")}

ChatSaid ==
  {Message1("assistant", "short"), Message1("user", "short"),
   Message2("user", "json", "prose"), Message1("tool", "log"),
   Message1("tool", "prose"), Message1("system", "json")}

ResponsesSaid ==
  {Message1("assistant", "json"), Message1("user", "short"),
   Message2("user", "json", "prose"), Message1("tool", "log"),
   Message1("tool", "short")}

MCSaid ==
  [f \in Formats |-> CASE f = "anthropic"        -> AnthropicSaid
                       [] f = "openai_chat"      -> ChatSaid
                       [] f = "openai_responses" -> ResponsesSaid]
=============================================================================

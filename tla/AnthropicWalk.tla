---------------------------- MODULE AnthropicWalk ----------------------------
(***************************************************************************)
(* Which messages of an Anthropic request are live, and why the others are *)
(* not: the walk of core/transforms/livezone/anthropic.go and the frozen   *)
(* count of core/cachecontrol.  marks are the messages with a cache_control*)
(* marker in a block of their content.  The tool results of this API are   *)
(* blocks of user messages.                                                *)
(***************************************************************************)
EXTENDS LiveZoneTypes

\* ComputeFrozenCount: the messages up to the last marker.
Frozen(marks, i) == \E k \in marks : i <= k

\* Mutant of AnthropicLive: the search for the latest user message goes below
\* the frozen count.
AnthropicLiveAnywhere(h, marks, i) == IsLast(h, "user", i)

\* The latest user message above the frozen count.
AnthropicLive(h, marks, i) == ~ Frozen(marks, i) /\ IsLast(h, "user", i)

\* Some message is live.
AnthropicHasLive(h, marks) == \E i \in DOMAIN h : AnthropicLive(h, marks, i)

\* The reason why a message is excluded; "none" when it is not.
AnthropicReason(h, marks, i) ==
  CASE i \in marks -> "CacheControl"
    [] i \notin marks /\ Frozen(marks, i) -> "FrozenByPolicy"
    [] ~ Frozen(marks, i) /\ (\E k \in DOMAIN h : i < k /\ AnthropicLive(h, marks, k))
         -> "FrozenByPolicy"
    [] AnthropicLive(h, marks, i) /\ LongSlots(h[i]) = {} -> "TooSmall"
    [] (\E k \in DOMAIN h : k < i /\ AnthropicLive(h, marks, k))
         /\ h[i].role = "assistant" -> "LatestAssistant"
    [] OTHER -> "none"
=============================================================================

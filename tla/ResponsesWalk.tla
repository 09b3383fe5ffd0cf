---------------------------- MODULE ResponsesWalk ----------------------------
(***************************************************************************)
(* Which items of an OpenAI Responses request are live, and why the others *)
(* are not: the walk of core/transforms/livezone/openai_responses.go.  The *)
(* role "tool" stands for the three kinds of output items, "user" for the  *)
(* messages with input_text parts, and the other roles for the items that  *)
(* pass through.                                                           *)
(***************************************************************************)
EXTENDS LiveZoneTypes

\* Mutant of ResponsesLive: the live zone the comment speaks of.
ResponsesLiveLatest(h, i) == h[i].role = "tool" \/ IsLast(h, "user", i)

\* Every output and every user message, whatever its age.
ResponsesLive(h, i) == h[i].role \in {"tool", "user"}

ResponsesReason(h, i) ==
  IF h[i].role = "tool" /\ LongSlots(h[i]) = {} THEN "TooSmall" ELSE "none"
=============================================================================

------------------------------ MODULE ChatWalk ------------------------------
(***************************************************************************)
(* Which messages of an OpenAI Chat request are live, and why the others   *)
(* are not: the walk of core/transforms/livezone/openai_chat.go.  Tool     *)
(* results are messages of their own.  The role "system" stands for        *)
(* "developer" too.                                                        *)
(***************************************************************************)
EXTENDS LiveZoneTypes

Candidates == {"user", "tool"}

\* The live floor is the earlier of the latest user and the latest tool
\* message: the messages below it, and those above.
BelowFloor(h, i) ==
  \A r \in Candidates :
    HasRole(h, r) => \E j \in DOMAIN h : j > i /\ h[j].role = r

AboveFloor(h, i) ==
  \E r \in Candidates :
    HasRole(h, r) /\ \A j \in DOMAIN h : h[j].role = r => j < i

\* Mutant of ChatLive: no adjacent tool messages.
ChatLiveLatest(h, i) == IsLast(h, "user", i) \/ IsLast(h, "tool", i)

\* The latest user message, the latest tool message, and the tool messages
\* above the floor.
ChatLive(h, i) ==
  \/ IsLast(h, "user", i)
  \/ IsLast(h, "tool", i)
  \/ h[i].role = "tool" /\ AboveFloor(h, i)

ChatHasLive(h) == \E r \in Candidates : HasRole(h, r)

\* An assistant message that comes after the latest user or the latest tool
\* message; a role that does not occur is before everything.
IsLatestAssistant(h, i) ==
  /\ h[i].role = "assistant"
  /\ \E r \in Candidates : \A j \in DOMAIN h : h[j].role = r => j < i

ChatReason(h, i) ==
  CASE h[i].role = "system" -> "SystemMessage"
    [] h[i].role # "system" /\ BelowFloor(h, i) -> "FrozenByPolicy"
    [] ~ BelowFloor(h, i) /\ IsLatestAssistant(h, i) -> "LatestAssistant"
    [] OTHER -> "none"
=============================================================================

------------------------------- MODULE MCDesk -------------------------------
(***************************************************************************)
(* A desk with two sessions, a tool call, a chat and an agent in one of    *)
(* them and a chat in the other.                                           *)
(***************************************************************************)
EXTENDS Desk

CONSTANTS s1, s2, tool, chat, sub, other, k1

MCHome == [s \in Span |-> IF s = other THEN s2 ELSE s1]
MCKind == [s \in Span |-> CASE s = tool -> "execute_tool" [] s = sub -> "invoke_agent" [] OTHER -> "chat"]
MCCallOf == [s \in Span |-> IF s = tool THEN k1 ELSE None]

MCSeed == <<"live_sessions", "spans", "tool_detail", "chat_detail">>
MCLayouts == {MCSeed, <<"spans", "live_sessions">>}
MCHabits == {{"sessions", "delete"}, {"sessions", "add"}, {"sessions", "pick"}, {"sessions", "add", "pick"},
             {"add", "again", "arrange"}, {"search", "add", "arrange"}, {"search", "overlay", "widget"},
             {"arrange", "widget", "failing"}, {"delete", "add", "failing"}}
MCTypes == <<"tool_detail", "chat_detail", "file_touches">>
=============================================================================

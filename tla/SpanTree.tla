------------------------------ MODULE SpanTree ------------------------------
(***************************************************************************)
(* The spans an instrumented agent emits, as the collector will eventually *)
(* see them, and the answers the collector's ancestor queries should give  *)
(* once every span has arrived.                                            *)
(*                                                                         *)
(* A span is named by its (trace_id, span_id).  The content of a span is   *)
(* fixed: an exporter that delivers a span twice delivers the same span.   *)
(* The parent edges of a trace form a forest, given by the lineage of each *)
(* span: its proper ancestors, nearest first.                              *)
(***************************************************************************)
EXTENDS Integers, Sequences, FiniteSets

CONSTANTS
  Span,          \* the (trace_id, span_id) keys of one or more traces
  Conversation,  \* values of the attribute gen_ai.conversation.id
  CallId,        \* values of the tool call id attributes
  None,          \* SQL NULL
  Lineage,       \* Lineage[s]: the proper ancestors of s, its parent first
  Kind,          \* Kind[s]: the class SpanKindClass::from_name gives its name
  ConvAttr,      \* ConvAttr[s]: its conversation id attribute, or None
  CallAttr,      \* CallAttr[s]: its tool call id attribute, or None
  Eventful,      \* the spans that carry a hook event
  WalkDepth,     \* how far an ancestor walk climbs (64 in the code)
  ForwardDepth   \* how far a descendant walk descends (128 in the code)

KindClass ==
  {"invoke_agent", "chat", "execute_tool", "external_tool", "other"}

ASSUME SpanAssumption == IsFiniteSet(Span)

ASSUME NoneAssumption ==
  None \notin Span \cup Conversation \cup CallId

ASSUME LineageAssumption ==
  /\ Lineage \in [Span -> Seq(Span)]
  /\ \A s \in Span : \A i \in 1..Len(Lineage[s]) :
        Lineage[Lineage[s][i]] = SubSeq(Lineage[s], i + 1, Len(Lineage[s]))

ASSUME AttributeAssumption ==
  /\ Kind \in [Span -> KindClass]
  /\ ConvAttr \in [Span -> Conversation \cup {None}]
  /\ CallAttr \in [Span -> CallId \cup {None}]
  /\ Eventful \subseteq Span

\* A late ancestor must be able to reach every span whose walk reaches it.
ASSUME DepthAssumption ==
  /\ WalkDepth \in Nat
  /\ ForwardDepth \in Nat
  /\ WalkDepth <= ForwardDepth

-----------------------------------------------------------------------------

\* The span `depth` levels above s; depth 0 is s itself.
At(s, depth) == IF depth = 0 THEN s ELSE Lineage[s][depth]

\* The parent of s, or None for a root.
Parent(s) == IF Lineage[s] = << >> THEN None ELSE Lineage[s][1]

\* The depths an ancestor walk from s can reach when nothing is missing.
Depths(s) == {i \in 0..Len(Lineage[s]) : i <= WalkDepth}

\* The span at the least of some depths above s (ORDER BY depth LIMIT 1).
Closest(s, depths) ==
  IF \E i \in depths : \A j \in depths : i <= j
  THEN At(s, CHOOSE i \in depths : \A j \in depths : i <= j)
  ELSE None

(***************************************************************************)
(* The pointer columns that projection rows and event rows carry.  A span  *)
(* has one kind, hence at most one projection row, so the columns of the   *)
(* projection tables share a name:                                         *)
(*   agent    parent_agent_run_pk of agent_runs, agent_run_pk of the others*)
(*   chat     chat_turn_pk of tool_calls and external_tool_calls           *)
(*   invoker  parent_span_pk of agent_runs                                 *)
(*   hook_*   the pointers of hook_invocations                             *)
(***************************************************************************)
Column == {"agent", "chat", "invoker", "hook_agent", "hook_chat", "hook_tool"}

\* The kinds of ancestor a column points at the nearest of.
Wanted ==
  [agent |-> {"invoke_agent"}, hook_agent |-> {"invoke_agent"},
   chat  |-> {"chat"},         hook_chat  |-> {"chat"},
   invoker |-> {"chat", "execute_tool"}, hook_tool |-> {"execute_tool"}]

\* The proper ancestors of s that column c may point at.
Candidates ==
  [c \in Column |-> [s \in Span |->
    {At(s, i) : i \in {j \in Depths(s) : j > 0 /\ Kind[At(s, j)] \in Wanted[c]}}]]

\* What column c of a row of s should hold once the whole trace is known.
TruePointer ==
  [c \in Column |-> [s \in Span |->
    Closest(s, {i \in Depths(s) : i > 0 /\ Kind[At(s, i)] \in Wanted[c]})]]

\* The conversation a row of s belongs to once the whole trace is known.
ConversationAt(s, depths) ==
  LET holder == Closest(s, {i \in depths : ConvAttr[At(s, i)] # None})
  IN  IF holder = None THEN None ELSE ConvAttr[holder]

TrueConversation == [s \in Span |-> ConversationAt(s, Depths(s))]
=============================================================================

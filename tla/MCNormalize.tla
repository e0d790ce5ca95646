---------------------------- MODULE MCNormalize -----------------------------
(***************************************************************************)
(* Small traces on which TLC checks Normalize.  A trace is described by    *)
(* one record per span; the constants of SpanTree are read off it.         *)
(***************************************************************************)
EXTENDS Normalize, TLC

\* The columns of a trace description.
Field(trace, f) == [s \in DOMAIN trace |-> trace[s][f]]

Node(up, kind, cid, call) ==
  [up |-> up, kind |-> kind, cid |-> cid, call |-> call]

CONSTANTS root, turn, sub, inner, tool, ext, note, leaf, c1, c2, k1, k2

\* An agent, its chat turn, a subagent with a conversation of its own that the
\* turn invoked, and the tool the subagent calls: two agents on one lineage.
Nested ==
  root :> Node(<< >>, "invoke_agent", c1, None)
  @@ turn :> Node(<<root>>, "chat", None, None)
  @@ sub :> Node(<<turn, root>>, "invoke_agent", c2, None)
  @@ tool :> Node(<<sub, turn, root>>, "execute_tool", None, None)

NestedSpan == DOMAIN Nested
NestedLineage == Field(Nested, "up")
NestedKind == Field(Nested, "kind")
NestedConv == Field(Nested, "cid")
NestedCall == Field(Nested, "call")
NestedSends == [s \in NestedSpan |-> 1]

\* A chat turn that starts a subagent, with a conversation of its own, which
\* calls a tool.
Spawn ==
  turn :> Node(<< >>, "chat", c1, None)
  @@ sub :> Node(<<turn>>, "invoke_agent", c2, None)
  @@ tool :> Node(<<sub, turn>>, "execute_tool", None, None)

SpawnSpan == DOMAIN Spawn
SpawnLineage == Field(Spawn, "up")
SpawnKind == Field(Spawn, "kind")
SpawnConv == Field(Spawn, "cid")
SpawnCall == Field(Spawn, "call")
SpawnSends == [s \in SpawnSpan |-> IF s = sub THEN 2 ELSE 1]

\* A chat turn, a tool it calls, seen from both sides, and a tool call below that.
Line ==
  turn :> Node(<< >>, "chat", None, None)
  @@ tool :> Node(<<turn>>, "execute_tool", None, k1)
  @@ leaf :> Node(<<tool, turn>>, "execute_tool", None, None)
  @@ ext :> Node(<<turn>>, "external_tool", None, k1)

LineSpan == DOMAIN Line
LineLineage == Field(Line, "up")
LineKind == Field(Line, "kind")
LineConv == Field(Line, "cid")
LineCall == Field(Line, "call")
LineSends == [s \in LineSpan |-> 1]

\* A session: an agent, a turn with a tool call seen from both sides, a span of
\* no known kind under it that carries a hook event, and a subagent that the
\* tool started, with a turn and a tool call of its own.
Whole ==
  root :> Node(<< >>, "invoke_agent", c1, None)
  @@ turn :> Node(<<root>>, "chat", None, None)
  @@ tool :> Node(<<turn, root>>, "execute_tool", None, k1)
  @@ ext :> Node(<<turn, root>>, "external_tool", None, k1)
  @@ note :> Node(<<tool, turn, root>>, "other", None, None)
  @@ sub :> Node(<<tool, turn, root>>, "invoke_agent", c2, None)
  @@ inner :> Node(<<sub, tool, turn, root>>, "chat", None, None)
  @@ leaf :> Node(<<inner, sub, tool, turn, root>>, "execute_tool", None, k2)

WholeSpan == DOMAIN Whole
WholeLineage == Field(Whole, "up")
WholeKind == Field(Whole, "kind")
WholeConv == Field(Whole, "cid")
WholeCall == Field(Whole, "call")
WholeSends == [s \in WholeSpan |-> 1]

WorkerSymmetry == Permutations(Worker)
=============================================================================

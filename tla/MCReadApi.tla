------------------------------ MODULE MCReadApi ------------------------------
(***************************************************************************)
(* A session and a stranger to it, for TLC.  The session's trace has an    *)
(* agent's run with a hook and, below it, a tool call that knows its       *)
(* conversation only through the run.  Behaviours are of two kinds, for    *)
(* one instance of both at once would be too large: either two calls of    *)
(* normalize_span run beside two deletions, and nothing is read, or the    *)
(* calls about the session come one at a time and do not fail, it is       *)
(* deleted once, and requests about it are answered meanwhile.             *)
(***************************************************************************)
EXTENDS ReadApi, TLC

CONSTANTS run, tool, stranger, c1, c2, h1, w1, w2

ApiSpan == {run, tool, stranger}
ApiTrace == [s \in ApiSpan |-> IF s = stranger THEN 2 ELSE 1]
ApiLineage == [s \in ApiSpan |-> IF s = tool THEN <<run>> ELSE <<>>]
ApiConv == [s \in ApiSpan |-> CASE s = run -> c1 [] s = stranger -> c2 [] s = tool -> None]
ApiEvents == [s \in ApiSpan |->
  CASE s = run -> <<<<"start", h1>>, <<"end", h1>>>>
    [] s = tool -> <<<<"usage", None>>>>
    [] s = stranger -> <<<<"skill", None>>>>]
ApiSends == [s \in ApiSpan |-> IF s = run THEN 2 ELSE 1]
ApiKind == [s \in ApiSpan |->
  CASE s = run -> "invoke_agent" [] s = tool -> "execute_tool" [] s = stranger -> "chat"]
ApiStart == [s \in ApiSpan |-> CASE s = run -> 1 [] s = tool -> 2 [] s = stranger -> 3]
ApiEnd == [s \in ApiSpan |-> CASE s = run -> 6 [] s = tool -> 4 [] s = stranger -> 5]
ApiLiked == [s \in ApiSpan |->
  CASE s = run -> {"agent", "event"} [] s = tool -> {"tool"} [] s = stranger -> {"attributes"}]
ApiText == [s \in ApiSpan |->
  CASE s = run -> {"agent", "event"} [] s = tool -> {"name", "tool"} [] s = stranger -> {}]

VARIABLE reading \* which kind: never changes

MCInit == ReadInit /\ reading \in BOOLEAN

MCNext ==
  /\ UNCHANGED reading
  /\ IF reading
     THEN /\ ReadNext
          /\ real' \subseteq {run, tool} /\ deletes' <= 1 /\ shared' = {} /\ ask'.of # c2
          /\ \A w \in Worker : pc[w] # "idle" => \A v \in Worker \ {w} : pc'[v] = "idle"
     ELSE Write

MCSpec == MCInit /\ [][MCNext]_<<all, reading>>

WorkerSymmetry == Permutations(Worker)
=============================================================================

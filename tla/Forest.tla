------------------------------- MODULE Forest -------------------------------
(***************************************************************************)
(* Session span trees: how the server builds one from rows, and what the   *)
(* TUI and the dashboard look up in one.  Rows are a function from span    *)
(* keys (positive integers, ordered as both span_pk and span_id are) to    *)
(* records [parent, kind, start, end], where 0 stands for NULL.            *)
(***************************************************************************)
EXTENDS Integers, Sequences, SequencesExt, FiniteSets

Tool == {"execute_tool", "external_tool"}

Less(k, l) == \* of pairs and triples of integers
  \E i \in DOMAIN k : k[i] < l[i] /\ \A j \in 1..(i - 1) : k[j] = l[j]

First(S, Key(_)) == CHOOSE n \in S : \A m \in S \ {n} : Less(Key(n), Key(m))
Latest(S, Key(_)) == CHOOSE n \in S : \A m \in S \ {n} : Less(Key(m), Key(n))

Or(a, b) == IF a # 0 THEN a ELSE b

InOrder(S, Before(_, _)) ==
  [i \in 1..Cardinality(S) |-> CHOOSE n \in S : Cardinality({m \in S : Before(m, n)}) = i - 1]

-----------------------------------------------------------------------------
(* The server.                                                             *)

ByRow(rows) == LET Key(n) == <<Or(rows[n].end, rows[n].start), n>>
               IN InOrder(DOMAIN rows, LAMBDA a, b : Less(Key(a), Key(b)))

(* Newest end first, and before them those that have none; the rest stays  *)
(* in the order it had.                                                    *)
Recency(rows, a, b) ==
  \/ rows[a].end = 0 /\ rows[b].end # 0
  \/ rows[a].end # 0 /\ rows[b].end # 0 /\ rows[a].end > rows[b].end

NewestFirst(rows, seq) ==
  InOrder(DOMAIN seq, LAMBDA i, j :
      \/ Recency(rows, seq[i], seq[j])
      \/ ~Recency(rows, seq[j], seq[i]) /\ i < j)

Sorted(rows, seq) == LET at == NewestFirst(rows, seq) IN [i \in DOMAIN seq |-> seq[at[i]]]

Children(rows, p) == Sorted(rows, SelectSeq(ByRow(rows), LAMBDA n : rows[n].parent = p))

Roots(rows) == InOrder({n \in DOMAIN rows : rows[n].parent \notin DOMAIN rows}, <)

(* get_session_span_tree: roots are sorted as children are.                *)
SessionTree(rows) ==
  [node |-> rows, roots |-> Sorted(rows, Roots(rows)),
   kids |-> [n \in DOMAIN rows |-> Children(rows, n)]]

(* build_tree_for_rows, of one trace: roots stay in the order of their ids.*)
TraceTree(rows) ==
  [node |-> rows, roots |-> Roots(rows), kids |-> [n \in DOMAIN rows |-> Children(rows, n)]]

Spans(t) == DOMAIN t.node
Chats(t) == {n \in Spans(t) : t.node[n].kind = "chat"}
Tools(t) == {n \in Spans(t) : t.node[n].kind \in Tool}
Siblings(t, n) == IF t.node[n].parent \in Spans(t) THEN t.kids[t.node[n].parent] ELSE t.roots

(* Ancestors, nearest first.                                               *)
Above(t) ==
  LET up[n \in Spans(t)] ==
        IF t.node[n].parent \in Spans(t) THEN <<t.node[n].parent>> \o up[t.node[n].parent] ELSE <<>>
  IN up

Descendants(t, n) == LET up == Above(t) IN {m \in Spans(t) : n \in ToSet(up[m])}

(* The rows of a tree, top to bottom, without what lies under `collapsed`. *)
Flatten(t, collapsed) ==
  LET walk[todo \in Seq(Spans(t))] ==
        IF todo = <<>> THEN <<>>
        ELSE LET n == Head(todo)
                 below == IF n \in collapsed THEN <<>> ELSE t.kids[n]
             IN <<n>> \o walk[below \o Tail(todo)]
  IN walk[t.roots]

NearestChat(t, path) ==
  LET chats == SelectSeq(path, LAMBDA n : t.node[n].kind = "chat")
  IN IF chats = <<>> THEN 0 ELSE chats[1]

HoveredChat(t, n) == NearestChat(t, <<n>> \o Above(t)[n])

-----------------------------------------------------------------------------
(* The TUI.                                                                *)

SortKey(t, n) == <<t.node[n].end, t.node[n].start, n>>

LatestTool(t) ==
  IF Tools(t) = {} THEN 0 ELSE Latest(Tools(t), LAMBDA n : SortKey(t, n))

LatestChatDescendant(t, n) ==
  LET chats == Chats(t) \cap Descendants(t, n)
  IN IF chats = {} THEN 0 ELSE Latest(chats, LAMBDA m : SortKey(t, m))

FirstAfter(t, S, k) ==
  LET later == {m \in S : Less(k, SortKey(t, m))}
  IN IF later = {} THEN 0 ELSE First(later, LAMBDA m : SortKey(t, m))

Encloses(t, m, n) ==
  t.node[m].start <= t.node[n].start /\ t.node[m].end >= t.node[n].end

Enclosing(t, n, Holds(_)) ==
  LET hits == SelectSeq(Siblings(t, n), LAMBDA m : m # n /\ m \in Chats(t) /\ Holds(m))
  IN IF hits = <<>> THEN 0 ELSE hits[1]

(* The chat that consumes a tool's answer: after the chat the tool is under*)
(* or else beside the tool, around it or after it.                         *)
FollowingChat(t, n) ==
  LET above == NearestChat(t, Above(t)[n])
      nested == IF above = 0 THEN 0 ELSE FirstAfter(t, Chats(t), SortKey(t, above))
      beside == IF above = 0 THEN Enclosing(t, n, LAMBDA m : Encloses(t, m, n)) ELSE 0
      after == FirstAfter(t, Chats(t) \cap ToSet(Siblings(t, n)), SortKey(t, n))
  IN Or(nested, Or(beside, after))

ChatRoute(t, n) ==
  CASE t.node[n].kind \in Tool -> FollowingChat(t, n)
    [] t.node[n].kind = "invoke_agent" -> LatestChatDescendant(t, n)
    [] OTHER -> 0

(* The chat before this one, whose messages the DELTA view takes away.     *)
PriorKey(t, n) == <<Or(t.node[n].end, t.node[n].start), n>>

PriorChat(t, n) ==
  LET before == {m \in Chats(t) : Less(PriorKey(t, m), PriorKey(t, n))}
  IN IF before = {} THEN 0 ELSE Latest(before, LAMBDA m : PriorKey(t, m))

-----------------------------------------------------------------------------
(* The dashboard.                                                          *)

WebKey(t, n) == <<Or(t.node[n].end, Or(t.node[n].start, n))>>
WebOrder(t, n) == WebKey(t, n) \o <<n>>

(* Of the greatest keys, the first in the order of the rows.               *)
WebLatest(t, S) ==
  LET rows == Flatten(t, {})
      At(n) == CHOOSE i \in DOMAIN rows : rows[i] = n
  IN IF S = {} THEN 0 ELSE Latest(S, LAMBDA n : WebKey(t, n) \o <<0 - At(n)>>)

WebFirstAfter(t, S, n) ==
  LET later == {m \in S : Less(WebOrder(t, n), WebOrder(t, m))}
      rows == Flatten(t, {})
      At(m) == CHOOSE i \in DOMAIN rows : rows[i] = m
  IN IF later = {} THEN 0 ELSE First(later, LAMBDA m : WebKey(t, m) \o <<At(m)>>)

WebNextSibling(t, n) ==
  LET later == {m \in Chats(t) \cap ToSet(Siblings(t, n)) : Less(WebOrder(t, n), WebOrder(t, m))}
  IN IF later = {} THEN 0 ELSE First(later, LAMBDA m : WebOrder(t, m))

WebEncloses(t, m, n) ==
  /\ t.node[m].start <= t.node[n].start
  /\ t.node[m].end = 0 \/ t.node[m].end >= Or(t.node[n].end, t.node[n].start)

WebFollowingChat(t, n) ==
  LET above == NearestChat(t, Above(t)[n])
  IN IF above # 0 THEN WebFirstAfter(t, Chats(t), above)
     ELSE Or(Enclosing(t, n, LAMBDA m : WebEncloses(t, m, n)), WebNextSibling(t, n))

WebLatestChatDescendant(t, n) == WebLatest(t, Chats(t) \cap Descendants(t, n))

(* onPickSpan: the chat of a tool call is looked up for execute_tool only. *)
WebChatRoute(t, n) ==
  CASE t.node[n].kind = "execute_tool" -> WebFollowingChat(t, n)
    [] t.node[n].kind = "invoke_agent" -> WebLatestChatDescendant(t, n)
    [] OTHER -> 0
=============================================================================

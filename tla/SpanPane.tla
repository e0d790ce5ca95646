------------------------------ MODULE SpanPane ------------------------------
(***************************************************************************)
(* The tree of a Spans column in the TUI: the cursor, what is collapsed,   *)
(* search, follow mode, and what a pick sends to the detail columns, while *)
(* the session grows on the server and the cached tree lags behind it.     *)
(***************************************************************************)
EXTENDS Forest, TLC

CONSTANTS
  Shapes,    \* sessions: what each grows into: a row per span, and the spans that come late
  Query,     \* texts of a search; Blank is the empty one
  Blank,
  Matches,   \* spans a text is found in
  Habits     \* bound: which keys one behaviour has in it

VARIABLES
  uses,        \* which of Habits: never changes
  shape,       \* the session of the column: never changes but by SwitchSession
  rows,        \* spans of the session the server has
  tree,        \* ["session-span-tree", cid] in the cache
  flat,        \* its flatten_visible, which the code takes anew each time
  cursor, collapsed, follow, focused,   \* SpansState
  typing, text, asked, hits,  \* search_active, search; searches under way and answered
  hover, chat, tool,          \* hovered_chat_pk; what the detail columns show
  notified,    \* cache.changed: on_cache_changed has yet to run for what came in
  since        \* history: what the user or the session did since the last pick

server == <<uses, shape, rows>>
cached == <<tree, flat>>
history == <<notified, since>>
search == <<typing, text, asked, hits>>
shown == <<hover, chat, tool>>
vars == <<server, cached, cursor, collapsed, follow, focused, search, shown, history>>

Early(sh) == [n \in DOMAIN sh.row \ sh.late |-> sh.row[n]]

Init ==
  /\ uses \in Habits /\ shape \in Shapes
  /\ rows = Early(shape) /\ tree = SessionTree(rows) /\ flat = Flatten(tree, {})
  /\ cursor = 0 /\ collapsed = {} /\ follow = FALSE /\ focused = 0
  /\ typing = FALSE /\ text = Blank /\ asked = {} /\ hits = <<>>
  /\ hover = 0 /\ chat = 0 /\ tool = 0 /\ notified = FALSE /\ since = {}

Row(c) == flat[c + 1]                  \* the code counts rows from 0
On(c) == c < Len(flat)
LowerBound(n) == IF n < 0 THEN 0 ELSE n

(* Rows came, went or changed places at the cursor or above it.            *)
Shifted(to) ==
  LET UpTo(s) == SubSeq(s, 1, IF On(cursor) /\ cursor < Len(s) THEN cursor + 1 ELSE Len(s))
  IN IF UpTo(flat) = UpTo(to) THEN {} ELSE {"rows"}

-----------------------------------------------------------------------------
(* The session grows, and the cache follows.                               *)

Arrive(n) ==
  /\ n \in shape.late \ DOMAIN rows
  /\ \E end \in {0, shape.row[n].end} :
       rows' = (n :> [shape.row[n] EXCEPT !.end = end]) @@ rows
  /\ UNCHANGED <<uses, shape, cached, cursor, collapsed, follow, focused, search, shown, history>>

Finish(n) ==
  /\ n \in DOMAIN rows /\ rows[n].end # shape.row[n].end
  /\ rows' = [rows EXCEPT ![n] = shape.row[n]]
  /\ UNCHANGED <<uses, shape, cached, cursor, collapsed, follow, focused, search, shown, history>>

Refetch ==
  /\ tree.node # rows
  /\ tree' = SessionTree(rows) /\ flat' = Flatten(tree', collapsed)
  /\ notified' = TRUE /\ since' = since \cup Shifted(flat')
  /\ UNCHANGED <<server, cursor, collapsed, follow, focused, search, shown>>

Route(n) == LET c == ChatRoute(tree, n) IN IF c = 0 THEN chat ELSE c

(* PropagateSelection, as far as the detail columns see it.                *)
Send(n) ==
  /\ tool' = IF tree.node[n].kind \in Tool THEN n ELSE tool
  /\ chat' = IF tree.node[n].kind = "chat" THEN n ELSE Route(n)

(* Mistake: follow mode goes down the rows only, never up.                 *)
DueBelow ==
  LET n == LatestTool(tree) IN
  follow /\ n # focused /\ n \in ToSet(flat) /\ SelectInSeq(flat, LAMBDA m : m = n) > cursor

Due == LET n == LatestTool(tree) IN follow /\ n # focused /\ n \in ToSet(flat)

(* advance_follow_mode_if_engaged: follow mode stays on, the hovered chat  *)
(* stays as it was.                                                        *)
Advance ==
  LET n == LatestTool(tree) IN
  /\ cursor' = SelectInSeq(flat, LAMBDA m : m = n) - 1
  /\ focused' = n /\ Send(n)
  /\ UNCHANGED <<server, cached, collapsed, follow, search, hover>>

WsBatch ==
  /\ Due /\ Advance
  /\ since' = (since \ {"rows"}) \cup {"follow"} /\ UNCHANGED notified

CacheChanged ==
  /\ notified /\ notified' = FALSE
  /\ \/ Due /\ Advance /\ since' = {"follow"}
     \/ ~Due /\ since' = since \ {"key"}
        /\ UNCHANGED <<server, cached, cursor, collapsed, follow, focused, search, shown>>

-----------------------------------------------------------------------------
(* Picks.                                                                  *)

HoverAt(c) == IF On(c) THEN HoveredChat(tree, Row(c)) ELSE 0

(* Mistake: the row the cursor came from is the one that lights the bar.   *)
PickLate(n, c) ==
  /\ focused' = n /\ follow' = (LatestTool(tree) = n)
  /\ hover' = HoverAt(cursor) /\ Send(n)

Pick(n, c) ==
  /\ focused' = n /\ follow' = (LatestTool(tree) = n)
  /\ hover' = HoverAt(c) /\ Send(n)

Go(c) ==
  /\ cursor' = c /\ since' = IF On(c) THEN since \cap {"key"} ELSE since
  /\ IF On(c) THEN Pick(Row(c), c)
     ELSE hover' = 0 /\ UNCHANGED <<focused, follow, chat, tool>>
  /\ UNCHANGED <<server, cached, collapsed, search, notified>>

Up == Go(LowerBound(cursor - 1))
Down == Go(IF cursor + 1 < Len(flat) THEN cursor + 1 ELSE cursor)
Top == Go(0)

Bottom == Go(LowerBound(Len(flat) - 1))

(* A bar of the context growth widget: a chat of this session.  The span is*)
(* picked even when its row is hidden.                                     *)
PickBar(n) ==
  /\ n \in Chats(tree)
  /\ cursor' = IF n \in ToSet(flat) THEN SelectInSeq(flat, LAMBDA m : m = n) - 1 ELSE cursor
  /\ since' = (since \cap {"key"}) \cup (IF n \in ToSet(flat) THEN {} ELSE {"rows"})
  /\ Pick(n, cursor')
  /\ UNCHANGED <<server, cached, collapsed, search, notified>>

ToggleFollow ==
  /\ follow' = ~follow /\ since' = since \cup {"key"}
  /\ UNCHANGED <<server, cached, cursor, collapsed, focused, search, shown, notified>>

-----------------------------------------------------------------------------
(* Collapsing moves no cursor.                                             *)

SetCollapsed(S) ==
  /\ collapsed' = S /\ flat' = Flatten(tree, S)
  /\ since' = since \cup Shifted(flat') \cup {"key"}
  /\ UNCHANGED <<server, tree, cursor, follow, focused, search, shown, notified>>

Collapse == On(cursor) /\ SetCollapsed(collapsed \cup {Row(cursor)})
Expand == On(cursor) /\ SetCollapsed(collapsed \ {Row(cursor)})
ExpandAll == SetCollapsed({})
CollapseAll == SetCollapsed(collapsed \cup {n \in Spans(tree) : tree.kids[n] # <<>>})

Toggle == IF On(cursor) /\ Row(cursor) \in collapsed THEN Expand ELSE Collapse

-----------------------------------------------------------------------------
(* Search.                                                                 *)

StartTyping == ~typing /\ typing' = TRUE
  /\ UNCHANGED <<server, cached, cursor, collapsed, follow, focused, text, asked, hits, shown, history>>

StopTyping == typing /\ typing' = FALSE
  /\ UNCHANGED <<server, cached, cursor, collapsed, follow, focused, text, asked, hits, shown, history>>

(* Each change of the text starts a search of its own 300 ms later.        *)
Type(q) ==
  /\ typing /\ q # text
  /\ text' = q /\ asked' = IF q = Blank THEN asked ELSE asked \cup {q}
  /\ UNCHANGED <<server, cached, cursor, collapsed, follow, focused, typing, hits, shown, history>>

Clear ==
  /\ typing /\ typing' = FALSE /\ text' = Blank
  /\ UNCHANGED <<server, cached, cursor, collapsed, follow, focused, asked, hits, shown, history>>

Found(q) == {n \in DOMAIN rows : n \in Matches[q]}

(* A search fails, or the cache holds a fresh answer: nothing changes.     *)
Answer(q) ==
  /\ q \in asked /\ asked' = asked \ {q}
  /\ hits' \in {hits, (q :> Found(q)) @@ hits}
  /\ UNCHANGED <<server, cached, cursor, collapsed, follow, focused, typing, text, shown, history>>

Hits == IF text # Blank /\ text \in DOMAIN hits THEN hits[text] ELSE {}

Steps(c, dir) ==   \* the rows after (or before) the cursor's, around to it
  LET n == Len(flat)
      start == IF c < n THEN c ELSE n - 1
  IN [i \in 1..n |-> (start + (dir * i) + n) % n]

(* Mistake: the search for a hit stops at the last row.                    *)
JumpUnwrapped(c, dir) ==
  LET ahead == SelectSeq(Steps(c, dir), LAMBDA i : Row(i) \in Hits /\ dir * (i - c) > 0)
  IN IF ahead = <<>> THEN c ELSE ahead[1]

JumpTarget(c, dir) ==
  LET ahead == SelectSeq(Steps(c, dir), LAMBDA i : Row(i) \in Hits)
  IN IF ahead = <<>> THEN c ELSE ahead[1]

Jump(dir) ==
  /\ \E n \in ToSet(flat) : n \in Hits
  /\ Go(JumpTarget(cursor, dir))

-----------------------------------------------------------------------------
(* Another session in the column: SpansState is what it was.               *)
SwitchSession(sh) ==
  /\ sh # shape /\ shape' = sh /\ rows' = Early(sh)
  /\ tree' \in {SessionTree(<<>>), SessionTree(rows')} /\ flat' = Flatten(tree', collapsed)
  /\ asked' = {} /\ hits' = <<>> /\ since' = since \cup {"rows", "key"}
  /\ UNCHANGED <<uses, cursor, collapsed, follow, focused, typing, text, shown, notified>>

Uses(habit, A) == habit \in uses /\ A

Moving == ~typing /\ (Up \/ Down \/ Top \/ Bottom)
Following == ~typing /\ ToggleFollow
Collapsing == ~typing /\ (Collapse \/ Expand \/ Toggle \/ ExpandAll \/ CollapseAll)
Searching ==
  \/ StartTyping \/ StopTyping \/ Clear
  \/ \E q \in Query : Type(q)
  \/ \E dir \in {1, -1} : Jump(dir)
Growing == \E n \in DOMAIN shape.row : Arrive(n) \/ Finish(n)
Switching == \E sh \in Shapes : SwitchSession(sh)

Next ==
  \/ Uses("grow", Growing) \/ Refetch \/ WsBatch \/ CacheChanged
  \/ Uses("move", Moving)
  \/ Uses("follow", Following)
  \/ Uses("bars", \E n \in Spans(tree) : PickBar(n))
  \/ Uses("collapse", Collapsing)
  \/ Uses("search", Searching)
  \/ \E q \in Query : Answer(q)
  \/ Uses("switch", Switching)

Spec == Init /\ [][Next]_vars

-----------------------------------------------------------------------------
(* Properties.                                                             *)

SpanKeys == UNION {DOMAIN sh.row : sh \in Shapes}

(* Types of the column's state.                                            *)
TypeOK ==
  /\ cursor \in Nat /\ collapsed \subseteq SpanKeys /\ {follow, typing, notified} \subseteq BOOLEAN
  /\ {focused, hover, chat, tool} \subseteq SpanKeys \cup {0}
  /\ since \subseteq {"rows", "follow", "key"} /\ text \in Query /\ asked \subseteq Query \ {Blank}
  /\ \A q \in DOMAIN hits : hits[q] \subseteq SpanKeys

(* Whatever arrived in whatever order, a span's row is there exactly once, *)
(* unless something it is under is collapsed, and below its parent's row.  *)
RowsComplete ==
  LET up == Above(tree)
      At(n) == SelectInSeq(flat, LAMBDA m : m = n) IN
  /\ Len(flat) = Cardinality(ToSet(flat))
  /\ ToSet(flat) = {n \in Spans(tree) : ToSet(up[n]) \cap collapsed = {}}
  /\ \A n \in ToSet(flat) : \A m \in ToSet(up[n]) : At(m) < At(n)

(* The cursor is on the span that was picked last, and the bar that is lit *)
(* is its chat's, until rows come, go or change places at the cursor or    *)
(* above it; follow mode moves the one without the other.  The detail      *)
(* columns have that span, whatever became of its row.                     *)
CursorHeld ==
  /\ "rows" \notin since =>
       /\ flat # <<>> => On(cursor)
       /\ focused # 0 => Row(cursor) = focused /\ ("follow" \in since \/ hover = HoverAt(cursor))
  /\ focused \in Tools(tree) => tool = focused
  /\ focused \in Chats(tree) => chat = focused

(* Enter, pressed again and again, comes to every hit that has a row, in   *)
(* either direction and wherever the cursor was.                           *)
JumpsReachAll ==
  \A dir \in {1, -1} :
    LET walk[i \in 0..Len(flat)] ==
          IF i = 0 THEN <<cursor>> ELSE LET w == walk[i - 1] IN Append(w, JumpTarget(Last(w), dir))
    IN \A n \in ToSet(flat) \cap Hits : \E c \in ToSet(Tail(walk[Len(flat)])) : Row(c) = n

(* The chat that a finished tool's pick shows is one that could have read  *)
(* the tool's answer: it had not ended before the tool did, and the tool   *)
(* did not run under it, unless a chat runs under a chat there: then it may*)
(* be one around the chat that the tool ran under, never that chat itself. *)
AnswerComesLater ==
  \A n \in Tools(tree) :
    LET c == FollowingChat(tree, n)
        up == Above(tree) IN
    c # 0 /\ (\A m \in Spans(tree) : tree.node[m].end # 0) =>
      /\ tree.node[c].end >= tree.node[n].end
      /\ c \in ToSet(up[n]) => c \in ToSet(up[NearestChat(tree, up[n])])

(* DELTA takes each chat's messages away from exactly one other chat: the  *)
(* chats of a tree are one chain, whatever their ends have in common.      *)
ChatsChained ==
  /\ Cardinality({n \in Chats(tree) : PriorChat(tree, n) = 0}) \in {0, 1}
  /\ \A m, n \in Chats(tree) : m # n /\ PriorChat(tree, m) # 0 => PriorChat(tree, m) # PriorChat(tree, n)

(* Once all spans have ended, each at a time of its own, the TUI and the   *)
(* dashboard show the same chat for a span, but for an external tool and a *)
(* tool under the last chat, for which the dashboard keeps what it shows.  *)
ClientsAgree ==
  (\A m, n \in Spans(tree) : tree.node[m].end # 0 /\ (m # n => tree.node[m].end # tree.node[n].end)) =>
    /\ LatestTool(tree) = WebLatest(tree, Tools(tree))
    /\ \A n \in Spans(tree) :
         \/ WebChatRoute(tree, n) = ChatRoute(tree, n)
         \/ /\ WebChatRoute(tree, n) = 0
            /\ tree.node[n].kind = "external_tool" \/ NearestChat(tree, Above(tree)[n]) # 0

(* What holds in every state.                                              *)
Sound ==
  /\ TypeOK /\ RowsComplete /\ CursorHeld /\ JumpsReachAll
  /\ AnswerComesLater /\ ChatsChained /\ ClientsAgree

(* The bar that lights up is the one of the chat that the cursor's row is  *)
(* under, by the tree of the moment.                                       *)
HoverFits ==
  hover' # hover => hover' = (IF cursor' < Len(flat') THEN HoveredChat(tree', flat'[cursor' + 1]) ELSE 0)

(* Follow mode comes to rest on the latest tool of the session, however    *)
(* often that changed as spans began, ended and came late: unless its row  *)
(* is hidden, or a key engaged it when nothing was left to come.           *)
FollowsLatest ==
  LET n == LatestTool(SessionTree(rows)) IN
  follow /\ "key" \notin since =>
    n \in {0, focused} \/ n \notin ToSet(Flatten(SessionTree(rows), collapsed))
=============================================================================

----------------------------- MODULE SpanBoard ------------------------------
(***************************************************************************)
(* The Spans columns of the dashboard.  Each reveals the spans of the      *)
(* session tree on a schedule of its own, and what it selects, follows and *)
(* collapses is about the part it has revealed; a pick in one selects in   *)
(* all of them, and in the detail columns.                                 *)
(***************************************************************************)
EXTENDS Forest, TLC

CONSTANTS
  Board,     \* Spans columns; FirstBoard is open from the start
  FirstBoard,
  Shapes,    \* sessions: what each grows into: a row per span, and the spans that come late
  Hits,      \* the search hits of a text that may be in the search box
  Window,    \* SMOOTH_WINDOW_MS, in units of SMOOTH_MIN_GAP_MS
  MaxLate    \* bound: by how much setTimeout may be late

VARIABLES
  shape,      \* the session the columns show
  rows,       \* spans of it the server has
  tree,       \* sessionTreeQ.data
  board,      \* per open column: revealed, queue, timer, view, follow, collapsed;
              \* times are how long from now, negative when overdue
  selected,   \* config.selected_span_id of each Spans column
  chat, arrow,  \* selected_span_id and selected_tool_call_id of the chat detail columns
  hits        \* searchHitSpanIds

session == <<shape, rows, tree>>
selection == <<selected, chat, arrow>>
vars == <<session, board, selection, hits>>

Never == 1000  \* no timer
Gap == 1       \* SMOOTH_MIN_GAP_MS

Early(sh) == [n \in DOMAIN sh.row \ sh.late |-> sh.row[n]]
Empty == SessionTree(<<>>)

(* displayedTree: a span is shown when it and all it is under are revealed.*)
Displayed(t, revealed) ==
  LET up == Above(t)
      shown == {n \in revealed \cap Spans(t) : ToSet(up[n]) \subseteq revealed}
      Of(seq) == SelectSeq(seq, LAMBDA n : n \in shown)
  IN [node |-> [n \in shown |-> t.node[n]], roots |-> Of(t.roots), kids |-> [n \in shown |-> Of(t.kids[n])]]

Fresh == [revealed |-> {}, queue |-> <<>>, timer |-> Never, view |-> Empty,
          follow |-> FALSE, collapsed |-> {}]

-----------------------------------------------------------------------------
(* The reveal schedule.                                                    *)

Queued(q) == {q[i].id : i \in DOMAIN q}
Lowest(S) == CHOOSE x \in S : \A y \in S : x <= y
Highest(S) == CHOOSE x \in S : \A y \in S : x >= y

Ts(t, n) == Or(t.node[n].start, t.node[n].end)

(* Newest first over the window; spans without a time come at once.        *)
Offset(t, new, n) ==
  LET times == {Ts(t, m) : m \in new} \ {0} IN
  IF times = {} \/ Highest(times) = Lowest(times) \/ Ts(t, n) = 0 THEN 0
  ELSE ((Highest(times) - Ts(t, n)) * Window) \div (Highest(times) - Lowest(times))

(* Mistake: a span waits for no later than its own children's times, taken *)
(* before those were brought forward themselves.                           *)
ClampedOnce(t, new, at) ==
  [n \in new |-> Lowest({at[n]} \cup {at[c] : c \in ToSet(t.kids[n]) \cap new})]

(* Post-order: no later than the earliest of the children in the batch.    *)
Clamped(t, new, at) ==
  LET early[n \in new] == Lowest({at[n]} \cup {early[c] : c \in ToSet(t.kids[n]) \cap new})
  IN early

(* Mistake: entries that came due together stay together.                  *)
SortedOnly(q) ==
  LET at == InOrder(DOMAIN q, LAMBDA i, j : Less(<<q[i].at, i>>, <<q[j].at, j>>))
  IN [i \in DOMAIN q |-> q[at[i]]]

Spaced(q) ==
  LET at == InOrder(DOMAIN q, LAMBDA i, j : Less(<<q[i].at, i>>, <<q[j].at, j>>))
      due[i \in DOMAIN q] ==
        IF i = 1 \/ q[at[i]].at >= due[i - 1] + Gap THEN q[at[i]].at ELSE due[i - 1] + Gap
  IN [i \in DOMAIN q |-> [id |-> q[at[i]].id, at |-> due[i]]]

Shows(s, t, revealed) == [s EXCEPT !.revealed = revealed, !.view = Displayed(t, revealed)]

Stage(s, t) ==
  LET fresh == SelectSeq(Flatten(t, {}), LAMBDA n : n \notin s.revealed \cup Queued(s.queue))
      new == ToSet(fresh)
      at == Clamped(t, new, [n \in new |-> Offset(t, new, n)])
      queue == Spaced(s.queue \o [i \in DOMAIN fresh |-> [id |-> fresh[i], at |-> at[fresh[i]]]])
  IN IF fresh = <<>> THEN Shows(s, t, s.revealed)
     ELSE IF s.revealed = {} /\ s.queue = <<>> THEN Shows(s, t, new)
     ELSE [Shows(s, t, s.revealed) EXCEPT
             !.queue = queue, !.timer = IF s.timer = Never THEN queue[1].at ELSE s.timer]

(* Mistake: the timer is not set again for what is left.                   *)
DrainedOnce(s) ==
  LET due == {i \in DOMAIN s.queue : \A j \in 1..i : s.queue[j].at <= 0}
      rest == SubSeq(s.queue, Cardinality(due) + 1, Len(s.queue))
  IN [Shows(s, tree, s.revealed \cup {s.queue[i].id : i \in due}) EXCEPT
        !.queue = rest, !.timer = Never]

Drained(s) ==
  LET due == {i \in DOMAIN s.queue : \A j \in 1..i : s.queue[j].at <= 0}
      rest == SubSeq(s.queue, Cardinality(due) + 1, Len(s.queue))
  IN [Shows(s, tree, s.revealed \cup {s.queue[i].id : i \in due}) EXCEPT
        !.queue = rest, !.timer = IF rest = <<>> THEN Never ELSE rest[1].at]

-----------------------------------------------------------------------------
Init ==
  /\ shape \in Shapes /\ rows = Early(shape) /\ tree = Empty
  /\ board = [b \in {FirstBoard} |-> Fresh]
  /\ selected = [b \in {FirstBoard} |-> 0] /\ chat = 0 /\ arrow = 0 /\ hits = {}

Open == DOMAIN board

LatestShownTool(s) == WebLatest(s.view, Tools(s.view))
LatestShownChat(s) == WebLatest(s.view, Chats(s.view))

Behind(b) == board[b].follow /\ LatestShownTool(board[b]) \notin {0, selected[b]}
ChatBehind(s) ==
  s.follow /\ LatestShownChat(s) # 0 /\ <<LatestShownChat(s), LatestShownTool(s)>> # <<chat, arrow>>

(* React flushes the effects of a render before it takes the next event.   *)
Settled == \A b \in Open : ~Behind(b) /\ ~ChatBehind(board[b])

-----------------------------------------------------------------------------
(* The session grows and the query is answered; time passes.               *)

Arrive(n) ==
  /\ Settled /\ n \in shape.late \ DOMAIN rows
  /\ rows' = (n :> shape.row[n]) @@ rows
  /\ UNCHANGED <<shape, tree, board, selection, hits>>

Refetch ==
  /\ Settled /\ tree.node # rows
  /\ tree' = SessionTree(rows)
  /\ board' = [b \in Open |-> Stage(board[b], tree')]
  /\ UNCHANGED <<shape, rows, selection, hits>>

Sooner(s) ==
  [s EXCEPT !.queue = [i \in DOMAIN s.queue |-> [s.queue[i] EXCEPT !.at = @ - 1]],
            !.timer = IF @ = Never THEN Never ELSE @ - 1]

Tick ==
  /\ Settled /\ \E b \in Open : board[b].timer # Never
  /\ \A b \in Open : board[b].timer > -MaxLate
  /\ board' = [b \in Open |-> Sooner(board[b])]
  /\ UNCHANGED <<session, selection, hits>>

Due(b) == b \in Open /\ board[b].timer <= 0

Drain(b) ==
  /\ Settled /\ Due(b)
  /\ board' = [board EXCEPT ![b] = Drained(board[b])]
  /\ UNCHANGED <<session, selection, hits>>

-----------------------------------------------------------------------------
(* Selection.                                                              *)

Select(v, n) ==
  LET kind == v.node[n].kind
      target == WebChatRoute(v, n)
  IN /\ selected' = [b \in Open |-> n]
     /\ IF kind = "chat" THEN chat' = n /\ arrow' = 0
        ELSE IF target = 0 THEN UNCHANGED <<chat, arrow>>
        ELSE chat' = target /\ arrow' = IF kind = "execute_tool" THEN n ELSE 0

Pick(b, n) ==
  /\ Settled /\ n \in Spans(board[b].view)
  /\ board' = [board EXCEPT ![b].follow = (LatestShownTool(board[b]) = n)]
  /\ Select(board[b].view, n)
  /\ UNCHANGED <<session, hits>>

Follow(b) ==
  /\ Behind(b)
  /\ Select(board[b].view, LatestShownTool(board[b]))
  /\ UNCHANGED <<session, board, hits>>

CatchUp(b) ==
  /\ ChatBehind(board[b])
  /\ chat' = LatestShownChat(board[b]) /\ arrow' = LatestShownTool(board[b])
  /\ UNCHANGED <<session, board, selected, hits>>

ToggleFollow(b) ==
  /\ Settled /\ board' = [board EXCEPT ![b].follow = ~board[b].follow]
  /\ UNCHANGED <<session, selection, hits>>

-----------------------------------------------------------------------------
(* Rows.                                                                   *)

HeldOpen(b) == \* forcedExpandAncestors
  LET v == board[b].view
      up == Above(v)
  IN UNION {ToSet(up[n]) : n \in (hits \cup {selected[b]}) \cap Spans(v)}

RowsOf(b) == Flatten(board[b].view, board[b].collapsed \ HeldOpen(b))

(* Collapsing over the selection moves it to the row that was collapsed.   *)
Collapse(b, n) ==
  LET s == board[b] IN
  /\ Settled /\ n \in ToSet(RowsOf(b)) /\ n \notin s.collapsed
  /\ IF selected[b] \in Spans(s.view) /\ selected[b] \in Descendants(s.view, n)
     THEN /\ Select(s.view, n)
          /\ board' = [board EXCEPT ![b].collapsed = @ \cup {n}, ![b].follow = (LatestShownTool(s) = n)]
     ELSE board' = [board EXCEPT ![b].collapsed = @ \cup {n}] /\ UNCHANGED selection
  /\ UNCHANGED <<session, hits>>

Expand(b, n) ==
  /\ Settled /\ n \in board[b].collapsed
  /\ board' = [board EXCEPT ![b].collapsed = @ \ {n}]
  /\ UNCHANGED <<session, selection, hits>>

CollapseAll(b) ==
  LET v == board[b].view IN
  /\ Settled /\ board' = [board EXCEPT ![b].collapsed = {n \in Spans(v) : v.kids[n] # <<>>}]
  /\ UNCHANGED <<session, selection, hits>>

ExpandAll(b) ==
  /\ Settled /\ board' = [board EXCEPT ![b].collapsed = {}]
  /\ UNCHANGED <<session, selection, hits>>

Search(S) ==
  /\ Settled /\ hits' = S
  /\ UNCHANGED <<session, board, selection>>

(* ArrowDown or ArrowUp: the row beside the selected one, or an end.       *)
Step(b, dir) ==
  LET r == RowsOf(b)
      at == SelectInSeq(r, LAMBDA n : n = selected[b])
      to == IF at = 0 THEN (IF dir = 1 THEN 1 ELSE Len(r)) ELSE at + dir
  IN to \in DOMAIN r /\ Pick(b, r[to])

-----------------------------------------------------------------------------
(* Another session, and another column.                                    *)

Reset(s) == [Fresh EXCEPT !.follow = s.follow]

SwitchSession(b, sh) == \* by the select of column b
  /\ Settled /\ sh # shape /\ shape' = sh /\ rows' = Early(sh) /\ tree' = Empty
  /\ board' = [c \in Open |-> Reset(board[c])]
  /\ selected' = [selected EXCEPT ![b] = 0]
  /\ UNCHANGED <<chat, arrow, hits>>

OpenBoard(b) ==
  /\ Settled /\ b \notin Open
  /\ board' = (b :> Stage(Fresh, tree)) @@ board /\ selected' = (b :> 0) @@ selected
  /\ UNCHANGED <<session, chat, arrow, hits>>

Effects == \E b \in Open : Follow(b) \/ CatchUp(b)

Next ==
  \/ \E n \in shape.late : Arrive(n)
  \/ Refetch \/ Tick \/ Effects
  \/ \E b \in Open :
       \/ Drain(b) \/ ToggleFollow(b) \/ CollapseAll(b) \/ ExpandAll(b)
       \/ \E n \in Spans(tree) : Pick(b, n) \/ Collapse(b, n) \/ Expand(b, n)
       \/ \E dir \in {1, -1} : Step(b, dir)
       \/ \E sh \in Shapes : SwitchSession(b, sh)
  \/ \E S \in Hits : Search(S)
  \/ \E b \in Board : OpenBoard(b)

(* Effects run, and delay time, timers and answers by no more than a       *)
(* moment: those are strongly fair.  The last two make their own guards    *)
(* false, so that fairness of them is that the guards are false again and  *)
(* again, which costs TLC no ENABLED.                                      *)
Fairness ==
  /\ WF_vars(Effects) /\ SF_vars(Tick)
  /\ \A b \in Board : []<>~Due(b)
  /\ []<>(tree.node = rows)

Spec == Init /\ [][Next]_vars /\ Fairness

-----------------------------------------------------------------------------
(* Types of the columns' state.                                            *)
TypeOK ==
  /\ Open \subseteq Board /\ selected \in [Open -> Nat] /\ {chat, arrow} \subseteq Nat
  /\ \A b \in Open :
       /\ board[b].revealed \cap Queued(board[b].queue) = {}
       /\ (board[b].timer = Never) = (board[b].queue = <<>>)

(* Of the spans that wait to be revealed, no two are due closer together   *)
(* than a sixtieth of a second, however batches run into each other.  (A   *)
(* timer that is late reveals all that are overdue at once.)               *)
RevealsSpaced ==
  \A b \in Open : LET q == board[b].queue IN
    \A i \in DOMAIN q \ {1} : q[i].at >= q[i - 1].at + Gap

(* Spacing holds none of them back for long: whatever was merged in before *)
(* it, the i-th is due within the window and i - 1 gaps.                   *)
RevealsSoon ==
  \A b \in Open : LET q == board[b].queue IN
    \A i \in DOMAIN q : q[i].at <= Window + (i - 1) * Gap

(* The selected span and the search hits have a row in every column that   *)
(* shows them, whatever the user has collapsed.                            *)
SelectedHasRow ==
  \A b \in Open :
    (hits \cup {selected[b]}) \cap Spans(board[b].view) \subseteq ToSet(RowsOf(b))

(* What holds in every state.                                              *)
Sound == TypeOK /\ RevealsSpaced /\ RevealsSoon /\ SelectedHasRow

(* A batch unfolds from the top: a span of it is due no later than a span  *)
(* of the batch that is under it with nothing but spans of it between.     *)
BatchUnfolds ==
  \A b \in Open \cap DOMAIN board' :
      LET q == board'[b].queue
          new == Queued(q) \ Queued(board[b].queue)
          At(n) == CHOOSE i \in DOMAIN q : q[i].id = n
      IN \A n \in new : LET up == Above(tree')[n] IN
           \A i \in DOMAIN up : ToSet(SubSeq(up, 1, i)) \subseteq new => At(up[i]) < At(n)

(* The first tree of a session is shown whole and at once.                 *)
FirstLoadWhole ==
  \A b \in Open : (tree = Empty /\ tree' # Empty) => Spans(board'[b].view) = Spans(tree')

Unfolds == BatchUnfolds /\ FirstLoadWhole

(* Every span of the tree is shown in the end: none stays hidden.          *)
AllShown == \A b \in Open : Spans(board[b].view) = Spans(tree)
=============================================================================

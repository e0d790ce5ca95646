---------------------------- MODULE ChatColumns -----------------------------
(***************************************************************************)
(* The chat detail column, in the TUI and in the dashboard: what is open   *)
(* in the breakdown of a chat while the selection, the tool call hint and  *)
(* the search text change under it and the chats' details come in late.    *)
(***************************************************************************)
EXTENDS Breakdown

CONSTANTS
  Chat,        \* chats, as Breakdown has them, by name
  Prior,       \* the chat before each, or None
  Query,       \* texts of the search box; "" is the empty one
  Call,        \* tool calls a hint can be about
  None,
  Width,       \* cells of the summary bar
  MaxInputs    \* bound: keys, clicks, selections and searches in one behaviour

VARIABLES
  client,      \* "tui" or "web": which of the columns this behaviour is about
  chat, hint, query,  \* the column's selected_span_id, selected_tool_call_id, search_query
  loaded,      \* chats whose details are in the cache
  pane,        \* ChatDetailState
  web,         \* the state of the component ChatDetailScenario
  held,        \* history: what was open when the search began
  keys, turns

config == <<chat, hint, query>>
vars == <<client, config, loaded, pane, web, held, keys, turns>>

Loaded(c, L) == c # None /\ c \in L
PriorOf(c, L) == IF Loaded(Prior[c], L) THEN Chat[Prior[c]] ELSE NoChat

-----------------------------------------------------------------------------
(* The TUI: a draw reconciles the column with its configuration.           *)

TuiTree(mode, c, L) == Tree(Chat[c], Baseline(mode, PriorOf(c, L)))

(* Mistake: the search is taken for a new one at each draw.                *)
LifecycleAnew(p, q) ==
  IF q # "" THEN [p EXCEPT !.snap = {<<p.expanded, p.prims>>}, !.last = q]
  ELSE IF p.snap # {}
  THEN LET s == CHOOSE s \in p.snap : TRUE
       IN [p EXCEPT !.expanded = s[1], !.prims = s[2], !.snap = {}, !.last = q]
  ELSE [p EXCEPT !.last = q]

(* The search begins, ends or changes.                                     *)
Lifecycle(p, q) ==
  IF p.last = "" /\ q # "" THEN [p EXCEPT !.snap = {<<p.expanded, p.prims>>}, !.last = q]
  ELSE IF p.last # "" /\ q = "" /\ p.snap # {}
  THEN LET s == CHOOSE s \in p.snap : TRUE
       IN [p EXCEPT !.expanded = s[1], !.prims = s[2], !.snap = {}, !.last = q]
  ELSE [p EXCEPT !.last = q]

Revealed(p, tree, q) ==
  IF q = "" THEN p
  ELSE [p EXCEPT !.expanded = @ \cup SearchExpanded(tree, q),
                 !.prims = @ \cup SearchExpandedPrims(tree, q)]

FollowKey(c, t) == IF t = None THEN <<>> ELSE <<c, t>>

(* Mistake: a hint is new only if it is about another tool call.           *)
SnapTargetByCall(p, tree, c, t) ==
  IF t = None \/ (p.followed # <<>> /\ p.followed[Len(p.followed)] = t) THEN {} ELSE Answers(tree, t)

(* The message to put the cursor on: once per hint.                        *)
SnapTarget(p, tree, c, t) ==
  IF FollowKey(c, t) = p.followed \/ t = None THEN {} ELSE Answers(tree, t)

Snapped(p, rows, target, key) ==
  IF target = {} THEN IF key = <<>> THEN [p EXCEPT !.followed = <<>>] ELSE p
  ELSE [p EXCEPT !.focus = (CHOOSE i \in DOMAIN rows : rows[i].what = "node" /\ rows[i].id \in target) - 1,
                 !.followed = key]

Clamped(p, rows) ==
  [p EXCEPT !.rows = rows, !.focus = IF @ >= Len(rows) /\ rows # <<>> THEN Len(rows) - 1 ELSE @]

(* A draw of the pane p leaves r.                                          *)
Draws(p, r, c, t, q, L) ==
  IF ~(Loaded(c, L) /\ Captured(Chat[c])) THEN r = p
  ELSE \E tree \in {TuiTree(p.mode, c, L)} :
       \E searched \in {Revealed(Lifecycle(p, q), tree, q)}, target \in {SnapTarget(p, tree, c, t)} :
       \E opened \in {IF target = {} THEN searched
                      ELSE [searched EXCEPT !.expanded = @ \cup target \cup {<<"input">>}]} :
       \E rows \in {Rows(tree, opened.expanded, opened.prims)} :
         r = Clamped(Snapped(opened, rows, target, FollowKey(c, t)), rows)

(* Keys act on the rows of the last draw.                                  *)
AtCursor(p) == IF p.focus < Len(p.rows) THEN p.rows[p.focus + 1] ELSE Row(<<>>, "text")
PrimIndex == 1   \* bound: nodes of the model have one primitive at most

Collapsed(p) ==
  LET r == AtCursor(p) IN
  IF r.what = "text" THEN p ELSE [p EXCEPT !.user = @ \ {r.id}, !.expanded = @ \ {r.id}]

Expanded(p) ==
  LET r == AtCursor(p) IN
  CASE r.what = "prim" -> [p EXCEPT !.prims = @ \cup {<<r.id, PrimIndex>>}]
    [] r.what = "node" -> [p EXCEPT !.user = @ \cup {r.id}, !.expanded = @ \cup {r.id}]
    [] OTHER -> p

Flip(S, x) == IF x \in S THEN S \ {x} ELSE S \cup {x}

(* What the user opened decides which way a node goes, not what is open.   *)
Toggled(p) ==
  LET r == AtCursor(p) IN
  CASE r.what = "prim" -> [p EXCEPT !.prims = Flip(@, <<r.id, PrimIndex>>)]
    [] r.what = "node" -> IF r.id \in p.user THEN Collapsed(p) ELSE Expanded(p)
    [] OTHER -> p

Handled(p, k) ==
  CASE k = "m" -> [p EXCEPT !.mode = IF @ = "DELTA" THEN "FULL" ELSE "DELTA"]
    [] k = "up" -> [p EXCEPT !.focus = IF @ = 0 THEN 0 ELSE @ - 1]
    [] k = "down" -> [p EXCEPT !.focus = IF @ + 1 < Len(p.rows) THEN @ + 1 ELSE @]
    [] k = "home" -> [p EXCEPT !.focus = 0]
    [] k = "end" -> [p EXCEPT !.focus = IF p.rows # <<>> THEN Len(p.rows) - 1 ELSE @]
    [] k = "left" -> Collapsed(p)
    [] k = "right" -> Expanded(p)
    [] k = "space" -> Toggled(p)

-----------------------------------------------------------------------------
(* The dashboard: effects run after each change.                           *)

WebTreeOf(mode, c, L) ==
  IF Loaded(c, L) THEN WebTree(Chat[c], WebBaseline(mode, PriorOf(c, L))) ELSE <<>>

WebTarget(c, t, L) == IF Loaded(c, L) /\ t # None THEN WebAnswers(Chat[c], t) ELSE {}

(* The effect of targetMessageNodeId, when it has changed.                 *)
HintOpens(w, target) ==
  IF target = {} \/ target = w.target THEN [w EXCEPT !.target = target]
  ELSE [w EXCEPT !.expanded = @ \cup target \cup
                    {<<"root">>, <<"root", "input">>, <<"root", "input", "input_messages">>},
                 !.target = target]

(* The effect of searchQuery, the tree and activeNodeIds.                  *)
SearchOpens(w, tree, key, q) ==
  LET active == IF q = "" THEN {} ELSE ActiveIds(tree, q) IN
  IF q = w.query /\ key = w.key THEN w
  ELSE IF active = {}
  THEN [w EXCEPT !.expanded = @ \ w.found, !.found = {}, !.query = q, !.tree = tree, !.key = key]
  ELSE [w EXCEPT !.expanded = @ \cup active, !.found = active, !.query = q, !.tree = tree, !.key = key]

(* What the memoized tree depends on.                                      *)
TreeKey(mode, c, L) ==
  <<mode, c, Loaded(c, L), IF Loaded(c, L) THEN WebBaseline(mode, PriorOf(c, L)) # NoChat ELSE FALSE>>

WebClickable(w) ==
  IF w.tree = <<>> THEN {}
  ELSE {n.id : n \in {n \in ToSet(Seen(w.tree, w.expanded)) : ~IsLeaf(w.tree, n) \/ n.prims # <<>>}}

-----------------------------------------------------------------------------
Init ==
  /\ client \in {"tui", "web"}
  /\ chat = None /\ hint = None /\ query = "" /\ loaded = {}
  /\ \E mode \in {"DELTA", "FULL"} :
       /\ pane = [mode |-> mode, expanded |-> {}, prims |-> {}, user |-> {}, snap |-> {}, last |-> "",
                  focus |-> 0, rows |-> <<>>, followed |-> <<>>]
       /\ web = [mode |-> mode, expanded |-> {<<"root">>, <<"root", "input">>}, found |-> {},
                 query |-> "", tree |-> <<>>, key |-> <<>>, target |-> {}]
  /\ held = <<{}, {}>> /\ keys = 0 /\ turns = 0

(* Both columns take in what has changed.                                  *)
Shows(p, w, c, t, q, L) ==
  /\ IF client = "tui" THEN Draws(p, pane', c, t, q, L) ELSE pane' = pane
  /\ \E tree \in {WebTreeOf(w.mode, c, L)}, hinted \in {HintOpens(w, WebTarget(c, t, L))} :
       web' = IF client = "web" THEN SearchOpens(hinted, tree, TreeKey(w.mode, c, L), q) ELSE web
  /\ held' = IF pane.last = "" /\ pane'.last # "" THEN <<p.expanded, p.prims>>
             ELSE IF web.query = "" /\ web'.query # "" THEN <<w.expanded, {}>> ELSE held

Configure(c, t, q) ==
  /\ keys + turns < MaxInputs /\ turns' = turns + 1
  /\ chat' = c /\ hint' = t /\ query' = q
  /\ Shows(pane, web, c, t, q, loaded)
  /\ UNCHANGED <<client, loaded, keys>>

(* A chat, or a tool whose answer a chat has read, is picked.              *)
Pick(c, t) == <<c, t>> # <<chat, hint>> /\ Configure(c, t, query)

Search(q) == q # query /\ Configure(chat, hint, q)

(* A span's detail comes in; the TUI draws it some time later.             *)
Load(c) ==
  /\ c \notin loaded /\ chat # None
  /\ c \in {chat, Prior[chat]}
  /\ loaded' = loaded \cup {c}
  /\ IF client = "web" THEN Shows(pane, web, chat, hint, query, loaded') ELSE UNCHANGED <<pane, web, held>>
  /\ UNCHANGED <<client, config, keys, turns>>

Redraw ==
  /\ client = "tui" /\ Shows(pane, web, chat, hint, query, loaded)
  /\ UNCHANGED <<client, config, loaded, keys, turns>>

Key(k) ==
  /\ client = "tui" /\ keys + turns < MaxInputs /\ keys' = keys + 1
  /\ \E p \in {Handled(pane, k)} : Shows(p, web, chat, hint, query, loaded)
  /\ UNCHANGED <<client, config, loaded, turns>>

Click(id) ==
  /\ client = "web" /\ keys + turns < MaxInputs /\ keys' = keys + 1 /\ id \in WebClickable(web)
  /\ web' = [web EXCEPT !.expanded = Flip(@, id)]
  /\ UNCHANGED <<client, config, loaded, pane, held, turns>>

SetMode ==
  /\ client = "web" /\ keys + turns < MaxInputs /\ keys' = keys + 1
  /\ \E w \in {[web EXCEPT !.mode = IF @ = "DELTA" THEN "FULL" ELSE "DELTA"]} :
       Shows(pane, w, chat, hint, query, loaded)
  /\ UNCHANGED <<client, config, loaded, turns>>

Next ==
  \/ \E c \in DOMAIN Chat : \E t \in Call \cup {None} : Pick(c, t)
  \/ \E q \in Query : Search(q)
  \/ \E c \in DOMAIN Chat : Load(c)
  \/ Redraw
  \/ \E k \in {"m", "up", "down", "home", "end", "left", "right", "space"} : Key(k)
  \/ \E id \in WebClickable(web) : Click(id)
  \/ SetMode

Spec == Init /\ [][Next]_vars

-----------------------------------------------------------------------------
(* Types of the column's state.                                            *)
TypeOK ==
  /\ chat \in DOMAIN Chat \cup {None} /\ hint \in Call \cup {None} /\ query \in Query
  /\ loaded \subseteq DOMAIN Chat /\ Cardinality(pane.snap) <= 1
  /\ (pane.snap = {}) = (pane.last = "")

Up2Date == /\ client = "tui" /\ Loaded(chat, loaded) /\ Captured(Chat[chat])
           /\ Draws(pane, pane, chat, hint, query, loaded)
Shown == TuiTree(pane.mode, chat, loaded)

(* One draw is enough: a second would change nothing, so that what a key   *)
(* acts on is what was on the screen when nothing else has happened.       *)
OneDrawIsEnough ==
  client = "tui" /\ pane' # pane => Draws(pane', pane', chat', hint', query', loaded')

(* The cursor is on a row.                                                 *)
CursorOnRow == pane.rows # <<>> => pane.focus < Len(pane.rows)

(* What a search has found is on the screen, whatever the user collapses.  *)
MatchesSeen ==
  query # "" /\ Up2Date =>
       \A n \in ToSet(Shown) : NodeMatches(n, query) =>
         \E i \in DOMAIN pane.rows : pane.rows[i].id = n.id /\ pane.rows[i].what = "node"

(* When the search text is cleared what is open is what was open before    *)
(* the search, and what a new hint opens in the same draw.                 *)
SearchRestores ==
  client = "tui" /\ pane.last # "" /\ pane'.last = "" =>
    /\ held[1] \subseteq pane'.expanded /\ held[2] = pane'.prims
    /\ pane'.followed = pane.followed => pane'.expanded = held[1]

(* Between keys the cursor stays, but to stay on a row or to follow a hint,*)
(* once, and that is when it comes to the message that answers it.         *)
CursorKept ==
  client = "tui" =>
    LET follows == pane'.followed \notin {pane.followed, <<>>} IN
    /\ follows => pane'.rows[pane'.focus + 1].id \in Answers(TuiTree(pane'.mode, chat', loaded'), hint')
    /\ keys' = keys /\ pane'.focus # pane.focus /\ ~follows =>
         pane'.focus = Len(pane'.rows) - 1 /\ pane.focus > pane'.focus

(* A hint is followed as soon as its chat is drawn with the answer in it.  *)
HintFollowed ==
  hint # None /\ Up2Date /\ Answers(Shown, hint) # {} => pane.followed = <<chat, hint>>

(* The bar marks the cursor's node: the segments that are it or under it   *)
(* are next to each other, and there is one unless the bar is too narrow.  *)
BarMarks ==
  AtCursor(pane).what = "node" /\ Up2Date =>
    LET segs == Frontier(Shown, pane.expanded)
        marked == {i \in DOMAIN segs : IsPrefix(AtCursor(pane).id, segs[i].id)}
    IN /\ marked # {}
       /\ \A i, j \in marked : \A k \in i..j : k \in marked

(* The segments fill the bar, and none is more than a cell off its share.  *)
BarFilled ==
  Up2Date =>
    LET segs == Frontier(Shown, pane.expanded)
        cells == Allocated(segs, Width)
        total == MapThenSumSet(LAMBDA i : segs[i].size, DOMAIN segs)
    IN /\ MapThenSumSet(LAMBDA i : cells[i], DOMAIN segs) = Width
       /\ \A i \in DOMAIN segs :
            LET share == (segs[i].size * Width) \div total IN cells[i] \in {share, share + 1}

Bag(seq) == [x \in ToSet(seq) |-> Cardinality({i \in DOMAIN seq : seq[i] = x})]

(* What the chat before had, without what was removed and with what was    *)
(* added, is what this chat has: in the TUI always, in the dashboard when  *)
(* no two tools share a name.                                              *)
DeltaExact ==
  chat # None /\ (chat # None => Prior[chat] # None) =>
    LET cur == Chat[chat].tools
        was == Chat[Prior[chat]].tools
        Unique(s) == \A i, j \in DOMAIN s : s[i].name = s[j].name /\ i # j => s[i].name = ""
    IN /\ Bag(Surplus(was, Surplus(was, cur)) \o Surplus(cur, was)) = Bag(cur)
       /\ Unique(cur) /\ Unique(was) =>
            /\ Bag(WebSurplus(cur, was)) = Bag(Surplus(cur, was))
            /\ Bag(WebSurplus(was, cur)) = Bag(Surplus(was, cur))

(* A message of the chat has a node of its own, or is one of those carried *)
(* forward, and then it is what the chat before had in its place.          *)
NoMessageLost ==
  chat # None =>
    LET cur == Chat[chat].input
        prior == PriorOf(chat, loaded)
        tree == Tree(Chat[chat], prior)
    IN \A i \in DOMAIN cur :
         \/ \E j \in DOMAIN tree : tree[j].id = At(<<"input">>, i)
         \/ prior # NoChat /\ i <= Len(prior.input) /\ cur[i] = prior.input[i]

(* DELTA hides nothing new from a search: a word that the chat's messages, *)
(* tools or instructions have and the chat before did not is found.        *)
NewIsFound ==
  chat # None =>
    LET cur == Chat[chat]
        prior == PriorOf(chat, loaded)
        Said(c) == Words(c.system) \cup Words(Flat([i \in DOMAIN c.input |-> c.input[i].parts]))
                   \cup UNION {c.tools[i].words : i \in DOMAIN c.tools}
    IN prior # NoChat =>
         \A q \in Said(cur) \ Said(prior) : \E n \in ToSet(Tree(cur, prior)) : NodeMatches(n, q)

(* The dashboard: the message a new hint is about is in view, and so are   *)
(* the nodes that a new search text finds.                                 *)
WebInView ==
  client = "web" =>
    LET seen == {n.id : n \in ToSet(Seen(web'.tree, web'.expanded))}
        all == {n.id : n \in ToSet(web'.tree)}
    IN /\ web'.target # web.target => web'.target \cap all \subseteq seen
       /\ web'.query # web.query /\ web'.query # "" => ActiveIds(web'.tree, web'.query) \subseteq seen

(* What holds of the columns in every state, what holds of the breakdowns  *)
(* and bars they show, and what every step keeps to.                       *)
Sound == TypeOK /\ CursorOnRow /\ MatchesSeen /\ HintFollowed
Exact == BarMarks /\ BarFilled /\ DeltaExact /\ NoMessageLost /\ NewIsFound
Keeps == OneDrawIsEnough /\ SearchRestores /\ CursorKept /\ WebInView
=============================================================================

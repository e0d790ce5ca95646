--------------------------- MODULE ContextWidget ----------------------------
(***************************************************************************)
(* The context growth widget: a bar for each chat of the session that the  *)
(* first column with a session shows, merged from the token counts that    *)
(* were captured for it, and the cursor that picks one of the bars.  The   *)
(* span tree and the snapshots come from two queries of the cache.         *)
(***************************************************************************)
EXTENDS Forest, FiniteSetsExt, TLC

CONSTANTS
  None, Null,
  Session,
  Node,        \* rows of the sessions' spans, as Forest has them, by span_pk
  Home,        \* the session of each
  Snapshot,    \* [pk, at, limit, current, input, output, reasoning, cached]
  Terminal,    \* sizes of the terminal, [w, h]
  Layouts,     \* the columns' sessions at first
  Early,       \* the snapshots there are at first
  Habits,      \* bound: what one behaviour has in it
  MaxKeys      \* bound: keys pressed

VARIABLES
  uses,
  live, snaps,             \* the server: spans it has, context_snapshots in the order they came
  told,                    \* no event about them is on its way
  tree, contexts, stale,   \* the cache: session-span-tree, session-contexts, what is invalidated
  cols,                    \* the columns' sessions
  visible, height, term,   \* context_widget_visible, context_widget_height_rows, term_size
  focused,                 \* Focus::Widget
  cursor,                  \* bar_cursor
  hovered,                 \* hovered_chat_pk
  picked,                  \* the chat Enter sent to the Spans columns
  seen,                    \* history: the bar last published, and the bars there were
  keys

server == <<live, snaps, told>>
cache == <<tree, contexts, stale>>
size == <<visible, height, term>>
vars == <<uses, server, cache, cols, size, focused, cursor, hovered, picked, seen, keys>>

NoBar == -1
Field == {"input", "output", "reasoning", "cached"}

(* Integers by what they are mapped to, and then by themselves.            *)
SortedBy(S, key) == InOrder(S, LAMBDA a, b : Less(<<key[a], a>>, <<key[b], b>>))

-----------------------------------------------------------------------------
(* Merging.                                                                *)

(* Agents above a span.                                                    *)
Agents(rows, n) ==
  LET above[m \in Int] ==
        IF m \notin DOMAIN rows THEN 0
        ELSE above[rows[m].parent] + IF rows[m].kind = "invoke_agent" THEN 1 ELSE 0
  IN above[rows[n].parent]

ChatsOf(rows) == {n \in DOMAIN rows : rows[n].kind = "chat"}

(* Mistake: what comes last in the list is taken for the latest.           *)
ObserveLast(acc, v, at) == IF v = Null THEN acc ELSE [value |-> v, at |-> at]

(* LatestNonNull::observe.                                                 *)
Observe(acc, v, at) ==
  IF v # Null /\ (acc.value = Null \/ at >= acc.at) THEN [value |-> v, at |-> at] ELSE acc

LatestOf(ss, f) ==
  FoldLeft(LAMBDA acc, s : Observe(acc, s[f], s.at), [value |-> Null, at |-> 0], ss).value

Largest(S) == IF S \ {Null} = {} THEN Null ELSE Max(S \ {Null})
Limit(ss) == Largest({s.limit : s \in ToSet(ss)})
OrZero(v) == IF v = Null THEN 0 ELSE v

Of(ss, pk) == SelectSeq(ss, LAMBDA s : s.pk = pk)

MergedRow(rows, ss, pk) ==
  LET mine == Of(ss, pk) IN
  [pk |-> pk, limit |-> Limit(mine), sub |-> Agents(rows, pk) > 1,
   input |-> LatestOf(mine, "input"), output |-> LatestOf(mine, "output"),
   reasoning |-> LatestOf(mine, "reasoning"), cached |-> LatestOf(mine, "cached")]

(* Mistake: the bars are in the order of what was captured last.           *)
OrderByCapture(rows, ss, pk) == Max({s.at : s \in ToSet(Of(ss, pk))})

RowOrder(rows, ss, pk) == rows[pk].start

(* The chats that have a bar.                                              *)
Barred(rows, ss) == ChatsOf(rows) \cap {s.pk : s \in ToSet(ss)}

(* merge_snapshots.                                                        *)
Merged(rows, ss) ==
  LET order == SortedBy(Barred(rows, ss), [pk \in Barred(rows, ss) |-> RowOrder(rows, ss, pk)])
  IN [i \in DOMAIN order |-> MergedRow(rows, ss, order[i])]

(* The dashboard's: the fields of a snapshot are taken together.           *)
WebObserve(acc, s) ==
  LET newer == s.at > acc.latest IN
  [f \in Field |-> IF s[f] # Null /\ (newer \/ acc[f] = Null) THEN s[f] ELSE acc[f]]
    @@ [latest |-> IF newer THEN s.at ELSE acc.latest]

WebMerged(ss, pk) ==
  FoldLeft(WebObserve, [f \in Field |-> Null] @@ [latest |-> -1], Of(ss, pk))

-----------------------------------------------------------------------------
(* Drawing, in cells.                                                      *)

YAxis == 9

Cap(h) == IF h = 0 THEN 65535 ELSE Max({3, (4 * h) \div 5})
Clamp(x, h) == IF x < 3 THEN 3 ELSE Min({x, Cap(h)})

(* Rows of the screen that are the widget's.                               *)
Strip(shown, x, t) == IF shown THEN Min({Clamp(x, t.h), Max({0, t.h - 2})}) ELSE 1

MaxBars(w) == (w - YAxis + 1) \div 2

Plot(w, h) == \* plot_geometry
  IF h < 3 \/ w <= YAxis THEN None
  ELSE [top |-> 1, baseline |-> h - 2, underbar |-> h - 1, high |-> h - 2, bars |-> MaxBars(w)]

Shown(bars, plot) == Min({Len(bars), plot.bars})
Start(bars, plot) == Len(bars) - Shown(bars, plot)

(* The y axis ends at YMax[1] / YMax[2] tokens.                            *)
YMax(bars, ss) ==
  LET m == Max({OrZero(Largest({bars[i].limit : i \in DOMAIN bars})),
                OrZero(Largest({s.current : s \in ToSet(ss)}))})
  IN IF m <= 0 THEN <<1, 1>> ELSE <<11 * m, 10>>

(* split_segments: cache read, fresh input, output, reasoning.             *)
Segments(bar) ==
  LET input == OrZero(bar.input)
      cached == Min({OrZero(bar.cached), input})
  IN <<cached, input - cached, OrZero(bar.output), OrZero(bar.reasoning)>>

Stacked(segs) ==
  <<segs[1], segs[1] + segs[2], segs[1] + segs[2] + segs[3], segs[1] + segs[2] + segs[3] + segs[4]>>
Topmost(segs) == CHOOSE k \in 1..4 : segs[k] > 0 /\ \A l \in (k + 1)..4 : segs[l] = 0

Blank == [third |-> 0, of |-> 0]

Thirds(part, whole) == (6 * part + whole) \div (2 * whole)

(* The cell that is `rr` cells above the baseline: how many thirds of it   *)
(* are painted, and as which segment.                                      *)
Cell(segs, y, high, rr) ==
  LET upTo == Stacked(segs)
      fill == upTo[4] * high * y[2] - rr * y[1]
      below == {k \in 1..3 : (2 * rr + 1) * y[1] < 2 * upTo[k] * high * y[2]}
  IN CASE fill <= 0 -> Blank
       [] fill >= y[1] -> [third |-> 3, of |-> IF below = {} THEN 4 ELSE Min(below)]
       [] OTHER -> LET n == Thirds(fill, y[1]) IN IF n = 0 THEN Blank ELSE [third |-> n, of |-> Topmost(segs)]

(* From the baseline up.                                                   *)
Painted(segs, y, high) ==
  FoldLeft(LAMBDA cells, rr : Append(cells, Cell(segs, y, high, rr - 1)), <<>>, [rr \in 1..high |-> rr])

-----------------------------------------------------------------------------
(* The server, the cache and the columns.                                  *)

ServerTree(s) == [n \in {n \in live : Home[n] = s} |-> Node[n]]
ServerContexts(s) ==
  LET mine == {i \in DOMAIN snaps : Home[snaps[i].pk] = s}
      order == SortedBy(mine, [i \in mine |-> snaps[i].at])
  IN [k \in DOMAIN order |-> snaps[order[k]]]

Bound ==
  LET withOne == {i \in DOMAIN cols : cols[i] # None}
  IN IF withOne = {} THEN None ELSE cols[Min(withOne)]

Bars == IF Bound = None THEN <<>> ELSE Merged(tree[Bound], contexts[Bound])
Pks(bars) == [i \in DOMAIN bars |-> bars[i].pk]
At(i) == LET bars == Bars IN IF i + 1 \in DOMAIN bars THEN bars[i + 1].pk ELSE None
Query == {"tree", "contexts"} \X Session

Init ==
  /\ uses \in Habits
  /\ live = {n \in DOMAIN Node : Node[n].kind # "chat"} \cup {s.pk : s \in ToSet(Early)}
  /\ snaps = Early /\ told = TRUE
  /\ tree = [s \in Session |-> <<>>] /\ contexts = [s \in Session |-> <<>>] /\ stale = Query
  /\ cols \in Layouts
  /\ visible = TRUE /\ height = 15 /\ term \in Terminal
  /\ focused = FALSE /\ cursor = NoBar /\ hovered = None /\ picked = None
  /\ seen = [bar |-> None, bars |-> <<>>] /\ keys = 0

(* A chat's tokens are captured.                                           *)
Capture(s) ==
  /\ s \notin ToSet(snaps)
  /\ live' = live \cup {s.pk} /\ snaps' = Append(snaps, s) /\ told' = FALSE
  /\ UNCHANGED <<uses, cache, cols, size, focused, cursor, hovered, picked, seen, keys>>

(* Mistake: only the tree is fetched again.                                *)
InvalidatedTree == {"tree"} \X Session

(* What an event about the session makes stale.                            *)
Invalidated == Query

(* The event about it comes in.                                            *)
Notice ==
  /\ ~told /\ told' = TRUE /\ stale' = stale \cup Invalidated
  /\ UNCHANGED <<uses, live, snaps, tree, contexts, cols, size, focused, cursor, hovered, picked, seen, keys>>

(* A query the widget reads is answered.                                   *)
Refetch(what) ==
  /\ Bound # None /\ <<what, Bound>> \in stale /\ stale' = stale \ {<<what, Bound>>}
  /\ tree' = IF what = "tree" THEN [tree EXCEPT ![Bound] = ServerTree(Bound)] ELSE tree
  /\ contexts' = IF what = "contexts" THEN [contexts EXCEPT ![Bound] = ServerContexts(Bound)] ELSE contexts
  /\ UNCHANGED <<uses, server, cols, size, focused, cursor, hovered, picked, seen, keys>>

Press(habit) ==
  /\ habit \in uses /\ keys < MaxKeys /\ keys' = keys + 1
  /\ UNCHANGED <<uses, server, cache>>

(* A key in a column gives it another session, or none.                    *)
SetSession(i, s) ==
  /\ Press("sessions") /\ ~focused /\ s # cols[i] /\ cols' = [cols EXCEPT ![i] = s]
  /\ UNCHANGED <<size, focused, cursor, hovered, picked, seen>>

(* The row cursor of a Spans column publishes the chat it is in.           *)
HoverRow(n) ==
  /\ Press("spans") /\ ~focused /\ n # hovered /\ hovered' = n
  /\ UNCHANGED <<cols, size, focused, cursor, picked, seen>>

Publish(i) ==
  /\ hovered' = At(i)
  /\ seen' = [bar |-> At(i), bars |-> Pks(Bars)]

(* Tab comes to the widget, or leaves it, as Esc does.                     *)
Tab ==
  /\ Press("bars") /\ focused' = (~focused /\ visible)
  /\ cursor' = IF focused' /\ cursor = NoBar THEN 0 ELSE cursor
  /\ IF focused' THEN Publish(cursor') ELSE UNCHANGED <<hovered, seen>>
  /\ UNCHANGED <<cols, size, picked>>

Move(d) ==
  /\ Press("bars") /\ focused
  /\ LET last == Len(Bars) - 1 IN
     IF last < 0 THEN cursor' = NoBar /\ UNCHANGED <<hovered, seen>>
     ELSE LET to == (IF cursor = NoBar THEN last ELSE cursor) + d
          IN cursor' = Max({0, Min({to, last})}) /\ Publish(cursor')
  /\ UNCHANGED <<cols, size, focused, picked>>

Chosen == IF cursor = NoBar THEN None ELSE At(cursor)

Enter ==
  /\ Press("bars") /\ focused /\ picked' = IF Chosen # None THEN Chosen ELSE picked
  /\ UNCHANGED <<cols, size, focused, cursor, hovered, seen>>

Toggle ==
  /\ Press("sizes") /\ visible' = ~visible /\ focused' = (focused /\ visible')
  /\ UNCHANGED <<cols, height, term, cursor, hovered, picked, seen>>

Adjust(d) ==
  /\ Press("sizes") /\ visible /\ height' = Clamp(Max({0, height + d}), term.h)
  /\ UNCHANGED <<cols, visible, term, focused, cursor, hovered, picked, seen>>

Resize(t) ==
  /\ Press("sizes") /\ t # term /\ term' = t
  /\ UNCHANGED <<cols, visible, height, focused, cursor, hovered, picked, seen>>

Next ==
  \/ \E s \in Snapshot : Capture(s)
  \/ Notice
  \/ \E what \in {"tree", "contexts"} : Refetch(what)
  \/ \E i \in DOMAIN cols : \E s \in Session \cup {None} : SetSession(i, s)
  \/ \E n \in ChatsOf(Node) \cup {None} : HoverRow(n)
  \/ Tab \/ Move(-1) \/ Move(1) \/ Enter
  \/ Toggle \/ \E d \in {-5, -1, 1, 5} : Adjust(d)
  \/ \E t \in Terminal : Resize(t)

(* The event loop takes what the feed sends it, and draws, and a draw      *)
(* reads both queries: none stays as it is for ever.                       *)
Fairness == []<>told /\ \A what \in {"tree", "contexts"} : []<>(<<what, Bound>> \notin stale)
Spec == Init /\ [][Next]_vars /\ Fairness

-----------------------------------------------------------------------------
(* Types.                                                                  *)
TypeOK ==
  /\ live \subseteq DOMAIN Node /\ ToSet(snaps) \subseteq Snapshot
  /\ \A s \in Session : DOMAIN tree[s] \subseteq live /\ ToSet(contexts[s]) \subseteq ToSet(snaps)
  /\ cursor \in NoBar..Cardinality(DOMAIN Node) /\ height \in 3..65535
  /\ focused => visible

(* A count of a bar is the one captured last of those there are, whatever  *)
(* the order they are listed in; the dashboard shows the same.  Only       *)
(* counts captured at the same time may differ.                            *)
MergeExact ==
  \A s \in Session :
    LET bars == Merged(tree[s], contexts[s])
    IN \A i \in DOMAIN bars : \A f \in Field :
         LET ss == Of(contexts[s], bars[i].pk)
             have == {x \in ToSet(ss) : x[f] # Null}
             latest == {x[f] : x \in {x \in have : \A y \in have : y.at <= x.at}}
             ties == \E x, y \in ToSet(ss) : x # y /\ x.at = y.at
         IN /\ IF have = {} THEN bars[i][f] = Null ELSE bars[i][f] \in latest
            /\ ~ties => /\ LatestOf(Reverse(ss), f) = bars[i][f]
                        /\ WebMerged(ss, bars[i].pk)[f] = bars[i][f]

(* Bars come in between others, but never change places.                   *)
BarsKeepOrder ==
  cache' # cache =>
    \A s \in Session :
      \A was \in {Pks(Merged(tree[s], contexts[s]))}, is \in {Pks(Merged(tree'[s], contexts'[s]))} :
        \A i, j \in DOMAIN was : \A k, l \in DOMAIN is :
          i < j /\ is[k] = was[i] /\ is[l] = was[j] => k < l

(* The chart is inside its strip and leaves the columns a row; the newest  *)
(* bars are in it, the last within the plot, and no other bar would fit.   *)
ChartFits ==
  LET strip == Strip(visible, height, term)
      plot == Plot(term.w, strip)
      bars == Bars
      Column(i) == YAxis + 2 * (i - 1)
  IN /\ term.h >= 3 => 1 + strip < term.h
     /\ plot # None =>
          /\ 0 < plot.top /\ plot.top <= plot.baseline
          /\ plot.baseline < plot.underbar /\ plot.underbar < strip
          /\ Shown(bars, plot) > 0 => Column(Shown(bars, plot)) < term.w
          /\ Shown(bars, plot) < Len(bars) => Column(Shown(bars, plot) + 1) >= term.w

(* A bar is as high as its tokens are, to the nearest third of a cell, but *)
(* for what the plot cuts off; it shows no segment the chat does not have, *)
(* and the segments in their order.                                        *)
BarsTrue ==
  LET plot == Plot(term.w, Strip(visible, height, term))
      bars == Bars
      y == YMax(bars, contexts[Bound])
  IN Bound # None /\ plot # None =>
       \A i \in DOMAIN bars :
         LET segs == Segments(bars[i])
             cells == Painted(segs, y, plot.high)
             total == Stacked(segs)[4] * plot.high * y[2]
         IN /\ FoldLeft(LAMBDA n, cell : n + cell.third, 0, cells)
                 = Min({3 * plot.high, (6 * total + y[1]) \div (2 * y[1])})
            /\ \A rr \in DOMAIN cells : cells[rr].third > 0 =>
                 /\ segs[cells[rr].of] > 0
                 /\ rr > 1 => cells[rr - 1].third = 3 /\ cells[rr - 1].of <= cells[rr].of

(* Enter picks the bar that was last marked, unless a bar has come in at   *)
(* or before its place since.                                              *)
EnterPicksMarked ==
  Enter /\ seen.bar # None /\ IsPrefix(SubSeq(seen.bars, 1, cursor + 1), Pks(Bars)) =>
    picked' = seen.bar

(* "ensures Enter always selects the chat span the user perceives as       *)
(* selected rather than a positional alias": the bar that was last marked. *)
EnterNeverAliases == Enter /\ seen.bar # None => picked' = seen.bar

(* What holds in every state, and what every step keeps to.                *)
Sound == TypeOK /\ MergeExact /\ ChartFits /\ BarsTrue
Keeps == BarsKeepOrder /\ EnterPicksMarked

(* What Keeps rests on: cached rows are rows the server has, and while the *)
(* widget has the focus the bar last marked is still on the chart.         *)
Cached ==
  \A s \in Session :
    /\ \A n \in DOMAIN tree[s] : n \in live /\ Home[n] = s /\ tree[s][n] = Node[n]
    /\ \A x \in ToSet(contexts[s]) : x \in ToSet(snaps) /\ Home[x.pk] = s

Marked ==
  focused /\ seen.bar # None =>
    /\ cursor + 1 \in DOMAIN seen.bars /\ seen.bars[cursor + 1] = seen.bar
    /\ Bound # None /\ seen.bar \in Barred(tree[Bound], contexts[Bound])

Fitting ==
  /\ live \subseteq DOMAIN Node /\ snaps \in Seq(Snapshot) /\ cols \in Seq(Session \cup {None})
  /\ DOMAIN tree = Session /\ DOMAIN contexts = Session
  /\ cursor \in Int /\ seen.bars \in Seq(DOMAIN Node)
  /\ Cached /\ Marked

(* What is known of spans, snapshots and terminals.                        *)
WellFormed ==
  /\ IsFiniteSet(DOMAIN Node) /\ DOMAIN Node \subseteq Int
  /\ \A n \in DOMAIN Node : Node[n].start \in Int
  /\ \A x \in Snapshot : x.pk \in DOMAIN Node /\ x.at \in Int
  /\ Early \in Seq(Snapshot) /\ Layouts \subseteq Seq(Session \cup {None})
  /\ \A t \in Terminal : t.w \in Nat /\ t.h \in Nat

(* In the end the chart is that of all that was captured.                  *)
UpToDate ==
  Bound # None => tree[Bound] = ServerTree(Bound) /\ contexts[Bound] = ServerContexts(Bound)
=============================================================================

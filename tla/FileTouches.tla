----------------------------- MODULE FileTouches -----------------------------
(***************************************************************************)
(* The file touches column, in the TUI and in the dashboard: the files     *)
(* that the tool calls of a session read and wrote, as a tree of           *)
(* directories with counts, and which of them are open, while calls and    *)
(* their details come in and the column is given other sessions.           *)
(*                                                                         *)
(* A path is a sequence of names (naturals, in the order of the alphabet); *)
(* 0 is the empty name beside a separator too many.                        *)
(***************************************************************************)
EXTENDS Naturals, Sequences, SequencesExt, FiniteSets, TLC

CONSTANTS
  None,
  Session,
  Call,     \* spans: [home, kind, tool, lines]; lines are [head, path], one if no patch
  MaxKeys   \* bound: keys and clicks

VARIABLES
  client,    \* "tui" or "web": which of the columns this behaviour is about
  session,   \* the column's session, or None
  trees,     \* ["session-span-tree", s]: the spans in it, or None before it is fetched
  details,   \* spans whose ["span", ...] has a value
  pane,      \* FileTouchesState, or the state of the component
  marked,    \* history: the row last highlighted, None if it is no directory
  shut,      \* history: directories the user closed, or passed over by expand-all
  keys

vars == <<client, session, trees, details, pane, marked, shut, keys>>

-----------------------------------------------------------------------------
(* What a call touched.                                                    *)

Kind(tool) == \* tool_name_mapping
  CASE tool = "view" -> "read"
    [] tool \in {"edit", "create", "apply_patch"} -> "write"
    [] OTHER -> "none"

WebKind(tool) == IF tool = "read" THEN "read" ELSE IF tool = "write" THEN "write" ELSE Kind(tool)

Distinct(seq) ==
  LET firsts == SelectSeq([i \in DOMAIN seq |-> i], LAMBDA i : \A j \in 1..(i - 1) : seq[j] # seq[i])
  IN [i \in DOMAIN firsts |-> seq[firsts[i]]]

(* The headers of a patch that name a file: `*** Move to:` is one for the  *)
(* dashboard, and for the TUI only without its stars.                      *)
Named(c, heads) ==
  LET lines == SelectSeq(c.lines, LAMBDA l : c.tool # "apply_patch" \/ l.head \in heads)
  IN Distinct([i \in DOMAIN lines |-> lines[i].path])

Touched(c, kind, heads) ==
  IF c.kind # "execute_tool" \/ kind = "none" THEN <<>>
  ELSE LET paths == Named(c, heads) IN [i \in DOMAIN paths |-> [path |-> paths[i], kind |-> kind]]

TuiTouches(c) == Touched(c, Kind(c.tool), {"file", "bare move"})
WebTouches(c) == Touched(c, WebKind(c.tool), {"file", "move"})

Touches(who, S) ==
  FoldLeft(LAMBDA all, n : all \o IF who = "tui" THEN TuiTouches(Call[n]) ELSE WebTouches(Call[n]),
           <<>>, SetToSeq(S))

-----------------------------------------------------------------------------
(* The counting tree: a node for each path and each directory it is in.    *)

Along(segs) == Prefixes(segs) \ {<<>>}
New == [dir |-> FALSE, reads |-> 0, writes |-> 0]
Segments(path) == SelectSeq(path, LAMBDA name : name # 0)

(* Mistake: what was first seen as a file stays one.                       *)
InsertAsSeen(tree, t) ==
  LET segs == Segments(t.path)
      on == Along(segs)
      bump(p) == LET n == IF p \in DOMAIN tree THEN tree[p] ELSE [New EXCEPT !.dir = p # segs]
                 IN IF t.kind = "read" THEN [n EXCEPT !.reads = @ + 1] ELSE [n EXCEPT !.writes = @ + 1]
  IN [p \in DOMAIN tree \cup on |-> IF p \in on THEN bump(p) ELSE tree[p]]

Insert(tree, t) ==
  LET segs == Segments(t.path)
      on == Along(segs)
      was(p) == IF p \in DOMAIN tree THEN tree[p] ELSE New
      bump(p) == LET n == [was(p) EXCEPT !.dir = @ \/ p # segs]
                 IN IF t.kind = "read" THEN [n EXCEPT !.reads = @ + 1] ELSE [n EXCEPT !.writes = @ + 1]
  IN [p \in DOMAIN tree \cup on |-> IF p \in on THEN bump(p) ELSE tree[p]]

Tree(touches) == FoldLeft(Insert, <<>>, touches)

Children(tree, p) == {q \in DOMAIN tree : Len(q) = Len(p) + 1 /\ IsPrefix(p, q)}
Dirs(tree) == {p \in DOMAIN tree : tree[p].dir}

(* Directories first, then by name.                                        *)
Sorted(tree, S) ==
  SortSeq(SetToSeq(S), LAMBDA p, q :
    \/ tree[p].dir /\ ~tree[q].dir
    \/ tree[p].dir = tree[q].dir /\ p[Len(p)] < q[Len(q)])

(* The rows, top to bottom.                                                *)
Rows(tree, open) ==
  LET walk[todo \in Seq(DOMAIN tree)] ==
        IF todo = <<>> THEN <<>>
        ELSE LET p == Head(todo)
                 below == IF tree[p].dir /\ p \in open THEN Sorted(tree, Children(tree, p)) ELSE <<>>
             IN <<p>> \o walk[below \o Tail(todo)]
  IN walk[Sorted(tree, Children(tree, <<>>))]

(* The dashboard has a root, and a directory is what something is in.      *)
WebDirs(tree) == {p \in DOMAIN tree \cup {<<>>} : Children(tree, p) # {}}

-----------------------------------------------------------------------------
(* A draw.                                                                 *)

Listed(s, T) == IF s = None THEN {} ELSE IF T[s] = None THEN {} ELSE T[s]

Shown(s, T, D) == Tree(Touches(client, Listed(s, T) \cap D))

(* Mistake: only the directories of the last draw are known.               *)
OpensAnew(p, dirs) == [p EXCEPT !.known = dirs, !.open = @ \cup (dirs \ p.known)]

(* A directory opens by itself when it is seen for the first time.         *)
Opens(p, dirs) == [p EXCEPT !.known = @ \cup dirs, !.open = @ \cup (dirs \ p.known)]

(* With nothing to show, the rows of the last draw stay what they were.    *)
TuiDrawn(p, tree) ==
  IF tree = <<>> THEN p
  ELSE LET opened == Opens(p, Dirs(tree))
           rows == Rows(tree, opened.open)
       IN [opened EXCEPT
             !.dirs = Dirs(tree),
             !.rows = [i \in DOMAIN rows |-> IF rows[i] \in Dirs(tree) THEN rows[i] ELSE <<>>],
             !.focus = IF @ >= Len(rows) THEN Len(rows) - 1 ELSE @]

(* The dashboard's effect runs after the render that brought directories.  *)
WebDrawn(p, tree) == [Opens(p, WebDirs(tree)) EXCEPT !.dirs = WebDirs(tree)]

AtCursor(p) == IF p.focus + 1 \in DOMAIN p.rows THEN p.rows[p.focus + 1] ELSE <<>>

Shows(p, s, T, D) ==
  LET tree == Shown(s, T, D) IN
  /\ pane' = IF client = "tui" THEN TuiDrawn(p, tree) ELSE WebDrawn(p, tree)
  /\ marked' = IF client = "tui" /\ tree = <<>> THEN None ELSE AtCursor(pane')

Blank == marked = None

-----------------------------------------------------------------------------
(* What comes in.                                                          *)

Init ==
  /\ client \in {"tui", "web"}
  /\ session = None /\ trees = [s \in Session |-> None] /\ details = {}
  /\ pane = [open |-> {}, known |-> {}, focus |-> 0, rows |-> <<>>, dirs |-> {}]
  /\ marked = None /\ shut = {} /\ keys = 0

(* The column's session is set by another column.                          *)
SetSession(s) ==
  /\ s # session /\ session' = s /\ Shows(pane, s, trees, details)
  /\ UNCHANGED <<client, trees, details, shut, keys>>

(* The dashboard renders what comes in at once, the TUI some time later.   *)
Arrived ==
  /\ IF client = "web" THEN Shows(pane, session, trees', details') ELSE UNCHANGED <<pane, marked>>
  /\ UNCHANGED <<client, session, shut, keys>>

Of(s) == {n \in DOMAIN Call : Call[n].home = s}

(* The tree of the column's session is fetched, again and again.           *)
Refetch(S) ==
  /\ session # None /\ S \subseteq Of(session) /\ Listed(session, trees) \subseteq S
  /\ trees[session] # S
  /\ trees' = [trees EXCEPT ![session] = S] /\ UNCHANGED details /\ Arrived

(* The detail of a listed span comes in, whoever asked for it.             *)
LoadDetail(n) ==
  /\ n \in Listed(session, trees) \ details
  /\ details' = details \cup {n} /\ UNCHANGED trees /\ Arrived

(* Other details take its place; the dashboard keeps those in use.         *)
Evict(n) ==
  /\ n \in details /\ (client = "web" => Call[n].home # session)
  /\ details' = details \ {n} /\ UNCHANGED trees /\ Arrived

Redraw ==
  /\ client = "tui" /\ Shows(pane, session, trees, details)
  /\ UNCHANGED <<client, session, trees, details, shut, keys>>

-----------------------------------------------------------------------------
(* Keys and clicks.                                                        *)

Flip(S, x) == IF x \in S THEN S \ {x} ELSE S \cup {x}

Handled(p, k) ==
  LET at == AtCursor(p) IN
  CASE k = "up" -> [p EXCEPT !.focus = IF @ = 0 THEN 0 ELSE @ - 1]
    [] k = "down" -> [p EXCEPT !.focus = IF @ + 1 < Len(p.rows) THEN @ + 1 ELSE @]
    [] k = "home" -> [p EXCEPT !.focus = 0]
    [] k = "end" -> [p EXCEPT !.focus = IF p.rows # <<>> THEN Len(p.rows) - 1 ELSE @]
    [] k = "left" -> IF at = <<>> THEN p ELSE [p EXCEPT !.open = @ \ {at}]
    [] k = "right" -> IF at = <<>> THEN p ELSE [p EXCEPT !.open = @ \cup {at}]
    [] k = "space" -> IF at = <<>> THEN p ELSE [p EXCEPT !.open = Flip(@, at)]
    [] k = "+" -> IF p.dirs = {} THEN p ELSE [p EXCEPT !.open = p.dirs]
    [] k = "-" -> IF p.dirs = {} THEN p ELSE [p EXCEPT !.open = {}]

(* What the user means by it: the row that is highlighted, or, when there  *)
(* is none on the screen, the row that was there.                          *)
Meant == IF Blank THEN AtCursor(pane) ELSE marked

Closed(k) ==
  CASE k = "left" -> shut \cup ({Meant} \ {<<>>})
    [] k = "right" -> shut \ ({Meant} \ {<<>>})
    [] k = "space" -> IF Meant = <<>> THEN shut ELSE Flip(shut, Meant)
    [] k \in {"+", "-"} -> IF pane.dirs = {} THEN shut
                          ELSE IF k = "+" THEN pane.known \ pane.dirs ELSE pane.known
    [] OTHER -> shut

Press == keys < MaxKeys /\ keys' = keys + 1 /\ UNCHANGED <<client, session, trees, details>>

Key(k) ==
  /\ client = "tui" /\ Press
  /\ shut' = Closed(k) /\ Shows(Handled(pane, k), session, trees, details)

Click(p) ==
  /\ client = "web" /\ Press
  /\ LET tree == Shown(session, trees, details)
     IN p \in ToSet(Rows(tree, pane.open)) \cap WebDirs(tree)
  /\ shut' = Flip(shut, p) /\ Shows([pane EXCEPT !.open = Flip(@, p)], session, trees, details)

(* [+] and [-], which are disabled when there is no directory.             *)
Button(k) ==
  /\ client = "web" /\ Press /\ pane.dirs # {}
  /\ shut' = Closed(k) /\ Shows(Handled(pane, k), session, trees, details)

Next ==
  \/ \E s \in Session \cup {None} : SetSession(s)
  \/ \E S \in SUBSET DOMAIN Call : Refetch(S)
  \/ \E n \in DOMAIN Call : LoadDetail(n) \/ Evict(n)
  \/ Redraw
  \/ \E k \in {"up", "down", "home", "end", "left", "right", "space", "+", "-"} : Key(k)
  \/ \E p \in pane.known : Click(p)
  \/ \E k \in {"+", "-"} : Button(k)

Spec == Init /\ [][Next]_vars

-----------------------------------------------------------------------------
(* Types of the column's state.                                            *)
TypeOK ==
  /\ session \in Session \cup {None}
  /\ \A s \in Session : trees[s] = None \/ trees[s] \subseteq Of(s)
  /\ details \subseteq DOMAIN Call /\ pane.dirs \subseteq pane.known
  /\ shut \subseteq pane.known

Now == Shown(session, trees, details)
Settled == client = "tui" /\ Now # <<>> /\ TuiDrawn(pane, Now) = pane

(* The counts of a directory are those of what is in it and of the calls   *)
(* that named the directory itself, whatever the order of the calls; and   *)
(* every path is in a directory, however it was first seen.                *)
CountsAddUp ==
  LET tree == Now
      touches == Touches(client, Listed(session, trees) \cap details)
      itself(p, k) ==
        Cardinality({i \in DOMAIN touches : Segments(touches[i].path) = p /\ touches[i].kind = k})
      Sum(f, S) == FoldLeft(LAMBDA n, p : n + f[p], 0, SetToSeq(S))
      reads == [p \in DOMAIN tree |-> tree[p].reads]
      writes == [p \in DOMAIN tree |-> tree[p].writes]
  IN \A p \in DOMAIN tree :
       /\ reads[p] = itself(p, "read") + Sum(reads, Children(tree, p))
       /\ writes[p] = itself(p, "write") + Sum(writes, Children(tree, p))
       /\ tree[p].dir <=> Children(tree, p) # {}

(* A file that was touched has a row, just once and below the directories  *)
(* it is in, unless one of those is closed.                                *)
FilesShown ==
  LET tree == Now
      rows == Rows(tree, pane.open)
      At(p) == SelectInSeq(rows, LAMBDA q : q = p)
  IN /\ Len(rows) = Cardinality(ToSet(rows))
     /\ ToSet(rows) = {p \in DOMAIN tree : Along(p) \ {p} \subseteq pane.open}
     /\ \A p \in ToSet(rows) : \A q \in Along(p) \ {p} : At(q) < At(p)

(* The highlight is on a row of the last draw.                             *)
CursorOnRow == Settled => pane.focus < Len(pane.rows)

(* Both clients show the same tree of a session of Copilot's tools, unless *)
(* a patch moves a file.                                                   *)
ClientsAgree ==
  LET S == Listed(session, trees) \cap details IN
  (\A n \in S : /\ Call[n].tool \notin {"read", "write"}
                 /\ \A i \in DOMAIN Call[n].lines : Call[n].lines[i].head = "file")
    => Tree(Touches("tui", S)) = Tree(Touches("web", S))

(* A directory that was ever shown is open unless the user has closed it:  *)
(* a new one opens, and none does or closes by itself when calls come in,  *)
(* details are evicted or the column shows another session for a while.    *)
(* Expand-all is the exception: it closes those that are not there.        *)
OnlyUserCloses == pane.open = pane.known \ shut

(* What it rests on: the rows are those of directories that were shown, and*)
(* what is highlighted is what a key acts on.                              *)
PaneKnown ==
  /\ DOMAIN pane = {"open", "known", "focus", "rows", "dirs"}
  /\ OnlyUserCloses /\ shut \subseteq pane.known /\ pane.dirs \subseteq pane.known
  /\ \A i \in DOMAIN pane.rows : pane.rows[i] \in pane.known \cup {<<>>}
  /\ marked # None => marked = AtCursor(pane)

(* What holds in every state.                                              *)
Sound == TypeOK /\ CountsAddUp /\ FilesShown /\ CursorOnRow /\ ClientsAgree
=============================================================================

------------------------------ MODULE MCColumns ------------------------------
(***************************************************************************)
(* The columns that show a session, and the widget above them, for TLC:    *)
(* each behaviour is one of SpanPane, SpanBoard, ChatColumns, FileTouches, *)
(* ContextWidget or ToolColumn, and leaves the variables of the others     *)
(* alone.                                                                  *)
(***************************************************************************)
EXTENDS Integers, Sequences, SequencesExt, TLC

CONSTANTS NoChat, Nobody, Null

VARIABLES
  who,                                                   \* which of the six: never changes
  uses, shape, rows, tree, chat, hits, keys, cursor,     \* of more than one of them
  flat, collapsed, follow, focused, typing, text, asked, hover, tool,
  notified, since,                                                               \* SpanPane
  board, selected, arrow,                                                        \* SpanBoard
  client, hint, query, loaded, pane, web, held, turns,                           \* ChatColumns
  session, trees, details, marked, shut,                                         \* FileTouches
  live, snaps, told, contexts, stale, cols, visible, height, term, hovered,
  picked, seen,                                                                  \* ContextWidget
  event, inputs                                                                  \* ToolColumn

-----------------------------------------------------------------------------
(* Sessions of the shapes in use: an agent (1) whose tools (2, 4) run      *)
(* beside its chats (3, 5); chats (12, 14) with a tool (13) under the first*)
(* and an orphan (16); and an agent (21) whose chat (22) runs a tool (23)  *)
(* that has a chat with a tool of its own (24, 25) before the next (26).   *)

Span(p, k, s, e) == [parent |-> p, kind |-> k, start |-> s, end |-> e]

Beside ==
  [row |-> (1 :> Span(0, "invoke_agent", 1, 9) @@ 2 :> Span(1, "execute_tool", 2, 3)
            @@ 3 :> Span(1, "chat", 1, 4) @@ 4 :> Span(1, "external_tool", 5, 6)
            @@ 5 :> Span(1, "chat", 5, 8)),
   late |-> {4, 5}]

Under ==
  [row |-> (11 :> Span(0, "other", 1, 9) @@ 12 :> Span(11, "chat", 1, 4)
            @@ 13 :> Span(12, "execute_tool", 2, 3) @@ 14 :> Span(11, "chat", 5, 7)
            @@ 15 :> Span(14, "execute_tool", 6, 7) @@ 16 :> Span(99, "chat", 5, 7)),
   late |-> {14, 15}]

Nested ==
  [row |-> (21 :> Span(0, "invoke_agent", 1, 12) @@ 22 :> Span(21, "chat", 2, 9)
            @@ 23 :> Span(22, "execute_tool", 3, 8) @@ 24 :> Span(23, "chat", 4, 6)
            @@ 25 :> Span(24, "execute_tool", 5, 5) @@ 26 :> Span(21, "chat", 10, 11)),
   late |-> {24, 26}]

PaneHabits == {{"grow", "move", "follow"}, {"grow", "follow", "collapse"}, {"move", "collapse", "bars"},
               {"grow", "search"}, {"search", "collapse"}, {"move", "switch", "follow"}}
PaneMatches == [q \in {"", "a"} |-> IF q = "a" THEN {2, 3, 5, 12, 15, 25} ELSE {}]

Pane == INSTANCE SpanPane WITH
  Shapes <- {Beside, Under, Nested}, Query <- {"", "a"}, Blank <- "",
  Matches <- PaneMatches, Habits <- PaneHabits

(* A session that grows a tool, a chat under it and an external tool under *)
(* that, and one that only has two spans.                                  *)

Growing ==
  [row |-> (1 :> Span(0, "chat", 1, 9) @@ 2 :> Span(1, "execute_tool", 2, 8)
            @@ 3 :> Span(2, "chat", 3, 5) @@ 4 :> Span(3, "external_tool", 6, 7)),
   late |-> {2, 3, 4}]

Small ==
  [row |-> (11 :> Span(0, "chat", 1, 3) @@ 12 :> Span(11, "execute_tool", 2, 3)), late |-> {}]

Board == INSTANCE SpanBoard WITH
  Board <- {1}, FirstBoard <- 1, Shapes <- {Growing, Small}, Hits <- {{}, {4}},
  Window <- 3, MaxLate <- 1

(* Three turns: the second carries the first one's messages forward, the   *)
(* third does not, and has other instructions and tools.                   *)

Part(type, words, long) == [type |-> type, call |-> "", words |-> words, long |-> long]
Answer(call, words) == [type |-> "tool_call_response", call |-> call, words |-> words, long |-> FALSE]
Message(role, parts) == [role |-> role, parts |-> parts]
Def(name, words) == [name |-> name, words |-> words]

Ask == Message("user", <<Part("text", {"go"}, FALSE)>>)
Answered == Message("tool", <<Answer("k", {"x"})>>)

One ==
  [has |-> {"system", "tools", "input", "output"}, system |-> <<Part("text", {"be"}, FALSE)>>,
   tools |-> <<Def("a", {"p"}), Def("a", {"p"}), Def("", {"u"})>>, input |-> <<Ask>>, output |-> <<>>]
Two == [One EXCEPT !.tools = <<Def("a", {"p"}), Def("", {"u"})>>, !.input = <<Ask, Answered>>]
Three ==
  [has |-> {"system", "input"}, system |-> <<Part("text", {"be", "x", "new"}, TRUE)>>,
   tools |-> <<>>, input |-> <<Answered, Ask, Ask>>, output |-> <<>>]

Chats == INSTANCE ChatColumns WITH
  Chat <- ("one" :> One) @@ ("two" :> Two) @@ ("three" :> Three),
  Prior <- ("one" :> "none") @@ ("two" :> "one") @@ ("three" :> "two"),
  Query <- {"", "x"}, Call <- {"k"}, None <- "none", Width <- 7, MaxInputs <- 4

(* A session that reads one file and writes others, by its tools and by a  *)
(* patch that names one twice and moves another, and a session that edits  *)
(* a file of the same name; names beside a separator too many are empty.   *)

File(path) == [head |-> "file", path |-> path]
Moved(path) == [head |-> "move", path |-> path]
Touch(s, name, lines) == [home |-> s, kind |-> "execute_tool", tool |-> name, lines |-> lines]

Files == INSTANCE FileTouches WITH
  None <- Nobody, Session <- {"s", "t"},
  Call <- <<Touch("s", "view", <<File(<<0, 2>>)>>),
            Touch("s", "apply_patch", <<File(<<2, 1>>), File(<<2, 1>>), Moved(<<3>>)>>),
            Touch("s", "create", <<File(<<1, 0, 3, 2>>)>>),
            Touch("t", "edit", <<File(<<2, 1>>)>>)>>,
  MaxKeys <- 2

(* A session with two chats of the agent (2, 3), one of a sub-agent (5)    *)
(* that starts between them, and another session with one chat (7).        *)

WidgetNode ==
  1 :> Span(0, "invoke_agent", 1, 9) @@ 2 :> Span(1, "chat", 1, 2) @@ 3 :> Span(1, "chat", 6, 7)
    @@ 4 :> Span(1, "invoke_agent", 3, 6) @@ 5 :> Span(4, "chat", 3, 5) @@ 7 :> Span(0, "chat", 1, 2)

Usage(pk, at, limit, current) ==
  [pk |-> pk, at |-> at, limit |-> limit, current |-> current,
   input |-> Null, output |-> Null, reasoning |-> Null, cached |-> Null]
Tokens(pk, at, input, output, reasoning, cached) ==
  [pk |-> pk, at |-> at, limit |-> Null, current |-> Null,
   input |-> input, output |-> output, reasoning |-> reasoning, cached |-> cached]

WidgetEarly ==
  <<Usage(2, 2, 100, 40), Tokens(2, 3, 40, 3, Null, 60),
    Tokens(3, 7, 60, 20, 1, 40), Tokens(7, 2, 0, 1, Null, Null)>>

Context == INSTANCE ContextWidget WITH
  None <- Nobody, Session <- {"s", "t"}, Node <- WidgetNode,
  Home <- [n \in DOMAIN WidgetNode |-> IF n = 7 THEN "t" ELSE "s"],
  Snapshot <- ToSet(WidgetEarly) \cup {Tokens(2, 6, 45, Null, 2, Null), Tokens(5, 5, 700, 9, Null, 500)},
  Terminal <- {[w |-> 9, h |-> 4], [w |-> 12, h |-> 24]},
  Layouts <- {<<"s", "t">>}, Early <- WidgetEarly,
  Habits <- {{"bars", "sessions"}, {"spans"}, {"bars", "sizes"}}, MaxKeys <- 3

ASSUME ContextAssumption == Context!WellFormed

(* Tool calls of every renderer: one whose result comes later, one of an   *)
(* external tool whose arguments are no object, edits of both kinds, and a *)
(* span that is no tool call.                                              *)

Argument(name, words) == [name |-> name, string |-> TRUE, text |-> words]
Given(fields) == [other |-> <<>>, fields |-> fields]
Out(string, words, diff, output) == [string |-> string, text |-> words, diff |-> diff, output |-> output]
Said(words) == Out(TRUE, words, Nobody, Nobody)
ToolCall(name, args, result) ==
  [native |-> TRUE, external |-> FALSE, name |-> name, function |-> TRUE, args |-> args, result |-> result]

Ran == Given(<<Argument("command", <<"a", "a", "A", "b">>),
              Argument("note", <<"a", "b", "lf", "lf", "b", "b", "b", "A", "cr", "lf">>)>>)
Wrote == Given(<<Argument("path", <<"b">>), Argument("file_text", <<"a", "lf", "b", "b">>), Argument("mode", <<"a">>)>>)
Changed == Given(<<Argument("filePath", <<"b">>), Argument("old_str", <<"b">>), Argument("newString", <<"a", "b", "lf", "b">>)>>)

ToolCalls ==
  "bash" :> <<ToolCall("bash", Ran, Nobody), ToolCall("bash", Ran, Said(<<"b", "a", "lf", "a", "b">>))>>
  @@ "mcp" :> <<[ToolCall("search", [other |-> <<"b", "a">>, fields |-> <<>>],
                          Out(FALSE, <<"{", "a", "}">>, Nobody, Nobody)) EXCEPT !.native = FALSE, !.external = TRUE]>>
  @@ "create" :> <<ToolCall("create", Wrote, Out(FALSE, <<"{", "}">>, <<>>, <<"a", "b">>))>>
  @@ "edit" :> <<ToolCall("edit", Changed, Out(FALSE, <<"{", "}">>, <<"-", "b">>, <<"b">>))>>
  @@ "view" :> <<ToolCall("view", Given(<<Argument("filePath", <<"b">>), Argument("n", <<"a">>)>>),
                          Said(<<"#", "a", "lf", "#", "b", "a">>))>>
  @@ "task" :> <<ToolCall("task", Given(<<Argument("prompt", <<"a">>), Argument("description", <<"b", "lf">>)>>), Nobody)>>
  @@ "agent" :> <<ToolCall("read_agent", Given(<<Argument("agent", <<"b">>)>>), Said(<<"a", "b">>))>>
  @@ "chat" :> <<[ToolCall("", Nobody, Nobody) EXCEPT !.native = FALSE]>>

DetailHabits == {{"pick", "key"}, {"type", "key"}}
DetailInputs == [h \in DetailHabits |-> IF "pick" \in h THEN 3 ELSE 4]

Detail == INSTANCE ToolColumn WITH
  Tool <- ToolCalls, None <- Nobody, Char <- {"a"}, Width <- 4, Height <- 6,
  Habits <- DetailHabits, MaxQuery <- 2, MaxInputs <- DetailInputs

-----------------------------------------------------------------------------

ofPane == <<flat, collapsed, follow, focused, typing, text, asked, hover, tool, notified, since>>
ofBoard == <<board, selected, arrow>>
ofChats == <<client, hint, query, loaded, pane, web, held, turns>>
ofFiles == <<session, trees, details, marked, shut>>
ofContext == <<live, snaps, told, contexts, stale, cols, visible, height, term, hovered, picked, seen>>
ofTool == <<event, inputs>>
all ==
  <<who, uses, shape, rows, tree, chat, hits, keys, cursor,
    ofPane, ofBoard, ofChats, ofFiles, ofContext, ofTool>>

NoPane ==
  /\ flat = 0 /\ collapsed = 0 /\ follow = 0 /\ typing = 0 /\ text = 0 /\ asked = 0
  /\ hover = 0 /\ tool = 0 /\ notified = 0 /\ since = 0
NoBoard == board = 0 /\ selected = 0 /\ arrow = 0
NoChats ==
  /\ client = 0 /\ hint = 0 /\ query = 0 /\ loaded = 0 /\ pane = 0 /\ web = 0 /\ held = 0 /\ turns = 0
NoFiles == session = 0 /\ trees = 0 /\ details = 0 /\ marked = 0 /\ shut = 0
NoContext ==
  /\ live = 0 /\ snaps = 0 /\ told = 0 /\ contexts = 0 /\ stale = 0 /\ cols = 0 /\ visible = 0
  /\ height = 0 /\ term = 0 /\ hovered = 0 /\ picked = 0 /\ seen = 0
NoTool == event = 0 /\ inputs = 0

Init ==
  \/ who = "pane" /\ Pane!Init /\ NoBoard /\ NoChats /\ NoFiles /\ NoContext /\ NoTool /\ keys = 0
  \/ /\ who = "board" /\ Board!Init /\ NoPane /\ NoChats /\ NoFiles /\ NoContext /\ NoTool
     /\ keys = 0 /\ uses = 0 /\ cursor = 0 /\ focused = 0
  \/ /\ who = "chats" /\ Chats!Init /\ NoPane /\ NoBoard /\ NoFiles /\ NoContext /\ NoTool
     /\ uses = 0 /\ cursor = 0 /\ focused = 0
     /\ shape = 0 /\ rows = 0 /\ tree = 0 /\ hits = 0
  \/ /\ who = "files" /\ Files!Init /\ NoPane /\ NoBoard /\ NoContext /\ NoTool
     /\ hint = 0 /\ query = 0 /\ loaded = 0 /\ web = 0 /\ held = 0 /\ turns = 0
     /\ uses = 0 /\ cursor = 0 /\ focused = 0
     /\ shape = 0 /\ rows = 0 /\ tree = 0 /\ chat = 0 /\ hits = 0
  \/ /\ who = "context" /\ Context!Init /\ NoPane /\ NoBoard /\ NoChats /\ NoFiles /\ NoTool
     /\ shape = 0 /\ rows = 0 /\ chat = 0 /\ hits = 0
  \/ /\ who = "tool" /\ Detail!Init /\ NoPane /\ NoBoard
     /\ shape = 0 /\ rows = 0 /\ tree = 0 /\ chat = 0 /\ hits = 0 /\ keys = 0 /\ cursor = 0
     /\ client = 0 /\ hint = 0 /\ loaded = 0 /\ web = 0 /\ held = 0 /\ turns = 0
     /\ session = 0 /\ trees = 0 /\ marked = 0 /\ shut = 0
     /\ live = 0 /\ snaps = 0 /\ told = 0 /\ contexts = 0 /\ stale = 0 /\ cols = 0 /\ visible = 0
     /\ height = 0 /\ term = 0 /\ hovered = 0 /\ seen = 0

(* A step of the one leaves what is only the others' alone.                *)
OfPane(A) == who = "pane" /\ A /\ UNCHANGED <<who, ofBoard, ofChats, ofFiles, ofContext, ofTool, keys>>
OfBoard(A) ==
  who = "board" /\ A /\ UNCHANGED <<who, ofPane, ofChats, ofFiles, ofContext, ofTool, keys, uses, cursor>>
OfChats(A) ==
  /\ who = "chats" /\ A
  /\ UNCHANGED <<who, ofPane, ofBoard, ofFiles, ofContext, ofTool, uses, cursor, shape, rows, tree, hits>>
OfFiles(A) ==
  /\ who = "files" /\ A
  /\ UNCHANGED <<who, ofPane, ofBoard, ofContext, ofTool, hint, query, loaded, web, held, turns>>
  /\ UNCHANGED <<uses, cursor, shape, rows, tree, chat, hits>>
OfContext(A) ==
  /\ who = "context" /\ A
  /\ UNCHANGED <<who, flat, collapsed, follow, typing, text, asked, hover, tool, notified, since>>
  /\ UNCHANGED <<ofBoard, ofChats, ofFiles, ofTool, shape, rows, chat, hits>>
OfTool(A) ==
  /\ who = "tool" /\ A
  /\ UNCHANGED <<who, flat, collapsed, follow, typing, text, asked, hover, tool, notified, since, ofBoard>>
  /\ UNCHANGED <<client, hint, loaded, web, held, turns, session, trees, marked, shut>>
  /\ UNCHANGED <<live, snaps, told, contexts, stale, cols, visible, height, term, hovered, seen>>
  /\ UNCHANGED <<shape, rows, tree, chat, hits, keys, cursor>>

Next ==
  \/ OfPane(Pane!Next)
  \/ OfBoard(Board!Next)
  \/ OfChats(Chats!Next)
  \/ OfFiles(Files!Next)
  \/ OfContext(Context!Next)
  \/ OfTool(Detail!Next)

(* What each module assumes of its own steps.                              *)
Fairness ==
  /\ WF_all(OfBoard(Board!Effects)) /\ SF_all(OfBoard(Board!Tick))
  /\ []<>(who = "board" => ~Board!Due(1)) /\ []<>(who = "board" => tree.node = rows)
  /\ []<>(who = "pane" => tree.node = rows) /\ []<>(who = "pane" => ~notified)
  /\ []<>(who = "context" => told)
  /\ \A what \in {"tree", "contexts"} :
       []<>(who = "context" => <<what, Context!Bound>> \notin stale)

Spec == Init /\ [][Next]_all /\ Fairness

-----------------------------------------------------------------------------
(* The properties of each module, of the behaviours that are its own.      *)

(* SpanPane: rows, cursor and search jumps fit the tree of the moment, and *)
(* the chats that tools are routed to are the right ones.                  *)
PaneSound == who = "pane" => Pane!Sound

(* SpanPane: the bar that lights up is that of the chat at the cursor.     *)
PaneHovers == [][who = "pane" => Pane!HoverFits]_all

(* SpanBoard: what waits to be revealed is due spaced and soon, and what is *)
(* selected or found has a row.                                            *)
BoardSound == who = "board" => Board!Sound

(* SpanBoard: a batch unfolds from the top, and a first tree comes whole.  *)
BoardUnfolds == [][who = "board" => Board!Unfolds]_all

(* ChatColumns: cursor, hints and search matches are on the screen, and    *)
(* bars and breakdowns add up to the chat that they show.                  *)
ChatsSound == who = "chats" => Chats!Sound /\ Chats!Exact

(* ChatColumns: a draw settles the column, the end of a search restores it *)
(* and the cursor moves only by keys and hints.                            *)
ChatsKeep == [][who = "chats" => Chats!Keeps]_all

(* ContextWidget: bars are those of the latest counts, and fit the strip.  *)
ContextSound == who = "context" => Context!Sound

(* ContextWidget: bars keep their order, and Enter picks the marked one.   *)
ContextKeeps == [][who = "context" => Context!Keeps]_all

(* FileTouches: counts add up, every touched file has its row or a closed  *)
(* directory above it, the two clients agree, and no directory opens or    *)
(* closes again but by the user.                                           *)
FilesSound == who = "files" => Files!Sound /\ Files!OnlyUserCloses

(* ContextWidget, as its requirement has it: Enter picks the marked bar.   *)
EnterNeverAliases == [][who = "context" => Context!EnterNeverAliases]_all

(* ToolColumn: what is on the screen is searched for what the search box   *)
(* has, as it is wrapped, and no argument is left out.                     *)
ToolSound == who = "tool" => Detail!Sound

(* ToolColumn: a draw settles the column, and a match moves by Enter, or by*)
(* a text or a search that changes.                                        *)
ToolKeeps == [][who = "tool" => Detail!Keeps]_all

(* The columns catch up: a SpanPane that follows rests on the latest tool, *)
(* a SpanBoard shows all that waits to be revealed, and the chart of the   *)
(* ContextWidget is that of all that was captured.                         *)
ColumnsCatchUp ==
  []<>(/\ who = "pane" => Pane!FollowsLatest
       /\ who = "board" => Board!AllShown
       /\ who = "context" => Context!UpToDate)
=============================================================================

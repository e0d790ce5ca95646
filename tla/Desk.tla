-------------------------------- MODULE Desk --------------------------------
(***************************************************************************)
(* The TUI's workspace: its columns, what they show, which of them has the *)
(* keyboard, the overlays that take the keyboard away, and the file that   *)
(* brings the columns back.  A step is one key, one effect of the feed, or *)
(* a restart.  What a Spans column does within its own tree is SpanPane.   *)
(***************************************************************************)
EXTENDS Integers, Sequences, SequencesExt, FiniteSets

CONSTANTS
  None,
  Session, Span, Call,
  Home,      \* the session a span belongs to
  Kind,      \* its kind class
  CallOf,    \* the tool call id its row carries, or None
  Query,     \* texts of a search; Blank is the empty one
  Blank,
  Seed,      \* the types of the seeded columns, in order
  Layouts,   \* columns an earlier run may have saved
  Types,     \* ScenarioType::all(), as the add popover lists it
  Habits,    \* bound: what one behaviour has in it: kinds of keys, a failing disk
  MaxAdds, MaxFailures, MaxAdvances  \* bounds: minted ids, failed saves, follow-mode advances

Type == {"live_sessions", "spans", "tool_detail", "chat_detail", "file_touches", "raw_browser"}

Distinct(types) == types \in Seq(Type) /\ \A i, j \in DOMAIN types : i # j => types[i] # types[j]

ASSUME DeskAssumption ==
  /\ IsFiniteSet(Session) /\ Distinct(Seed) /\ \A types \in Layouts : Distinct(types)
  /\ Types \in Seq(Type) /\ Types # <<>> /\ {MaxAdds, MaxFailures, MaxAdvances} \subseteq Nat
  /\ Blank \in Query /\ None \notin Session \cup Span \cup Call \cup Query
  /\ Home \in [Span -> Session] /\ CallOf \in [Span -> Call \cup {None}]
  /\ Kind \in [Span -> {"execute_tool", "chat", "invoke_agent", "other"}]

VARIABLES
  uses,                    \* which of Habits: never changes
  cols, nextId, shows,     \* Workspace: columns, next_column_id, context_widget_visible
  focus, last,             \* Focus, last_focused_column
  panes,                   \* App::scenarios, by column id
  overlays,                \* the keymap and log overlays that are visible
  adding, picker,          \* app_popover, add_column_picker.cursor
  confirm, pending,        \* confirm_modal (with the session its prompt names), pending_delete
  list,                    \* the sessions in the cache, newest first
  saved,                   \* tui-workspace.toml
  advances, failures,      \* bounds
  deleted,                 \* history: sessions a DELETE was sent for
  strayed                  \* history: a column was added beside a Sessions column gone its own way

workspace == <<cols, nextId, shows>>
keyboard == <<focus, last, overlays, adding, picker, confirm, pending>>
history == <<deleted, strayed>>
vars == <<uses, workspace, keyboard, panes, list, saved, advances, failures, history>>

NoFocus == 0
Widget == -1
Dependent == {"spans", "chat_detail", "file_touches"}
Detail == {"tool_detail", "chat_detail"}
Torn == [cols |-> None, nextId |-> 0, shows |-> FALSE]   \* a file the parser refuses

Bare(t, n) == [id |-> <<t, n>>, type |-> t,
               session |-> None, span |-> None, call |-> None, query |-> None]
Seeded(types) == [cols |-> [i \in DOMAIN types |-> Bare(types[i], 0)],
                  nextId |-> 1, shows |-> TRUE]
Fresh(t) == [type |-> t, mode |-> "main", cursor |-> 1, text |-> Blank]
Ids(cs) == {cs[i].id : i \in DOMAIN cs}

(* Drop the scenarios of columns that are gone, make those that are new.   *)
Sync(ps, cs) ==
  [d \in Ids(cs) |-> IF d \in DOMAIN ps THEN ps[d] ELSE Fresh(d[1])]

(* persist::load: an absent file or one that does not parse is the seed.   *)
Load(file) == IF file = Torn THEN Seeded(Seed) ELSE file

FirstFocus(cs) == IF cs = <<>> THEN NoFocus ELSE 1

Boot(file) ==
  LET w == Load(file) IN
  /\ cols' = w.cols /\ nextId' = w.nextId /\ shows' = w.shows
  /\ focus' = FirstFocus(w.cols) /\ last' = FirstFocus(w.cols)
  /\ panes' = Sync(<<>>, w.cols)
  /\ overlays' = {} /\ adding' = FALSE /\ picker' = 1 /\ pending' = None
  /\ confirm' = [open |-> FALSE, yes |-> FALSE, names |-> None]

Lists == UNION {{l \in [1..n -> Session] : \A i, j \in 1..n : i # j => l[i] # l[j]}
                  : n \in 0..Cardinality(Session)}

Init ==
  /\ uses \in Habits
  /\ \E types \in Layouts :
      LET w == Seeded(types) IN
      /\ cols = w.cols /\ nextId = 1 /\ shows = TRUE
      /\ focus = FirstFocus(w.cols) /\ last = FirstFocus(w.cols)
      /\ panes = Sync(<<>>, w.cols)
      /\ overlays = {} /\ adding = FALSE /\ picker = 1 /\ pending = None
      /\ confirm = [open |-> FALSE, yes |-> FALSE, names |-> None]
      /\ saved = w
      /\ list = SetToSeq(Session) /\ advances = 0 /\ failures = 0
      /\ deleted = {} /\ strayed = FALSE

-----------------------------------------------------------------------------
(* What effects do to the columns.                                         *)

PropagateSession(cs, i, c) ==
  [j \in DOMAIN cs |->
    IF j = i \/ cs[j].type \in Dependent THEN [cs[j] EXCEPT !.session = c] ELSE cs[j]]

ClearSession(cs, c) ==
  [j \in DOMAIN cs |->
    IF cs[j].session = c
    THEN [cs[j] EXCEPT !.session = None, !.span = None, !.call = None] ELSE cs[j]]

PropagateSearch(cs, q) ==
  [j \in DOMAIN cs |-> IF cs[j].type \in Detail THEN [cs[j] EXCEPT !.query = q] ELSE cs[j]]

Allow(k) ==
  CASE k = "execute_tool" -> {"spans", "tool_detail"}
    [] k \in {"chat", "invoke_agent"} -> {"spans", "chat_detail"}
    [] OTHER -> {"spans"}

(* Chat detail follows its own rules; the rest take what is picked, and    *)
(* keep an old tool call id where the pick brings none.                    *)
ChatTakes(col, s, route) ==
  CASE Kind[s] = "chat" -> [col EXCEPT !.span = s, !.call = None]
    [] Kind[s] = "execute_tool" /\ route # None -> [col EXCEPT !.span = route, !.call = CallOf[s]]
    [] Kind[s] = "invoke_agent" /\ route # None -> [col EXCEPT !.span = route, !.call = None]
    [] OTHER -> col

OtherTakes(col, s) ==
  [col EXCEPT !.span = s, !.call = IF CallOf[s] # None THEN CallOf[s] ELSE @]

PropagateSelection(cs, i, s, route) ==
  [j \in DOMAIN cs |->
    IF cs[j].type = "chat_detail" THEN ChatTakes(cs[j], s, route)
    ELSE IF j = i \/ cs[j].type \in Allow(Kind[s]) THEN OtherTakes(cs[j], s)
    ELSE cs[j]]

(* Where a pick sends Chat detail: the chat after a tool, the last chat of *)
(* an agent, if the tree has one (SpanTreeQueries says which).             *)
Routes(s) ==
  IF Kind[s] \in {"execute_tool", "invoke_agent"}
  THEN {None} \cup {c \in Span : Kind[c] = "chat" /\ Home[c] = Home[s]}
  ELSE {None}

(* A new column copies each key from the first column that has it.         *)
FirstWith(cs, n, key) ==
  LET having == {j \in DOMAIN cs \ {n} : cs[j][key] # None}
  IN  IF having = {} THEN None ELSE cs[CHOOSE j \in having : \A m \in having : j <= m][key]

(* Mistake: a new column starts empty.                                     *)
InheritNothing(cs, n) == cs[n]

Inherit(cs, n) ==
  LET t == cs[n].type
      from(types, key) == IF t \in types THEN FirstWith(cs, n, key) ELSE None
  IN  [cs[n] EXCEPT !.session = from(Dependent, "session"),
                    !.span = from({"spans"} \cup Detail, "span"),
                    !.call = from({"spans"} \cup Detail, "call"),
                    !.query = from(Detail, "query")]

(* persist::save, whose errors are ignored: the file may stay as it was,   *)
(* or be truncated and not written.                                        *)
Save ==
  \/ /\ saved' = [cols |-> cols', nextId |-> nextId', shows |-> shows']
     /\ UNCHANGED failures
  \/ /\ "failing" \in uses /\ failures < MaxFailures
     /\ failures' = failures + 1 /\ saved' \in {saved, Torn}

-----------------------------------------------------------------------------
(* Which layer gets a key.                                                 *)

OnColumn == focus \in DOMAIN cols
Here == cols[focus]
Pane == panes[Here.id]
Typing == OnColumn /\ Pane.mode = "typing"
Covered == overlays # {} \/ confirm.open \/ adding
Popped == OnColumn /\ Pane.mode \in {"session", "kind"}
ToColumn(t) == OnColumn /\ Here.type = t /\ ~Covered /\ ~Popped /\ ~Typing
(* Letters with Ctrl or Alt, and Tab, are not the search's to take.        *)
ToGlobal == ~Covered /\ ~Popped

SetPane(f) == panes' = [panes EXCEPT ![Here.id] = f]

Moved(cursor, d, n) == IF n = 0 THEN 1 ELSE ((cursor - 1 + d) % n) + 1

(* 1: a search being typed takes plain letters, editing keys, Esc, Delete  *)
(* and plain Enter, whatever is drawn over it; Tab, the arrows up and down *)
(* and what is typed with Ctrl or Alt it leaves to the layers below.       *)
EndTyping ==
  /\ Typing /\ SetPane([Pane EXCEPT !.mode = "main"])
  /\ UNCHANGED <<workspace, keyboard, list, saved, advances, failures, history>>

Emit(q, mode) ==
  /\ SetPane([Pane EXCEPT !.text = q, !.mode = mode])
  /\ cols' = PropagateSearch(cols, q)
  /\ UNCHANGED <<nextId, shows>> /\ Save

Type1(q) ==
  /\ Typing /\ q # Pane.text /\ Emit(q, "typing")
  /\ UNCHANGED <<keyboard, list, advances, history>>

ClearSearch ==
  /\ Typing /\ Emit(Blank, "main")
  /\ UNCHANGED <<keyboard, list, advances, history>>

(* 2: overlays, one over the other.  Over a search, only a key with Ctrl or *)
(* Alt gets to them: the one that opened an overlay, not Esc.              *)
CloseOverlay ==
  /\ overlays # {}
  /\ overlays' = IF "keymap" \in overlays THEN overlays \ {"keymap"} ELSE {}
  /\ UNCHANGED <<workspace, focus, last, adding, picker, confirm, pending, panes, list, saved,
                 advances, failures, history>>

Asked == confirm.open /\ overlays = {}

ToggleYes ==
  /\ Asked /\ confirm' = [confirm EXCEPT !.yes = ~@]
  /\ UNCHANGED <<workspace, focus, last, overlays, adding, picker, pending, panes, list, saved,
                 advances, failures, history>>

(* Mistake: what is deleted is what the cursor is on by now.               *)
DeleteUnderCursor(c) ==
  LET now == IF Pane.cursor \in DOMAIN list THEN list[Pane.cursor] ELSE c IN
  /\ deleted' = deleted \cup {now}
  /\ cols' = ClearSession(cols, now) /\ UNCHANGED <<nextId, shows, strayed>> /\ Save

DoDelete(c) ==
  /\ deleted' = deleted \cup {c}
  /\ cols' = ClearSession(cols, c) /\ UNCHANGED <<nextId, shows, strayed>> /\ Save

(* y, n, Esc, or Enter on what is highlighted.                             *)
Answer(yes) ==
  /\ Asked /\ confirm' = [confirm EXCEPT !.open = FALSE] /\ pending' = None
  /\ IF yes /\ pending # None THEN DoDelete(pending)
     ELSE UNCHANGED <<workspace, saved, failures, history>>
  /\ UNCHANGED <<focus, last, overlays, adding, picker, panes, list, advances>>

Listing == adding /\ overlays = {} /\ ~confirm.open

MovePicker(d) ==
  /\ Listing /\ picker' = Moved(picker, d, Len(Types))
  /\ UNCHANGED <<workspace, focus, last, overlays, adding, confirm, pending, panes, list, saved,
                 advances, failures, history>>

CancelAdd ==
  /\ Listing /\ ~Typing /\ adding' = FALSE
  /\ UNCHANGED <<workspace, focus, last, overlays, picker, confirm, pending, panes, list, saved,
                 advances, failures, history>>

Mint(t) == Bare(t, nextId)

Gone(cs) ==
  \E i, j \in DOMAIN cs : /\ cs[i].session # cs[j].session
                          /\ cs[i].type \in Dependent /\ cs[j].type = "live_sessions"

AppendColumn(t) ==
  LET n == Len(cols) + 1
      cs == Append(cols, Mint(t)) IN
  /\ cols' = [cs EXCEPT ![n] = Inherit(cs, n)] /\ nextId' = nextId + 1
  /\ focus' = n /\ last' = n
  /\ panes' = Sync(panes, cols')
  /\ strayed' = (strayed \/ Gone(cols))
  /\ UNCHANGED shows /\ Save

ChooseType ==
  /\ Listing /\ nextId <= IF "again" \in uses THEN MaxAdds ELSE 1
  /\ adding' = FALSE /\ AppendColumn(Types[picker])
  /\ UNCHANGED <<overlays, picker, confirm, pending, list, advances, deleted>>

ToPopover(mode) == OnColumn /\ Pane.mode = mode /\ ~Covered

MoveSessionPicker(d) ==
  /\ ToPopover("session")
  /\ SetPane([Pane EXCEPT !.cursor = Moved(@, d, Len(list))])
  /\ UNCHANGED <<workspace, keyboard, list, saved, advances, failures, history>>

ClosePopover ==
  /\ \E mode \in {"session", "kind"} : ToPopover(mode)
  /\ SetPane([Pane EXCEPT !.mode = "main"])
  /\ UNCHANGED <<workspace, keyboard, list, saved, advances, failures, history>>

PickSession(i) ==
  IF i \in DOMAIN list
  THEN /\ cols' = PropagateSession(cols, focus, list[i]) /\ UNCHANGED <<nextId, shows>> /\ Save
  ELSE UNCHANGED <<workspace, saved, failures>>

ChooseSession ==
  /\ ToPopover("session")
  /\ SetPane([Pane EXCEPT !.mode = "main"]) /\ PickSession(Pane.cursor)
  /\ UNCHANGED <<keyboard, list, advances, history>>

(* The kind filter belongs to its own column: nothing here depends on it.  *)
ChooseKind ==
  /\ ToPopover("kind")
  /\ SetPane([Pane EXCEPT !.mode = "main"]) /\ UNCHANGED workspace /\ Save
  /\ UNCHANGED <<keyboard, list, advances, history>>

(* 3: the Context Growth Widget, bound to the first column that has a      *)
(* session.  Enter offers the bar's chat to every Spans column whose tree  *)
(* has it.                                                                 *)
ToWidget == focus = Widget /\ ~Covered

SelectBar(s) ==
  /\ ToWidget /\ Kind[s] = "chat" /\ FirstWith(cols, 0, "session") = Home[s]
  /\ \E i \in DOMAIN cols : cols[i].type = "spans" /\ cols[i].session = Home[s]
  /\ cols' = PropagateSelection(cols, 0, s, None) /\ UNCHANGED <<nextId, shows>> /\ Save
  /\ UNCHANGED <<keyboard, panes, list, advances, history>>

Release(cs) ==
  focus' = IF last \in DOMAIN cs THEN last ELSE FirstFocus(cs)

LeaveWidget ==
  /\ ToWidget /\ Release(cols)
  /\ UNCHANGED <<workspace, last, overlays, adding, picker, confirm, pending, panes, list, saved,
                 advances, failures, history>>

(* 4: the focused column.                                                  *)
Swapped(cs, i, j) == [cs EXCEPT ![i] = cs[j], ![j] = cs[i]]

MoveColumn(d) ==
  LET to == focus + d IN
  /\ OnColumn /\ ToGlobal /\ ~Typing /\ to \in DOMAIN cols
  /\ cols' = Swapped(cols, focus, to) /\ focus' = to /\ last' = to
  /\ UNCHANGED <<nextId, shows>> /\ Save
  /\ UNCHANGED <<overlays, adding, picker, confirm, pending, panes, list, advances, history>>

(* Up, Down, Home, End and Enter all pick what the cursor is then on.      *)
MoveSession(i) ==
  /\ ToColumn("live_sessions")
  /\ i \in {Moved(Pane.cursor, -1, Len(list)), Moved(Pane.cursor, 1, Len(list)),
            Pane.cursor, 1, Len(list)} \ {0}
  /\ SetPane([Pane EXCEPT !.cursor = i]) /\ PickSession(i)
  /\ UNCHANGED <<keyboard, list, advances, history>>

AskDelete ==
  /\ ToColumn("live_sessions") /\ Pane.cursor \in DOMAIN list
  /\ pending' = list[Pane.cursor]
  /\ confirm' = [open |-> TRUE, yes |-> FALSE, names |-> list[Pane.cursor]]
  /\ UNCHANGED <<workspace, focus, last, overlays, adding, picker, panes, list, saved,
                 advances, failures, history>>

Enter(mode) ==
  /\ ToColumn("spans")
  /\ SetPane([Pane EXCEPT !.mode = mode,
                !.cursor = IF mode # "session" THEN @
                           ELSE IF Here.session \notin ToSet(list) THEN 1
                           ELSE CHOOSE i \in DOMAIN list : list[i] = Here.session])
  /\ UNCHANGED <<workspace, keyboard, list, saved, advances, failures, history>>

(* Every key that moves the cursor onto a row of the tree, and Enter on a  *)
(* match, with a search being typed or not.                                *)
PickSpan(s, route) ==
  /\ Typing \/ ToColumn("spans")
  /\ Here.session = Home[s]
  /\ cols' = PropagateSelection(cols, focus, s, route) /\ UNCHANGED <<nextId, shows>> /\ Save
  /\ UNCHANGED <<keyboard, panes, list, advances, history>>

(* 5: the rest.                                                            *)
ShowOverlay(o) ==
  /\ ToGlobal /\ overlays' = {o}
  /\ UNCHANGED <<workspace, focus, last, adding, picker, confirm, pending, panes, list, saved,
                 advances, failures, history>>

OpenAdd ==
  /\ ToGlobal /\ adding' = TRUE /\ picker' = 1
  /\ UNCHANGED <<workspace, focus, last, overlays, confirm, pending, panes, list, saved,
                 advances, failures, history>>

ToggleWidget ==
  /\ ToGlobal /\ ~Typing /\ shows' = ~shows
  /\ IF shows /\ focus = Widget THEN Release(cols) ELSE UNCHANGED focus
  /\ UNCHANGED <<cols, nextId>> /\ Save
  /\ UNCHANGED <<last, overlays, adding, picker, confirm, pending, panes, list, advances, history>>

(* The columns in order, then the widget if it is visible.                 *)
CycleFocus(d) ==
  LET n == Len(cols)
      slots == n + IF shows THEN 1 ELSE 0
      cur == CASE focus = Widget -> n + 1 [] focus = NoFocus -> 1 [] OTHER -> focus
      next == Moved(cur, d, slots) IN
  /\ ToGlobal
  /\ IF slots = 0 THEN focus' = NoFocus /\ UNCHANGED last
     ELSE IF next = n + 1 THEN focus' = Widget /\ UNCHANGED last
     ELSE focus' = next /\ last' = next
  /\ UNCHANGED <<workspace, overlays, adding, picker, confirm, pending, panes, list, saved,
                 advances, failures, history>>

(* Mistake: the focus is not moved when the last column goes.              *)
RemoveUnclamped ==
  /\ OnColumn /\ ToGlobal
  /\ cols' = RemoveAt(cols, focus) /\ panes' = Sync(panes, cols')
  /\ UNCHANGED <<focus, last, nextId, shows>> /\ Save
  /\ UNCHANGED <<overlays, adding, picker, confirm, pending, list, advances, history>>

RemoveColumn ==
  /\ OnColumn /\ ToGlobal
  /\ cols' = RemoveAt(cols, focus) /\ panes' = Sync(panes, cols')
  /\ focus' = IF focus <= Len(cols') THEN focus ELSE Len(cols')
  /\ last' = focus'
  /\ UNCHANGED <<nextId, shows>> /\ Save
  /\ UNCHANGED <<overlays, adding, picker, confirm, pending, list, advances, history>>

Modal ==
  \/ CloseOverlay \/ ToggleYes \/ \E yes \in BOOLEAN : Answer(yes)
  \/ CancelAdd \/ ChooseType \/ \E d \in {-1, 1} : MovePicker(d) \/ MoveSessionPicker(d)
  \/ ClosePopover \/ ChooseSession \/ ChooseKind \/ LeaveWidget

Sessions == Enter("session") \/ \E i \in 1..Cardinality(Session) : MoveSession(i)
Search == Enter("typing") \/ EndTyping \/ ClearSearch \/ \E q \in Query : Type1(q)
Pick == \E s \in Span : SelectBar(s) \/ \E route \in Routes(s) : PickSpan(s, route)
Arrange == RemoveColumn \/ \E d \in {-1, 1} : MoveColumn(d)
Overlay == Enter("kind") \/ \E o \in {"keymap", "log"} : ShowOverlay(o)

Column ==
  \/ "sessions" \in uses /\ Sessions
  \/ "delete" \in uses /\ AskDelete
  \/ "search" \in uses /\ Search
  \/ "pick" \in uses /\ Pick

Global ==
  \/ "add" \in uses /\ OpenAdd
  \/ "arrange" \in uses /\ Arrange
  \/ "overlay" \in uses /\ Overlay
  \/ "widget" \in uses /\ ToggleWidget
  \/ \E d \in {-1, 1} : CycleFocus(d)

-----------------------------------------------------------------------------
(* What happens without a key.                                             *)

(* A fetch of the list of sessions ends.                                   *)
Relist(l) ==
  /\ l # list /\ list' = l
  /\ UNCHANGED <<workspace, keyboard, panes, saved, advances, failures, history>>

(* A Spans column that follows the latest tool moves on to it, and does    *)
(* not save that.                                                          *)
Follow(i, s, route) ==
  /\ advances < MaxAdvances /\ advances' = advances + 1
  /\ cols[i].type = "spans" /\ cols[i].session = Home[s] /\ Kind[s] = "execute_tool"
  /\ cols' = PropagateSelection(cols, i, s, route)
  /\ UNCHANGED <<nextId, shows, keyboard, panes, list, saved, failures, history>>

(* q, a crash, a kill: the next run begins with what was saved.            *)
Restart ==
  /\ Boot(saved)
  /\ UNCHANGED <<list, saved, advances, failures, history>>

Unattended ==
  \/ "delete" \in uses /\ \E l \in Lists : Relist(l)
  \/ "pick" \in uses /\ \E i \in DOMAIN cols, s \in Span :
                           \E route \in Routes(s) : Follow(i, s, route)
  \/ Restart

Next == (Modal \/ Column \/ Global \/ Unattended) /\ UNCHANGED uses

Spec == Init /\ [][Next]_vars

-----------------------------------------------------------------------------
(* Properties.                                                             *)

or(S) == S \cup {None}
ColumnState == [id : Type \X Nat, type : Type, session : or(Session), span : or(Span),
                call : or(Call), query : or(Query)]
PaneState == [type : Type, mode : {"main", "typing", "session", "kind"},
              cursor : Nat \ {0}, text : Query]

DeskTypes ==
  /\ uses \in Habits /\ cols \in Seq(ColumnState) /\ nextId \in Nat /\ shows \in BOOLEAN
  /\ saved = Torn \/ (saved.cols \in Seq(ColumnState) /\ saved.nextId \in Nat /\ saved.shows \in BOOLEAN)
  /\ advances \in 0..MaxAdvances /\ failures \in 0..MaxFailures /\ strayed \in BOOLEAN

KeyTypes ==
  /\ focus \in Int /\ last \in Nat
  /\ DOMAIN panes \subseteq Type \X Nat /\ \A d \in DOMAIN panes : panes[d] \in PaneState

ModalTypes ==
  /\ overlays \subseteq {"keymap", "log"} /\ adding \in BOOLEAN /\ picker \in DOMAIN Types
  /\ confirm \in [open : BOOLEAN, yes : BOOLEAN, names : or(Session)] /\ pending \in or(Session)
  /\ list \in Lists /\ deleted \subseteq Session

TypeOK == DeskTypes /\ KeyTypes /\ ModalTypes

(* The keyboard is always somewhere: on a column that exists, whose index  *)
(* every layer uses unchecked, or on a widget that is visible; and when    *)
(* the widget gives it up there is a column to give it back to.            *)
FocusHeld ==
  /\ CASE focus = Widget -> shows
       [] focus = NoFocus -> cols = <<>>
       [] OTHER -> focus \in DOMAIN cols /\ last = focus
  /\ last = NoFocus <=> cols = <<>>
  /\ last # NoFocus => last \in DOMAIN cols

(* Each column has a scenario made for it and no other column's, whatever  *)
(* was removed, added, saved and loaded before.                            *)
PanesOwned ==
  /\ \A i, j \in DOMAIN cols : i # j => cols[i].id # cols[j].id
  /\ DOMAIN panes = Ids(cols)
  /\ \A i \in DOMAIN cols : panes[cols[i].id].type = cols[i].type

(* An overlay can be answered: of the three kinds only one is up, and a    *)
(* confirmation is up exactly while a deletion is pending and never over a *)
(* search being typed, which would take its answer as text.  (The others   *)
(* do come up over a search: a with Ctrl.)                                 *)
OverlaysAnswer ==
  /\ confirm.open => ~Typing
  /\ Cardinality(overlays) + (IF confirm.open THEN 1 ELSE 0) + (IF adding THEN 1 ELSE 0) <= 1
  /\ confirm.open <=> pending # None

(* What is deleted is what the prompt named, even if the list has changed  *)
(* since, and no column is left on the session.                            *)
DeletesWhatItNamed ==
  [][\A c \in Session :
       c \in deleted' \ deleted =>
         /\ confirm.open /\ confirm.names = c
         /\ \A i \in DOMAIN cols' : cols'[i].session # c]_vars

(* All detail columns search for the same text, those added after it was   *)
(* typed and those that a restart brings back included.                    *)
OneSearch(cs) ==
  \A i, j \in DOMAIN cs :
    {cs[i].type, cs[j].type} \subseteq Detail => cs[i].query = cs[j].query

(* The columns that depend on a session show the same one.                 *)
OneSession(cs) ==
  \A i, j \in DOMAIN cs :
    {cs[i].type, cs[j].type} \subseteq Dependent => cs[i].session = cs[j].session

(* Of the columns that no append has filled: Tool detail is only ever sent *)
(* tool calls, Chat detail only chats, and the tool call that Chat detail  *)
(* points at was picked in the session of the chat it shows.               *)
Fits(col) ==
  /\ col.span = None \/ Kind[col.span] = (IF col.type = "chat_detail" THEN "chat" ELSE "execute_tool")
  /\ col.type = "chat_detail" /\ col.call # None =>
       \E s \in Span : CallOf[s] = col.call /\ col.span # None /\ Home[s] = Home[col.span]

KindsFit(cs) == \A i \in DOMAIN cs : cs[i].id[2] = 0 /\ cs[i].type \in Detail => Fits(cs[i])

(* Quit at any moment and the next run has the same columns, in the same   *)
(* order, on the same sessions and searches, unless a save has failed.     *)
Lasting(cs) == [i \in DOMAIN cs |-> <<cs[i].id, cs[i].session, cs[i].query>>]
RestartKeeps ==
  failures = 0 => /\ saved.nextId = nextId /\ saved.shows = shows
                  /\ Lasting(saved.cols) = Lasting(cols)

(* Keys always have somewhere to go, and what they go to is there.         *)
KeyboardHeld == TypeOK /\ FocusHeld /\ PanesOwned /\ OverlaysAnswer

(* The columns show one search, one session (unless a column was once      *)
(* added while a Sessions column had been left on another), spans of their *)
(* kind, and so again tomorrow.                                            *)
ColumnsAgree ==
  OneSearch(cols) /\ (~strayed => OneSession(cols)) /\ KindsFit(cols) /\ RestartKeeps

-----------------------------------------------------------------------------
(* Why they hold.                                                          *)

(* A column's id names its type, is no other's, and is older than the next *)
(* to be minted.                                                           *)
Owned(cs, n) ==
  /\ n >= 1
  /\ \A i \in DOMAIN cs : cs[i].id[1] = cs[i].type /\ cs[i].id[2] < n
  /\ \A i, j \in DOMAIN cs : i # j => cs[i].id # cs[j].id

(* Only the columns that follow a session, and Sessions columns, carry     *)
(* one, and only detail columns carry a search: a new column copies what   *)
(* the rest agree on.                                                      *)
Bearers(cs) ==
  \A i \in DOMAIN cs :
    /\ cs[i].session # None => cs[i].type \in Dependent \cup {"live_sessions"}
    /\ cs[i].query # None => cs[i].type \in Detail

Coherent(cs, n, apart) ==
  Owned(cs, n) /\ Bearers(cs) /\ OneSearch(cs) /\ KindsFit(cs) /\ (~apart => OneSession(cs))

(* What is on the desk is coherent, and so is what a restart would load.   *)
Filed ==
  /\ Coherent(cols, nextId, strayed)
  /\ saved # Torn => Coherent(saved.cols, saved.nextId, strayed)
  /\ RestartKeeps

(* A scenario is of the type its id names, and only a Spans column has     *)
(* modes.                                                                  *)
PaneFit == \A d \in DOMAIN panes : panes[d].type = d[1] /\ (panes[d].mode # "main" => d[1] = "spans")

(* The prompt names the session that a yes would delete, and it is asked   *)
(* from the Sessions column that still has the focus.                      *)
PromptFits ==
  confirm.open => confirm.names = pending /\ OnColumn /\ Here.type = "live_sessions"

Settled ==
  TypeOK /\ FocusHeld /\ Filed /\ DOMAIN panes = Ids(cols) /\ PaneFit /\ OverlaysAnswer /\ PromptFits
=============================================================================

----------------------------- MODULE ToolColumn -----------------------------
(***************************************************************************)
(* The tool detail column: what it shows of a tool call while the          *)
(* selection, the search text and the focus change and the call's details  *)
(* come in, and what keys do between two draws.                            *)
(***************************************************************************)
EXTENDS SearchBlock, FiniteSets

CONSTANTS
  Tool,        \* spans that may be selected: how each one's detail grows, as a sequence
               \* of records: native, external, name, function, args, result
  None,        \* no span; no arguments; no result; nothing that a result has of a kind
  Char,        \* what is typed into the search box
  Width,       \* of the column
  Height,
  Habits,      \* what a user may do in a behaviour: sets of "pick", "type", "key"
  MaxQuery,    \* bound: the length of a query
  MaxInputs    \* bound, for each of the habits: keys, selections and moves of the focus

VARIABLES
  uses,        \* habits of the behaviour: never changes
  picked,      \* the column's selected_span_id
  query,       \* the search box of a Spans column: its text is the column's search_query
  focused,
  details,     \* how much of each span's detail is in the cache
  pane,        \* ToolDetailState
  event,       \* what the event loop has taken and not drawn yet; "" when it has drawn
  inputs

vars == <<uses, picked, query, focused, details, pane, event, inputs>>

-----------------------------------------------------------------------------
(* What the column is made of.  An item is a line, or a block that can have*)
(* the focus; of: the arguments it shows.                                  *)

Line == [kind |-> "line", key |-> "", text |-> <<>>, numbered |-> FALSE, of |-> {}]
Row(f) == [Line EXCEPT !.of = {f.name}]
Search(key, text, of) == [Line EXCEPT !.kind = "search", !.key = key, !.text = text, !.of = of]
Beside(key, text, of) == [Search(key, text, of) EXCEPT !.numbered = TRUE]

(* Arguments are None, another value (other) or the fields of an object.   *)
Fields(args) == IF args = None \/ args.other # <<>> THEN <<>> ELSE args.fields
IsObject(args) == args # None /\ args.other = <<>>
Names(fields) == {fields[i].name : i \in DOMAIN fields}
Those(fields, names) == SelectSeq(fields, LAMBDA f : f.name \in names)

(* Values as JSON: a line each, between braces.                            *)
Pretty(fields) ==
  IF fields = <<>> THEN <<"{", "}">>
  ELSE <<"{", "lf">> \o FlattenSeq([i \in DOMAIN fields |-> fields[i].text \o <<"lf">>]) \o <<"}">>
Json(key, fields) == Search(key, Pretty(fields), Names(fields))

Result(key, text) == <<Line, Line, Search(key, text, {})>>
NoContent == <<Line>>

HasBreak(f) == f.string /\ "lf" \in ToSet(f.text)

Generic(args, result) ==
  LET fields == Fields(args)
      code == SelectSeq(fields, HasBreak)
      rest == SelectSeq(fields, LAMBDA f : ~HasBreak(f))
  IN IF args = None /\ result = None THEN NoContent
     ELSE (IF args = None THEN <<>>
           ELSE <<Line>>
                \o FlattenSeq([i \in DOMAIN code |->
                     <<Line, Search("generic.code." \o code[i].name, code[i].text, {code[i].name})>>])
                \o (IF rest # <<>> THEN <<Json("generic.rest", rest)>>
                    ELSE IF code # <<>> THEN <<>>
                    ELSE IF IsObject(args) THEN <<Json("generic.args", <<>>)>>
                    ELSE <<Search("generic.args", args.other, {})>>))
          \o (IF result = None THEN <<>> ELSE Result("generic.result", result.text))

Task(args, result) ==
  LET prompt == SelectSeq(Fields(args), LAMBDA f : f.name = "prompt" /\ f.string)
      rows == SelectSeq(Fields(args), LAMBDA f : ~(f.name = "prompt" /\ f.string))
  IN IF args = None /\ result = None THEN NoContent
     ELSE (IF args = None THEN <<>>
           ELSE IF ~IsObject(args) THEN <<Line, Search("task.args", args.other, {})>>
           ELSE <<Line>> \o [i \in DOMAIN rows |-> Row(rows[i])]
                \o (IF prompt = <<>> THEN <<>>
                    ELSE <<Line, Search("task.prompt", prompt[1].text, {"prompt"})>>))
          \o (IF result = None THEN <<>> ELSE Result("task.result", result.text))

ReadAgent(args, result) ==
  IF args = None /\ result = None THEN NoContent
  ELSE (IF args = None THEN <<>>
        ELSE IF ~IsObject(args) THEN <<Line, Search("read_agent.args", args.other, {})>>
        ELSE <<Line>> \o [i \in DOMAIN args.fields |-> Row(args.fields[i])])
       \o (IF result = None THEN <<>> ELSE Result("read_agent.result", result.text))

(* Numbers at the head of the lines, "#" here, go to the gutter.           *)
View(args, result) ==
  LET fields == Fields(args)
      at == IF Those(fields, {"path"}) # <<>> THEN Those(fields, {"path"}) ELSE Those(fields, {"filePath"})
      path == SelectSeq(at, LAMBDA f : f.string)
      rest == SelectSeq(fields, LAMBDA f : f.name \notin {"path", "filePath"})
      body == IF result.string THEN result.text ELSE result.output
      Bare == SelectSeq(body, LAMBDA c : c # "#")
  IN IF ~IsObject(args) /\ result = None THEN NoContent
     ELSE (IF ~IsObject(args) THEN <<>>
           ELSE <<Line>> \o [i \in DOMAIN path |-> Row(path[i])]
                \o (IF rest = <<>> THEN <<>> ELSE <<Line, Json("view.other", rest)>>))
          \o (IF result = None THEN <<>>
              ELSE IF ~result.string /\ result.output = None THEN Result("view.result", result.text)
              ELSE IF "#" \in ToSet(body) THEN <<Line, Line, Beside("view.result", Bare, {})>>
              ELSE Result("view.result", body))

PathNames == <<"path", "filePath">>
OldNames == <<"old_str", "oldString">>
NewNames == <<"new_str", "newString">>
BodyNames == <<"file_text", "content">>

(* str_field: the first of the names that is there with a string.          *)
StrField(fields, names) ==
  LET Of(i) == SelectSeq(fields, LAMBDA f : f.name = names[i] /\ f.string)
  IN IF Of(1) # <<>> THEN SubSeq(Of(1), 1, 1) ELSE Of(2)

(* The diff of two texts that have no line in common.                      *)
Marked(mark, text) ==
  LET at == Lines(text) IN
  FlattenSeq([k \in DOMAIN at |-> (IF k = 1 THEN <<>> ELSE <<"lf">>) \o <<mark, " ">> \o SubSeq(text, at[k].from, at[k].to)])
Diff(old, new) ==
  Marked("-", old) \o (IF old = <<>> \/ new = <<>> THEN <<>> ELSE <<"lf">>) \o Marked("+", new)

(* Mistake: what create writes is not taken for the new text.              *)
NewTextOnly(fields) == StrField(fields, NewNames)

NewText(fields) ==
  IF StrField(fields, NewNames) # <<>> THEN StrField(fields, NewNames) ELSE StrField(fields, BodyNames)

Edit(args, result) ==
  LET fields == Fields(args)
      path == StrField(fields, PathNames)
      old == StrField(fields, OldNames)
      new == NewText(fields)
      rest == SelectSeq(fields, LAMBDA f :
                f.name \notin ToSet(PathNames \o OldNames \o NewNames \o BodyNames))
      Shown ==
        IF old # <<>> /\ new # <<>>
        THEN <<Line, Beside("edit.diff", Diff(old[1].text, new[1].text), {old[1].name, new[1].name})>>
        ELSE IF new # <<>> THEN <<Line, Search("edit.new", new[1].text, {new[1].name})>>
        ELSE IF old # <<>> THEN <<Line, Search("edit.old", old[1].text, {old[1].name})>>
        ELSE <<>>
      body == IF result.string THEN result.text
              ELSE IF result.diff \notin {None, <<>>} THEN result.diff
              ELSE IF result.output \notin {None, <<>>} THEN result.output
              ELSE result.text
  IN IF ~IsObject(args) /\ result = None THEN NoContent
     ELSE (IF ~IsObject(args) THEN <<>>
           ELSE <<Line>> \o [i \in DOMAIN path |-> Row(path[i])] \o Shown
                \o (IF rest = <<>> THEN <<>> ELSE <<Line, Json("edit.other", rest)>>))
          \o (IF result = None THEN <<>> ELSE Result("edit.result", body))

(* native_renderer, with tool_name_mapping.                                *)
Rendered(name, args, result) ==
  CASE name = "task" -> Task(args, result)
    [] name = "read_agent" -> ReadAgent(args, result)
    [] name \in {"edit", "create"} -> Edit(args, result)
    [] name = "view" -> View(args, result)
    [] OTHER -> Generic(args, result)

(* The argument that is shown above the others.                            *)
Hero(d) ==
  LET Of(name) == SelectSeq(Fields(d.args), LAMBDA f : f.name = name /\ f.text # <<>>)
      best == Of("command") \o Of("query") \o Of("description")
  IN IF ~d.function \/ best = <<>> THEN <<>>
     ELSE <<Line>> \o [i \in DOMAIN Lines(best[1].text) |-> Line]

Panel(d) == [Line EXCEPT !.kind = "metadata", !.key = d.name]
RawPanel(d) == [Line EXCEPT !.kind = "json", !.key = "raw_attrs", !.text = Pretty(Fields(d.args))]

(* build_body, for a native tool call rather than an external one.         *)
Body(d) ==
  IF ~d.native /\ ~d.external THEN <<Line>>
  ELSE <<Panel(d)>> \o (IF d.native THEN Hero(d) ELSE <<>>) \o <<Line, Line>>
       \o (IF d.native THEN Rendered(d.name, d.args, d.result) ELSE Generic(d.args, d.result))
       \o <<Line, Line, RawPanel(d)>>

-----------------------------------------------------------------------------
(* A draw.                                                                 *)

Clamp(i, n) == IF n = 0 THEN 0 ELSE Least(i, n - 1)
MaxScroll(p) == Drop(p.len, Height)

Detail(s, loaded) == IF s = None \/ loaded[s] = 0 THEN None ELSE Tool[s][loaded[s]]
Block(p, key) == IF key \in DOMAIN p.blocks THEN p.blocks[key] ELSE Fresh

Searched(item, p) == item.kind = "search" \/ (item.kind = "json" /\ p.raw)
RowsOf(item) == IF item.numbered THEN Numbered(item.text) ELSE Wrapped(item.text, Width)

(* The block of an item after the draw, and the lines it takes.            *)
Drawn(b, item, ext, focus) ==
  LET r == Reconciled(b, ext, focus)
  IN Counted(r, IF r.phase = "active" THEN Len(Located(item.text, r.query)) ELSE 0)
Frame(b) == IF b.phase = "active" THEN 1 ELSE 0

Lined(item, p, b, d) ==
  CASE item.kind = "line" -> 1
    [] item.kind = "metadata" -> IF p.meta THEN (IF d.native THEN 7 ELSE 8) ELSE 1
    [] OTHER -> (IF item.kind = "json" THEN 1 ELSE 0)
                + (IF Searched(item, p) THEN 2 * Frame(b) + Len(RowsOf(item)) ELSE 0)

(* The last row with a part of the current match, if there is one.         *)
MatchRow(item, b) ==
  LET at == Located(item.text, b.query)
      cells == IF b.count = 0 THEN {} ELSE at[b.at + 1]..(at[b.at + 1] + Len(b.query) - 1)
      on == {r \in DOMAIN RowsOf(item) : ToSet(RowsOf(item)[r]) \cap cells # {}}
  IN IF on = {} THEN {} ELSE {Max(on) - 1 + Frame(b)}

Target(item, p, b, start, lines) ==
  LET row == IF Searched(item, p) THEN MatchRow(item, b) ELSE {}
      more == IF row = {} THEN 0 ELSE Max(row)
  IN CASE item.kind = "metadata" -> start + lines - 1
       [] item.kind = "json" -> start + (IF row = {} THEN 0 ELSE more + 1)
       [] OTHER -> start + more

(* Mistake: the column scrolls to where it was, whatever is left of it.    *)
ScrolledBack(scroll, target, len) ==
  IF target = {} THEN scroll
  ELSE LET t == Max(target) IN
       IF t < scroll THEN t ELSE IF t >= scroll + Height THEN Drop(t, Height - 1) ELSE scroll

Scrolled(scroll, target, len) ==
  LET near == IF target = {} THEN scroll
              ELSE LET t == Max(target) IN
                   IF t < scroll THEN t ELSE IF t >= scroll + Height THEN Drop(t, Height - 1) ELSE scroll
  IN Least(near, Drop(len, Height))

Empty(p, ext) ==
  [p EXCEPT !.ext = ext, !.plan = <<>>, !.len = 1, !.scroll = Least(@, Drop(1, Height))]

(* The blocks the focus can go to, and the one that has it.                *)
Plan(items) == SelectSeq(items, LAMBDA i : i.kind # "line")
Held(p, plan, focus) ==
  LET at == Clamp(p.block, Len(p.plan)) IN
  IF focus /\ at < Len(plan) THEN {plan[at + 1]} ELSE {}

(* Every searched text takes on the column's search.                       *)
Blocks(p, searched, held, ext) ==
  [k \in {i.key : i \in searched} |->
     LET item == CHOOSE i \in searched : i.key = k
     IN Drawn(Block(p, k), item, ext, item \in held)] @@ p.blocks

Heights(p, d, items) == [i \in DOMAIN items |-> Lined(items[i], p, Block(p, items[i].key), d)]
Start(lines, i) == MapThenSumSet(LAMBDA j : lines[j], 1..(i - 1))

(* The line that a focused column keeps in its window.                     *)
Aim(p, items, held, lines) ==
  {Target(items[i], p, Block(p, items[i].key), Start(lines, i), lines[i]) :
     i \in {i \in DOMAIN items : items[i].kind # "line" /\ items[i] \in held}}

Placed(p, items, plan, held, lines) ==
  [p EXCEPT !.plan = [i \in DOMAIN plan |-> [key |-> plan[i].key, kind |-> plan[i].kind]],
            !.block = Clamp(Clamp(@, Len(p.plan)), Len(plan)), !.len = Start(lines, Len(items) + 1),
            !.scroll = Scrolled(@, Aim(p, items, held, lines), Start(lines, Len(items) + 1))]

(* A draw of the detail d turns p into q.                                  *)
Draws(p, q, d, ext, focus) ==
  IF d = None THEN q = Empty(p, ext)
  ELSE \E items \in {Body(d)} :
       \E plan \in {Plan(items)} :
       \E held \in {Held(p, plan, focus)} :
       \E next \in {[p EXCEPT !.ext = ext,
                             !.blocks = Blocks(p, {i \in ToSet(items) : Searched(i, p)}, held, ext)]} :
       \E heights \in {Heights(next, d, items)} :
         q = Placed(next, items, plan, held, heights)

-----------------------------------------------------------------------------
(* Keys act on the plan of the last draw.                                  *)

Active(p) == {i \in DOMAIN p.plan : Block(p, p.plan[i].key).phase = "active"}

(* Mistake: Enter goes to the block that has the focus.                    *)
EnteredFocused(p, k) ==
  LET key == p.plan[p.block + 1].key IN
  IF p.plan = <<>> \/ key \notin DOMAIN p.blocks THEN p
  ELSE [p EXCEPT !.blocks[key] = Pressed(@, k, p.ext)]

(* Enter goes to the first block in a search.                              *)
Entered(p, k) ==
  IF Active(p) = {} THEN p
  ELSE [p EXCEPT !.blocks[p.plan[Min(Active(p))].key] = Pressed(@, k, p.ext)]

Handled(q, k) ==
  LET p == [q EXCEPT !.block = Clamp(@, Len(q.plan))]
      at == IF p.plan = <<>> THEN [key |-> "", kind |-> "none"] ELSE p.plan[p.block + 1]
      open == at.kind = "search" \/ (at.kind = "json" /\ p.raw)
      b == Block(p, at.key)
  IN IF open /\ b.phase = "active" /\ Takes(b, k, p.ext) THEN [p EXCEPT !.blocks[at.key] = Pressed(@, k, p.ext)]
     ELSE CASE k \in {"enter", "shift-enter"} -> Entered(p, k)
            [] k = "up" -> [p EXCEPT !.scroll = Drop(@, 1)]
            [] k = "down" -> [p EXCEPT !.scroll = Least(@ + 1, MaxScroll(p))]
            [] k = "home" -> [p EXCEPT !.scroll = 0]
            [] k = "end" -> [p EXCEPT !.scroll = MaxScroll(p)]
            [] k = "space" /\ at.kind = "metadata" -> [p EXCEPT !.meta = ~@]
            [] k = "space" /\ at.kind = "json" -> [p EXCEPT !.raw = ~@]
            [] k = "/" /\ open -> [p EXCEPT !.blocks = (at.key :> Pressed(b, k, p.ext)) @@ @]
            [] OTHER -> p

-----------------------------------------------------------------------------
(* A column that is added has the focus, and takes over what is selected   *)
(* and searched for.                                                       *)
Init ==
  /\ uses \in Habits
  /\ picked \in DOMAIN Tool \cup {None} /\ focused = TRUE
  /\ query \in {[query |-> q, caret |-> Len(q)] : q \in {<<>>} \cup {<<c>> : c \in Char}}
  /\ details = [s \in DOMAIN Tool |-> 0]
  /\ pane = [meta |-> FALSE, raw |-> FALSE, scroll |-> 0, block |-> 0, blocks |-> <<>>, plan |-> <<>>,
             len |-> 0, ext |-> <<>>]
  /\ event = "start" /\ inputs = 0

(* The event loop takes one event at a time and draws after each.          *)
Take(e) == event = "" /\ inputs < MaxInputs[uses] /\ event' = e /\ inputs' = inputs + 1

(* Another span is picked, by the user elsewhere or by follow mode.        *)
Select(s) ==
  /\ "pick" \in uses /\ s # picked /\ Take("config") /\ picked' = s
  /\ UNCHANGED <<uses, query, focused, details, pane>>

(* A key of the search box of a Spans column: each change goes to the      *)
(* detail columns at once, and Delete clears the text.                     *)
SearchFor(k) ==
  /\ "type" \in uses /\ ~focused /\ Take("config")
  /\ query' = IF k = "delete" THEN [query |-> <<>>, caret |-> 0] ELSE Edited(query, k)
  /\ query' # query /\ Len(query'.query) <= MaxQuery
  /\ UNCHANGED <<uses, picked, focused, details, pane>>

ShiftFocus ==
  /\ "type" \in uses /\ Take("config") /\ focused' = ~focused
  /\ UNCHANGED <<uses, picked, query, details, pane>>

Key(k) ==
  /\ "key" \in uses /\ focused /\ Take(k) /\ pane' = Handled(pane, k)
  /\ UNCHANGED <<uses, picked, query, focused, details>>

(* The detail of the span comes in, or more of it: the cache wakes the     *)
(* event loop, which may be about to draw what it took before.             *)
Fetched ==
  /\ picked # None /\ details[picked] < Len(Tool[picked])
  /\ details' = [details EXCEPT ![picked] = @ + 1]
  /\ event' = IF event = "" THEN "cache" ELSE event
  /\ UNCHANGED <<uses, picked, query, focused, pane, inputs>>

Redraw ==
  /\ event # "" /\ event' = ""
  /\ \E d \in {Detail(picked, details)} : Draws(pane, pane', d, query.query, focused)
  /\ UNCHANGED <<uses, picked, query, focused, details, inputs>>

Next ==
  \/ \E s \in DOMAIN Tool \cup {None} : Select(s)
  \/ \E k \in Char \cup {"backspace", "left", "right", "home", "end", "delete"} : SearchFor(k)
  \/ ShiftFocus
  \/ \E k \in {"up", "down", "home", "end", "space", "/", "enter", "shift-enter"} : Key(k)
  \/ Fetched
  \/ Redraw

Spec == Init /\ [][Next]_vars

-----------------------------------------------------------------------------
Now == Detail(picked, details)
Items == IF Now = None THEN <<>> ELSE Body(Now)
Searches == {i \in ToSet(Items) : Searched(i, pane)}
Drawing == event # ""

TypeOK ==
  /\ uses \in Habits /\ picked \in DOMAIN Tool \cup {None} /\ focused \in BOOLEAN
  /\ query.query \in Seq(Char) /\ query.caret \in 0..Len(query.query)
  /\ \A s \in DOMAIN Tool : details[s] \in 0..Len(Tool[s])
  /\ {pane.meta, pane.raw} \subseteq BOOLEAN /\ {pane.scroll, pane.block, pane.len} \subseteq Nat
  /\ \A k \in DOMAIN pane.blocks : pane.blocks[k].phase \in {"idle", "icon", "active"}

(* Every text on the screen is searched for what the search box has, and   *)
(* for nothing else: its count is that of the text it now holds, and its   *)
(* current match is one of them, whatever another span's text had.         *)
SearchesFit ==
  Drawing \/ \A i \in Searches :
    LET b == pane.blocks[i.key] IN
    /\ b.query = query.query /\ (b.phase = "active") = (query.query # <<>>)
    /\ b.count = Len(Located(i.text, query.query)) /\ b.at \in 0..Drop(b.count, 1) /\ b.pending = 0

(* The matches found are occurrences that do not overlap, and none is      *)
(* missed but for an overlap with one before it.                           *)
MatchesExact ==
  query.query # <<>> => \A i \in Searches :
    LET at == Located(i.text, query.query)
        n == Len(query.query)
    IN /\ \A k \in DOMAIN at : at[k] \in Hits(i.text, query.query) /\ (k > 1 => at[k - 1] + n <= at[k])
       /\ \A h \in Hits(i.text, query.query) : \E k \in DOMAIN at : at[k] <= h /\ h < at[k] + n

(* Wrapping loses and adds nothing: the rows have all the text but its     *)
(* line breaks in order, a row is only cut short by a line break, and only *)
(* an empty line makes an empty row.                                       *)
RowsExact ==
  \A i \in Searches : ~i.numbered =>
    LET rows == RowsOf(i)
        Break(p) == i.text[p] = "lf" \/ (i.text[p] = "cr" /\ p < Len(i.text) /\ i.text[p + 1] = "lf")
    IN /\ FlattenSeq(rows) = SelectSeq([p \in DOMAIN i.text |-> p], LAMBDA p : ~Break(p))
       /\ \A r \in DOMAIN rows : rows[r] # <<>> =>
            /\ Len(rows[r]) <= Width /\ Last(rows[r]) - rows[r][1] = Len(rows[r]) - 1
            /\ Len(rows[r]) = Width \/ Last(rows[r]) = Len(i.text) \/ Break(Last(rows[r]) + 1)
       /\ Cardinality({r \in DOMAIN rows : rows[r] = <<>>}) = Cardinality(
            {p \in DOMAIN i.text : i.text[p] = "lf" /\ (p = 1 \/ i.text[p - 1] = "lf"
               \/ (i.text[p - 1] = "cr" /\ (p = 2 \/ i.text[p - 2] = "lf")))})

(* The window never starts past the end of what there is to show.          *)
WindowFits == pane.scroll <= MaxScroll(pane)

(* Every argument that is a string is among the blocks of the column, or   *)
(* another spelling of the same one is: it is not left to the attributes.  *)
Spellings == {ToSet(PathNames), ToSet(OldNames), ToSet(NewNames \o BodyNames)}
ArgumentsShown ==
  Now # None /\ (Now.native \/ Now.external) =>
    LET given == {f.name : f \in {f \in ToSet(Fields(Now.args)) : f.string}}
        shown == UNION {i.of : i \in ToSet(Items)}
    IN \A name \in given \ shown : \E same \in Spellings : name \in same /\ same \cap shown # {}

(* A draw leaves nothing for a second one to change: the column never      *)
(* stays with something else than what is selected, searched for, loaded.  *)
Settles ==
  Drawing /\ event' = "" => Draws(pane', pane', Detail(picked, details), query.query, focused)

(* Enter steps through the matches of the first searched text and touches  *)
(* no other, no other key moves a match, and a draw only moves one that is *)
(* gone or that another search replaces.                                   *)
Matches ==
  LET At(p, k) == Block(p, k).at
      moved == {k \in DOMAIN pane.blocks : At(pane', k) # At(pane, k)}
      first == IF Active(pane) = {} THEN "" ELSE pane.plan[Min(Active(pane))].key
      n == IF first = "" THEN 0 ELSE Block(pane, first).count
      turn == IF event = "" /\ event' = "enter" THEN 1 ELSE IF event = "" /\ event' = "shift-enter" THEN -1 ELSE 0
  IN /\ event = "" /\ turn # 0 /\ n > 0 => At(pane', first) = (At(pane, first) + turn) % n
     /\ event = "" => moved \subseteq (IF turn = 0 THEN {} ELSE {first})
     /\ event # "" => \A k \in moved :
          \/ Block(pane', k).query # Block(pane, k).query
          \/ At(pane, k) >= Block(pane', k).count

(* What holds in every state, and what every step keeps to.                *)
Sound ==
  /\ TypeOK /\ SearchesFit /\ MatchesExact /\ RowsExact
  /\ WindowFits /\ ArgumentsShown
Keeps == Settles /\ Matches
=============================================================================

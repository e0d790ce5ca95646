---------------------------- MODULE SearchBlock -----------------------------
(***************************************************************************)
(* A block of text of a detail column that can be searched: how the text   *)
(* is wrapped, where a query is found in it, and the search the block is   *)
(* in.  Texts and queries are sequences of characters; "lf" and "cr" are   *)
(* the line feed and the carriage return, "A" is the upper case of "a" and *)
(* every other character is its own.                                       *)
(***************************************************************************)
EXTENDS Integers, Sequences, SequencesExt, FiniteSetsExt

Least(i, j) == IF i <= j THEN i ELSE j
Drop(i, j) == IF i <= j THEN 0 ELSE i - j      \* saturating_sub

-----------------------------------------------------------------------------
(* The rows of a text: each is the sequence of the positions in it.        *)

Breaks(text) == SetToSortSeq({i \in DOMAIN text : text[i] = "lf"}, <)

(* The lines between line feeds; one that a carriage return ends loses it, *)
(* and none comes after a line feed that ends the text.                    *)
Lines(text) ==
  LET at == Breaks(text)
      From(k) == IF k = 1 THEN 1 ELSE at[k - 1] + 1
      To(k) == IF k > Len(at) THEN Len(text)
               ELSE IF at[k] > From(k) /\ text[at[k] - 1] = "cr" THEN at[k] - 2 ELSE at[k] - 1
      all == [k \in 1..(Len(at) + 1) |-> [from |-> From(k), to |-> To(k)]]
  IN IF text = <<>> THEN <<>> ELSE IF text[Len(text)] = "lf" THEN Front(all) ELSE all

(* Mistake: a line that fills its last row is followed by an empty one.    *)
WrappedFlush(text, width) ==
  LET Rows(l) ==
        [r \in 1..((l.to - l.from + 1) \div width) + 1 |->
           [c \in 1..Least(width, l.to - l.from + 1 - (r - 1) * width) |-> l.from + (r - 1) * width + c - 1]]
  IN FlattenSeq([k \in DOMAIN Lines(text) |-> Rows(Lines(text)[k])])

Wrapped(text, width) ==
  LET Rows(l) ==
        IF l.to < l.from THEN << <<>> >>
        ELSE [r \in 1..((l.to - l.from) \div width) + 1 |->
                [c \in 1..Least(width, l.to - l.from + 1 - (r - 1) * width) |-> l.from + (r - 1) * width + c - 1]]
  IN FlattenSeq([k \in DOMAIN Lines(text) |-> Rows(Lines(text)[k])])

(* With line numbers beside it a text has one row per line, cut short.     *)
Numbered(text) ==
  LET at == Breaks(text)
      From(k) == IF k = 1 THEN 1 ELSE at[k - 1] + 1
      To(k) == IF k > Len(at) THEN Len(text) ELSE at[k] - 1
  IN [k \in 1..(Len(at) + 1) |-> [c \in 1..(To(k) - From(k) + 1) |-> From(k) + c - 1]]

Lower(char) == IF char = "A" THEN "a" ELSE char

Hits(text, q) ==
  {i \in 1..(Len(text) - Len(q) + 1) : \A j \in DOMAIN q : Lower(text[i + j - 1]) = Lower(q[j])}

(* Where the query is found, from the left and without an overlap.         *)
Located(text, q) ==
  IF q = <<>> THEN <<>>
  ELSE FoldLeft(LAMBDA found, i : IF found # <<>> /\ i < Last(found) + Len(q) THEN found ELSE Append(found, i),
                <<>>, SetToSortSeq(Hits(text, q), <))

-----------------------------------------------------------------------------
(* SearchableTextBlockState.  driven: the search is the column's.          *)

Fresh ==
  [phase |-> "idle", query |-> <<>>, caret |-> 0, at |-> 0, count |-> 0, pending |-> 0, driven |-> FALSE]

Reset(b) == [b EXCEPT !.query = <<>>, !.caret = 0, !.at = 0, !.count = 0, !.pending = 0]

Hinted(b, focused) ==
  IF b.phase = "active" THEN b ELSE [b EXCEPT !.phase = IF focused THEN "icon" ELSE "idle"]

(* Mistake: a search of the column goes on after the column has none.      *)
ReconciledOnce(b, ext, focused) ==
  Hinted(IF ext = <<>> THEN b
         ELSE IF b.query = ext THEN [b EXCEPT !.phase = "active", !.driven = TRUE]
         ELSE [b EXCEPT !.phase = "active", !.query = ext, !.caret = Len(ext), !.at = 0, !.pending = 0,
                        !.driven = TRUE],
         focused)

(* Before each draw the block takes on the column's search, or loses it.   *)
Reconciled(b, ext, focused) ==
  Hinted(IF ext # <<>>
         THEN IF b.query = ext THEN [b EXCEPT !.phase = "active", !.driven = TRUE]
              ELSE [b EXCEPT !.phase = "active", !.query = ext, !.caret = Len(ext), !.at = 0, !.pending = 0,
                             !.driven = TRUE]
         ELSE IF b.driven THEN [Reset(b) EXCEPT !.phase = "idle", !.driven = FALSE]
         ELSE b,
         focused)

(* The draw has found n matches; steps that were waiting for it are taken. *)
Counted(b, n) ==
  IF n = 0 THEN [b EXCEPT !.count = 0, !.at = 0, !.pending = 0]
  ELSE [b EXCEPT !.count = n, !.at = (Least(@, n - 1) + b.pending) % n, !.pending = 0]

(* Enter and Shift-Enter; before there is a match they wait for one.       *)
Cycled(b, step) ==
  IF b.count > 0 THEN [b EXCEPT !.at = (@ + step) % b.count]
  ELSE IF b.query # <<>> THEN [b EXCEPT !.pending = @ + step]
  ELSE b

(* The single line the query of the block's own search is typed into.      *)
Edited(b, k) ==
  CASE k = "backspace" -> IF b.caret = 0 THEN b
                          ELSE [b EXCEPT !.query = RemoveAt(@, b.caret), !.caret = @ - 1]
    [] k = "delete" -> IF b.caret >= Len(b.query) THEN b ELSE [b EXCEPT !.query = RemoveAt(@, b.caret + 1)]
    [] k = "left" -> [b EXCEPT !.caret = Drop(@, 1)]
    [] k = "right" -> [b EXCEPT !.caret = Least(@ + 1, Len(b.query))]
    [] k = "home" -> [b EXCEPT !.caret = 0]
    [] k = "end" -> [b EXCEPT !.caret = Len(b.query)]
    [] OTHER -> [b EXCEPT !.query = InsertAt(@, b.caret + 1, k), !.caret = @ + 1]

Typed(b, k) ==
  LET e == Edited(b, k) IN IF e.query = b.query THEN e ELSE [e EXCEPT !.at = 0, !.pending = 0]

Takes(b, k, ext) ==
  IF b.phase # "active" THEN k = "/" /\ ext = <<>>
  ELSE k \in {"enter", "shift-enter"} \/ (ext = <<>> /\ k \notin {"up", "down"})

Pressed(b, k, ext) ==
  IF ~Takes(b, k, ext) THEN b
  ELSE IF b.phase # "active" THEN [Reset(b) EXCEPT !.phase = "active"]
  ELSE CASE k = "enter" -> Cycled(b, 1)
         [] k = "shift-enter" -> Cycled(b, -1)
         [] k = "esc" -> [Reset(b) EXCEPT !.phase = "idle"]
         [] OTHER -> Typed(b, k)
=============================================================================

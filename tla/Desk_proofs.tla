----------------------------- MODULE Desk_proofs -----------------------------
(***************************************************************************)
(* The keyboard of the desk always has somewhere to go, the columns agree  *)
(* and a restart brings them back so, and what is deleted is what the      *)
(* prompt named, for any sessions, spans, layouts, bounds and habits.      *)
(***************************************************************************)
EXTENDS Desk, LeastNatural_proofs, SequenceTheorems, FiniteSetTheorems, TLAPS

Columns == Seq(ColumnState)

-----------------------------------------------------------------------------
(* Lists of columns.                                                       *)

\* What a list of columns holds at each of its positions.
LEMMA Entries ==
  ASSUME NEW cs \in Columns
  PROVE  /\ Len(cs) \in Nat /\ DOMAIN cs = 1..Len(cs)
         /\ \A i \in DOMAIN cs : cs[i] \in ColumnState
         /\ cs = <<>> <=> DOMAIN cs = {}
<1>1. Len(cs) \in Nat /\ DOMAIN cs = 1..Len(cs) /\ \A i \in 1..Len(cs) : cs[i] \in ColumnState
  BY LenProperties, ElementOfSeq DEF Columns
<1>2. cs # <<>> => Len(cs) \in Nat \ {0}
  BY EmptySeq DEF Columns
<1>3. cs = <<>> => Len(cs) = 0
  BY EmptySeq
<1>. QED
  BY <1>1, <1>2, <1>3

\* A list with other values at the same positions is a list.
LEMMA Reshaped ==
  ASSUME NEW cs \in Columns, NEW ds, ds = [i \in DOMAIN cs |-> ds[i]],
         \A i \in DOMAIN cs : ds[i] \in ColumnState
  PROVE  ds \in Columns
<1>1. Len(cs) \in Nat /\ DOMAIN cs = 1..Len(cs)
  BY Entries
<1>2. ds \in [1..Len(cs) -> ColumnState]
  BY <1>1
<1>. QED
  BY <1>1, <1>2, SeqDef DEF Columns

\* The same columns in the same places, whatever they show.
Alike(cs, ds) ==
  /\ ds \in Columns /\ DOMAIN ds = DOMAIN cs
  /\ \A i \in DOMAIN cs : ds[i].id = cs[i].id /\ ds[i].type = cs[i].type

LEMMA AlikeOwned ==
  ASSUME NEW cs \in Columns, NEW ds, Alike(cs, ds), NEW n, Owned(cs, n)
  PROVE  Owned(ds, n) /\ Ids(ds) = Ids(cs) /\ (ds = <<>> <=> cs = <<>>)
<1>1. Owned(ds, n)
  BY DEF Alike, Owned
<1>2. Ids(ds) = Ids(cs)
  BY DEF Alike, Ids
<1>. QED
  BY <1>1, <1>2, Entries DEF Alike

-----------------------------------------------------------------------------
(* What effects do to the columns keeps them coherent.                     *)

\* A session picked in a Spans or a Sessions column.
LEMMA SessionSpread ==
  ASSUME NEW cs \in Columns, NEW n, NEW apart, Coherent(cs, n, apart), NEW c \in Session,
         NEW i \in DOMAIN cs, cs[i].type \in {"spans", "live_sessions"}
  PROVE  /\ Alike(cs, PropagateSession(cs, i, c))
         /\ Coherent(PropagateSession(cs, i, c), n, apart)
<1>. DEFINE ds == PropagateSession(cs, i, c)
            Col(j) == IF j = i \/ cs[j].type \in Dependent
                      THEN [cs[j] EXCEPT !.session = c] ELSE cs[j]
<1>1. \A j \in DOMAIN cs : cs[j] \in ColumnState
  BY Entries
<1>2. ASSUME NEW j \in DOMAIN cs
      PROVE  /\ Col(j) \in ColumnState /\ Col(j).id = cs[j].id /\ Col(j).type = cs[j].type
             /\ Col(j).session = (IF j = i \/ cs[j].type \in Dependent THEN c ELSE cs[j].session)
             /\ Col(j).span = cs[j].span /\ Col(j).call = cs[j].call /\ Col(j).query = cs[j].query
  <2>1. cs[j] \in ColumnState /\ c \in or(Session)
    BY <1>1 DEF or
  <2>2. CASE j = i \/ cs[j].type \in Dependent
    BY <2>1, <2>2 DEF ColumnState
  <2>3. CASE ~(j = i \/ cs[j].type \in Dependent)
    BY <2>1, <2>3
  <2>. QED
    BY <2>2, <2>3
<1>3. DOMAIN ds = DOMAIN cs /\ \A j \in DOMAIN cs : ds[j] = Col(j)
  BY DEF PropagateSession
<1>4. ds = [j \in DOMAIN cs |-> ds[j]]
  BY DEF PropagateSession
<1>. HIDE DEF ds, Col
<1>11. ds \in Columns
  BY <1>2, <1>3, <1>4, Reshaped
<1>5. Alike(cs, ds)
  BY <1>2, <1>3, <1>11 DEF Alike
<1>6. Owned(ds, n)
  BY <1>5, AlikeOwned DEF Coherent
<1>7. Bearers(ds)
  BY <1>2, <1>3 DEF Bearers, Coherent, Dependent
<1>8. OneSearch(ds)
  BY <1>2, <1>3 DEF OneSearch, Coherent
<1>9. KindsFit(ds)
  BY <1>2, <1>3 DEF KindsFit, Fits, Coherent
<1>10. OneSession(ds)
  BY <1>2, <1>3 DEF OneSession
<1>. QED
  BY <1>5, <1>6, <1>7, <1>8, <1>9, <1>10 DEF Coherent, ds

\* A session that is deleted is taken off every column.
LEMMA SessionCleared ==
  ASSUME NEW cs \in Columns, NEW n, NEW apart, Coherent(cs, n, apart), NEW c \in Session
  PROVE  /\ Alike(cs, ClearSession(cs, c))
         /\ Coherent(ClearSession(cs, c), n, apart)
         /\ \A j \in DOMAIN cs : ClearSession(cs, c)[j].session # c
<1>. DEFINE ds == ClearSession(cs, c)
<1>1. \A j \in DOMAIN cs : cs[j] \in ColumnState
  BY Entries
<1>2. /\ DOMAIN ds = DOMAIN cs /\ ds = [j \in DOMAIN cs |-> ds[j]]
      /\ \A j \in DOMAIN cs :
           ds[j] = IF cs[j].session = c
                   THEN [cs[j] EXCEPT !.session = None, !.span = None, !.call = None] ELSE cs[j]
  BY DEF ClearSession
<1>. HIDE DEF ds
<1>3. ASSUME NEW j \in DOMAIN cs
      PROVE  /\ ds[j] \in ColumnState /\ ds[j].id = cs[j].id /\ ds[j].type = cs[j].type
             /\ ds[j].query = cs[j].query
             /\ IF cs[j].session = c
                THEN ds[j].session = None /\ ds[j].span = None /\ ds[j].call = None
                ELSE ds[j] = cs[j]
  <2>1. CASE cs[j].session = c
    BY <1>1, <1>2, <2>1 DEF ColumnState, or
  <2>2. CASE cs[j].session # c
    BY <1>1, <1>2, <2>2
  <2>. QED
    BY <2>1, <2>2
<1>12. \A j \in DOMAIN cs : ds[j].type = cs[j].type /\ ds[j].query = cs[j].query
  BY <1>3
<1>13. ASSUME NEW j \in DOMAIN cs, Fits(cs[j])
       PROVE  Fits(ds[j])
  <2>1. CASE cs[j].session = c
    BY <1>3, <2>1 DEF Fits
  <2>2. CASE cs[j].session # c
    BY <1>3, <1>13, <2>2
  <2>. QED
    BY <2>1, <2>2
<1>14. \A j \in DOMAIN cs : ds[j].session = IF cs[j].session = c THEN None ELSE cs[j].session
  BY <1>3
<1>4. ds \in Columns
  BY <1>2, <1>3, Reshaped
<1>5. Alike(cs, ds)
  BY <1>2, <1>3, <1>4 DEF Alike
<1>6. Owned(ds, n)
  BY <1>5, AlikeOwned DEF Coherent
<1>7. Bearers(ds)
  BY <1>2, <1>3 DEF Bearers, Coherent
<1>8. OneSearch(ds)
  <2>. SUFFICES ASSUME NEW j \in DOMAIN cs, NEW k \in DOMAIN cs,
                       {ds[j].type, ds[k].type} \subseteq Detail
                PROVE  ds[j].query = ds[k].query
    BY <1>2 DEF OneSearch
  <2>1. {cs[j].type, cs[k].type} \subseteq Detail
    BY <1>12
  <2>2. cs[j].query = cs[k].query
    BY <2>1 DEF OneSearch, Coherent
  <2>. QED
    BY <1>12, <2>2
<1>9. KindsFit(ds)
  BY <1>2, <1>3, <1>13 DEF KindsFit, Coherent
<1>10. ~apart => OneSession(ds)
  <2>. SUFFICES ASSUME ~apart, NEW j \in DOMAIN cs, NEW k \in DOMAIN cs,
                       {ds[j].type, ds[k].type} \subseteq Dependent
                PROVE  ds[j].session = ds[k].session
    BY <1>2 DEF OneSession
  <2>1. {cs[j].type, cs[k].type} \subseteq Dependent
    BY <1>12
  <2>2. cs[j].session = cs[k].session
    BY <2>1 DEF OneSession, Coherent
  <2>. QED
    BY <1>14, <2>2
<1>11. \A j \in DOMAIN cs : ds[j].session # c
  BY <1>3, DeskAssumption
<1>. QED
  BY <1>5, <1>6, <1>7, <1>8, <1>9, <1>10, <1>11 DEF Coherent, ds

\* A search typed in a Spans column.
LEMMA SearchSpread ==
  ASSUME NEW cs \in Columns, NEW n, NEW apart, Coherent(cs, n, apart), NEW q \in Query
  PROVE  /\ Alike(cs, PropagateSearch(cs, q))
         /\ Coherent(PropagateSearch(cs, q), n, apart)
<1>. DEFINE ds == PropagateSearch(cs, q)
<1>1. \A j \in DOMAIN cs : cs[j] \in ColumnState
  BY Entries
<1>2. /\ DOMAIN ds = DOMAIN cs /\ ds = [j \in DOMAIN cs |-> ds[j]]
      /\ \A j \in DOMAIN cs :
           ds[j] = IF cs[j].type \in Detail THEN [cs[j] EXCEPT !.query = q] ELSE cs[j]
  BY DEF PropagateSearch
<1>. HIDE DEF ds
<1>3. ASSUME NEW j \in DOMAIN cs
      PROVE  /\ ds[j] \in ColumnState /\ ds[j].id = cs[j].id /\ ds[j].type = cs[j].type
             /\ ds[j].session = cs[j].session /\ ds[j].span = cs[j].span
             /\ ds[j].call = cs[j].call
             /\ ds[j].query = IF cs[j].type \in Detail THEN q ELSE cs[j].query
  <2>1. CASE cs[j].type \in Detail
    BY <1>1, <1>2, <2>1 DEF ColumnState, or
  <2>2. CASE cs[j].type \notin Detail
    BY <1>1, <1>2, <2>2
  <2>. QED
    BY <2>1, <2>2
<1>4. ds \in Columns
  BY <1>2, <1>3, Reshaped
<1>5. Alike(cs, ds)
  BY <1>2, <1>3, <1>4 DEF Alike
<1>6. Owned(ds, n)
  BY <1>5, AlikeOwned DEF Coherent
<1>7. Bearers(ds)
  BY <1>2, <1>3 DEF Bearers, Coherent
<1>8. OneSearch(ds)
  BY <1>2, <1>3 DEF OneSearch
<1>9. KindsFit(ds)
  BY <1>2, <1>3 DEF KindsFit, Fits, Coherent
<1>10. ~apart => OneSession(ds)
  BY <1>2, <1>3 DEF OneSession, Coherent
<1>. QED
  BY <1>5, <1>6, <1>7, <1>8, <1>9, <1>10 DEF Coherent, ds

\* A column that takes a pick keeps its place, its session and its search,
\* and a detail column still fits.
LEMMA Taken ==
  ASSUME NEW col \in ColumnState, NEW s \in Span, NEW route \in Routes(s)
  PROVE  /\ \A new \in {ChatTakes(col, s, route), OtherTakes(col, s)} :
              /\ new \in ColumnState /\ new.id = col.id /\ new.type = col.type
              /\ new.session = col.session /\ new.query = col.query
         /\ col.type = "chat_detail" /\ Fits(col) => Fits(ChatTakes(col, s, route))
         /\ col.type = "tool_detail" /\ Kind[s] = "execute_tool" => Fits(OtherTakes(col, s))
<1>1. s \in or(Span) /\ CallOf[s] \in or(Call) /\ None \in or(Call)
  BY DeskAssumption DEF or
<1>2. /\ route \in or(Span)
      /\ route # None => Kind[route] = "chat" /\ Home[route] = Home[s]
  BY DEF Routes, or
<1>3. PICK chat : chat = ChatTakes(col, s, route)
  OBVIOUS
<1>4. /\ chat \in ColumnState /\ chat.id = col.id /\ chat.type = col.type
      /\ chat.session = col.session /\ chat.query = col.query
      /\ \/ chat = col
         \/ Kind[s] = "chat" /\ chat.span = s /\ chat.call = None
         \/ route # None /\ chat.span = route /\ chat.call \in {None, CallOf[s]}
  <2>1. CASE Kind[s] = "chat"
    BY <1>1, <1>3, <2>1 DEF ChatTakes, ColumnState
  <2>2. CASE Kind[s] = "execute_tool" /\ route # None
    BY <1>1, <1>2, <1>3, <2>2 DEF ChatTakes, ColumnState
  <2>3. CASE Kind[s] = "invoke_agent" /\ route # None
    BY <1>1, <1>2, <1>3, <2>3 DEF ChatTakes, ColumnState
  <2>4. CASE Kind[s] # "chat" /\ ~(Kind[s] \in {"execute_tool", "invoke_agent"} /\ route # None)
    <3>1. chat = col
      BY <1>3, <2>4 DEF ChatTakes
    <3>. QED
      BY <3>1
  <2>. QED
    BY <2>1, <2>2, <2>3, <2>4
<1>5. PICK other : other = OtherTakes(col, s)
  OBVIOUS
<1>6. /\ other \in ColumnState /\ other.id = col.id /\ other.type = col.type
      /\ other.session = col.session /\ other.query = col.query /\ other.span = s
  BY <1>1, <1>5 DEF OtherTakes, ColumnState
<1>7. ASSUME col.type = "chat_detail", Fits(col)
      PROVE  Fits(chat)
  <2>1. CASE chat = col
    BY <1>7, <2>1
  <2>2. CASE Kind[s] = "chat" /\ chat.span = s /\ chat.call = None
    BY <1>4, <1>7, <2>2 DEF Fits
  <2>3. CASE route # None /\ chat.span = route /\ chat.call \in {None, CallOf[s]}
    BY <1>2, <1>4, <1>7, <2>3 DEF Fits
  <2>. QED
    BY <1>4, <2>1, <2>2, <2>3
<1>8. col.type = "tool_detail" /\ Kind[s] = "execute_tool" => Fits(other)
  BY <1>6 DEF Fits
<1>. QED
  BY <1>3, <1>4, <1>5, <1>6, <1>7, <1>8

\* A pick in a Spans column, or on a bar of the widget.
LEMMA SelectionSpread ==
  ASSUME NEW cs \in Columns, NEW n, NEW apart, Coherent(cs, n, apart),
         NEW i, i \in DOMAIN cs => cs[i].type = "spans", NEW s \in Span, NEW route \in Routes(s)
  PROVE  /\ Alike(cs, PropagateSelection(cs, i, s, route))
         /\ Coherent(PropagateSelection(cs, i, s, route), n, apart)
         /\ Lasting(PropagateSelection(cs, i, s, route)) = Lasting(cs)
<1>. DEFINE ds == PropagateSelection(cs, i, s, route)
<1>1. \A j \in DOMAIN cs : cs[j] \in ColumnState
  BY Entries
<1>2. /\ DOMAIN ds = DOMAIN cs /\ ds = [j \in DOMAIN cs |-> ds[j]]
      /\ \A j \in DOMAIN cs :
           /\ cs[j].type = "chat_detail" => ds[j] = ChatTakes(cs[j], s, route)
           /\ cs[j].type # "chat_detail" =>
                IF j = i \/ cs[j].type \in Allow(Kind[s])
                THEN ds[j] = OtherTakes(cs[j], s) ELSE ds[j] = cs[j]
  <2>1. DOMAIN ds = DOMAIN cs /\ ds = [j \in DOMAIN cs |-> ds[j]]
    BY DEF PropagateSelection
  <2>2. \A j \in DOMAIN cs :
          ds[j] = IF cs[j].type = "chat_detail" THEN ChatTakes(cs[j], s, route)
                  ELSE IF j = i \/ cs[j].type \in Allow(Kind[s]) THEN OtherTakes(cs[j], s)
                  ELSE cs[j]
    BY DEF PropagateSelection
  <2>. HIDE DEF ds
  <2>3. ASSUME NEW j \in DOMAIN cs, cs[j].type = "chat_detail"
        PROVE  ds[j] = ChatTakes(cs[j], s, route)
    BY <2>2, <2>3
  <2>4. ASSUME NEW j \in DOMAIN cs, cs[j].type # "chat_detail"
        PROVE  IF j = i \/ cs[j].type \in Allow(Kind[s])
               THEN ds[j] = OtherTakes(cs[j], s) ELSE ds[j] = cs[j]
    BY <2>2, <2>4
  <2>. QED
    BY <2>1, <2>3, <2>4
<1>. HIDE DEF ds
<1>3. ASSUME NEW j \in DOMAIN cs
      PROVE  /\ ds[j] \in ColumnState /\ ds[j].id = cs[j].id /\ ds[j].type = cs[j].type
             /\ ds[j].session = cs[j].session /\ ds[j].query = cs[j].query
             /\ cs[j].type \in Detail /\ Fits(cs[j]) => Fits(ds[j])
  <2>1. PICK col : col = cs[j]
    OBVIOUS
  <2>2. col \in ColumnState
    BY <1>1, <2>1
  <2>3. CASE col.type = "chat_detail"
    <3>1. ds[j] = ChatTakes(col, s, route)
      BY <1>2, <2>1, <2>3
    <3>. QED
      BY <2>1, <2>2, <2>3, <3>1, Taken
  <2>4. CASE col.type # "chat_detail" /\ (j = i \/ col.type \in Allow(Kind[s]))
    <3>1. ds[j] = OtherTakes(col, s)
      BY <1>2, <2>1, <2>4
    <3>2. col.type \in Detail => col.type = "tool_detail" /\ Kind[s] = "execute_tool"
      BY <2>1, <2>4, DeskAssumption DEF Allow, Detail
    <3>. QED
      BY <2>1, <2>2, <3>1, <3>2, Taken
  <2>5. CASE col.type # "chat_detail" /\ ~(j = i \/ col.type \in Allow(Kind[s]))
    <3>1. ds[j] = col
      BY <1>2, <2>1, <2>5
    <3>. QED
      BY <2>1, <2>2, <3>1
  <2>. QED
    BY <2>3, <2>4, <2>5
<1>4. ds \in Columns
  BY <1>2, <1>3, Reshaped
<1>5. Alike(cs, ds)
  BY <1>2, <1>3, <1>4 DEF Alike
<1>6. Owned(ds, n)
  BY <1>5, AlikeOwned DEF Coherent
<1>7. Bearers(ds)
  BY <1>2, <1>3 DEF Bearers, Coherent
<1>8. OneSearch(ds)
  BY <1>2, <1>3 DEF OneSearch, Coherent
<1>9. KindsFit(ds)
  BY <1>2, <1>3 DEF KindsFit, Coherent
<1>10. ~apart => OneSession(ds)
  BY <1>2, <1>3 DEF OneSession, Coherent
<1>11. Lasting(ds) = Lasting(cs)
  BY <1>2, <1>3 DEF Lasting
<1>. QED
  BY <1>5, <1>6, <1>7, <1>8, <1>9, <1>10, <1>11 DEF Coherent, ds

-----------------------------------------------------------------------------
(* Columns added, removed and moved.                                       *)

\* What a new column copies is what some other column has, if any has it.
LEMMA FirstWithIs ==
  ASSUME NEW cs \in Columns, NEW n, NEW key
  PROVE  \/ FirstWith(cs, n, key) = None /\ \A j \in DOMAIN cs \ {n} : cs[j][key] = None
         \/ \E j \in DOMAIN cs \ {n} : cs[j][key] # None /\ FirstWith(cs, n, key) = cs[j][key]
<1>. DEFINE having == {j \in DOMAIN cs \ {n} : cs[j][key] # None}
<1>1. having \in SUBSET Nat
  BY Entries
<1>2. FirstWith(cs, n, key) =
        IF having = {} THEN None ELSE cs[CHOOSE j \in having : \A m \in having : j <= m][key]
  BY DEF FirstWith
<1>3. CASE having = {}
  BY <1>2, <1>3
<1>4. CASE having # {}
  <2>. HIDE DEF having
  <2>1. \E j \in having : \A m \in having : j <= m
    BY <1>1, <1>4, LeastNatural
  <2>2. PICK j : j = CHOOSE i \in having : \A m \in having : i <= m
    OBVIOUS
  <2>3. j \in having
    BY <2>1, <2>2
  <2>4. FirstWith(cs, n, key) = cs[j][key]
    BY <1>2, <1>4, <2>2
  <2>. QED
    BY <2>3, <2>4 DEF having
<1>. QED
  BY <1>3, <1>4

LEMMA Copied ==
  ASSUME NEW cs \in Columns, NEW n \in Nat
  PROVE  /\ \/ FirstWith(cs, n, "session") = None /\ \A j \in DOMAIN cs \ {n} : cs[j].session = None
            \/ \E j \in DOMAIN cs \ {n} :
                 cs[j].session # None /\ FirstWith(cs, n, "session") = cs[j].session
         /\ \/ FirstWith(cs, n, "query") = None /\ \A j \in DOMAIN cs \ {n} : cs[j].query = None
            \/ \E j \in DOMAIN cs \ {n} :
                 cs[j].query # None /\ FirstWith(cs, n, "query") = cs[j].query
BY FirstWithIs

\* A new column follows the session and the search of the columns it will
\* have to agree with.
LEMMA Inherited ==
  ASSUME NEW cs \in Columns, NEW n \in DOMAIN cs
  PROVE  /\ Inherit(cs, n) \in ColumnState
         /\ Inherit(cs, n).id = cs[n].id /\ Inherit(cs, n).type = cs[n].type
         /\ Inherit(cs, n).session =
              IF cs[n].type \in Dependent THEN FirstWith(cs, n, "session") ELSE None
         /\ Inherit(cs, n).query =
              IF cs[n].type \in Detail THEN FirstWith(cs, n, "query") ELSE None
<1>1. \A j \in DOMAIN cs : cs[j] \in ColumnState
  BY Entries
<1>2. FirstWith(cs, n, "session") \in or(Session)
  BY <1>1, FirstWithIs DEF ColumnState, or
<1>3. FirstWith(cs, n, "span") \in or(Span)
  BY <1>1, FirstWithIs DEF ColumnState, or
<1>4. FirstWith(cs, n, "call") \in or(Call)
  BY <1>1, FirstWithIs DEF ColumnState, or
<1>5. FirstWith(cs, n, "query") \in or(Query)
  BY <1>1, FirstWithIs DEF ColumnState, or
<1>6. PICK t : t = cs[n].type
  OBVIOUS
<1>7. PICK c \in or(Session) : c = IF t \in Dependent THEN FirstWith(cs, n, "session") ELSE None
  BY <1>2 DEF or
<1>8. PICK s \in or(Span) : s = IF t \in {"spans"} \cup Detail THEN FirstWith(cs, n, "span") ELSE None
  BY <1>3 DEF or
<1>9. PICK k \in or(Call) : k = IF t \in {"spans"} \cup Detail THEN FirstWith(cs, n, "call") ELSE None
  BY <1>4 DEF or
<1>10. PICK q \in or(Query) : q = IF t \in Detail THEN FirstWith(cs, n, "query") ELSE None
  BY <1>5 DEF or
<1>11. Inherit(cs, n) = [cs[n] EXCEPT !.session = c, !.span = s, !.call = k, !.query = q]
  BY <1>6, <1>7, <1>8, <1>9, <1>10 DEF Inherit
<1>. QED
  BY <1>1, <1>6, <1>7, <1>10, <1>11 DEF ColumnState

\* A column that follows the others in key has the value of one of them, if
\* there is one; a column that does not has none.
Copies(cs, value, key, follows) ==
  \/ value = None /\ \A j \in DOMAIN cs : follows => cs[j][key] = None
  \/ follows /\ \E j \in DOMAIN cs : cs[j][key] # None /\ value = cs[j][key]

\* ds is cs with, at n, a column of type t and number m that takes its session
\* and its search from the others.
Joins(cs, ds, n, t, m) ==
  /\ DOMAIN ds = DOMAIN cs \cup {n} /\ \A i \in DOMAIN cs : ds[i] = cs[i]
  /\ ds[n].id[1] = t /\ ds[n].id[2] = m /\ ds[n].type = t
  /\ Copies(cs, ds[n].query, "query", t \in Detail)
  /\ Copies(cs, ds[n].session, "session", t \in Dependent)

\* One more column leaves the columns coherent.
LEMMA Joined ==
  ASSUME NEW cs \in Columns, NEW m \in Nat, NEW k \in Nat, NEW apart, NEW after,
         NEW t, NEW ds, NEW n,
         Coherent(cs, m, apart), ~after => ~apart /\ ~Gone(cs), m < k, Joins(cs, ds, n, t, m)
  PROVE  Coherent(ds, k, after)
<1>. DOMAIN ds = DOMAIN cs \cup {n} /\ \A i \in DOMAIN cs : ds[i] = cs[i]
  BY DEF Joins
<1>. ds[n].id[1] = t /\ ds[n].id[2] = m /\ ds[n].type = t
  BY DEF Joins
<1>. Copies(cs, ds[n].query, "query", t \in Detail) /\ Copies(cs, ds[n].session, "session", t \in Dependent)
  BY DEF Joins
<1>1. Owned(ds, k)
  <2>1. /\ m >= 1
        /\ \A i \in DOMAIN cs : cs[i].id[1] = cs[i].type /\ cs[i].id[2] < m
        /\ \A i, j \in DOMAIN cs : i # j => cs[i].id # cs[j].id
    BY DEF Coherent, Owned
  <2>2. \A i \in DOMAIN cs : cs[i].id[2] \in Nat
    <3>1. \A i \in DOMAIN cs : cs[i] \in ColumnState
      BY Entries
    <3>. QED
      BY <3>1 DEF ColumnState
  <2>3. \A i \in DOMAIN cs : cs[i].id[2] # m /\ cs[i].id[2] < k
    BY <2>1, <2>2
  <2>4. \A i \in DOMAIN ds : ds[i].id[1] = ds[i].type /\ ds[i].id[2] < k
    BY <2>1, <2>3
  <2>5. \A i \in DOMAIN cs : i # n => cs[i].id # ds[n].id
    BY <2>3
  <2>6. ASSUME NEW i \in DOMAIN ds, NEW j \in DOMAIN ds, i # j
        PROVE  ds[i].id # ds[j].id
    <3>1. CASE i = n
      BY <2>5, <2>6, <3>1
    <3>2. CASE j = n
      BY <2>5, <2>6, <3>2
    <3>3. CASE i # n /\ j # n
      BY <2>1, <2>6, <3>3
    <3>. QED
      BY <3>1, <3>2, <3>3
  <2>. QED
    BY <2>1, <2>4, <2>6 DEF Owned
<1>2. Bearers(ds)
  <2>1. ASSUME NEW i \in DOMAIN cs
        PROVE  /\ cs[i].session # None => cs[i].type \in Dependent \cup {"live_sessions"}
               /\ cs[i].query # None => cs[i].type \in Detail
    BY DEF Coherent, Bearers
  <2>2. ds[n].session # None => t \in Dependent
    BY DEF Copies
  <2>3. ds[n].query # None => t \in Detail
    BY DEF Copies
  <2>. QED
    BY <2>1, <2>2, <2>3 DEF Bearers
<1>3. OneSearch(ds)
  <2>1. ASSUME t \in Detail, NEW j \in DOMAIN cs, cs[j].type \in Detail
        PROVE  cs[j].query = ds[n].query
    <3>1. CASE \A l \in DOMAIN cs : cs[l].query = None
      BY <2>1, <3>1 DEF Copies
    <3>2. CASE ~\A l \in DOMAIN cs : cs[l].query = None
      <4>1. PICK l \in DOMAIN cs : cs[l].query # None /\ ds[n].query = cs[l].query
        BY <2>1, <3>2 DEF Copies
      <4>2. cs[l].type \in Detail
        BY <4>1 DEF Coherent, Bearers
      <4>. QED
        BY <2>1, <4>1, <4>2 DEF Coherent, OneSearch
    <3>. QED
      BY <3>1, <3>2
  <2>2. \A i, j \in DOMAIN cs : cs[i].type \in Detail /\ cs[j].type \in Detail => cs[i].query = cs[j].query
    BY DEF Coherent, OneSearch
  <2>3. ASSUME NEW i \in DOMAIN ds, NEW j \in DOMAIN ds, ds[i].type \in Detail, ds[j].type \in Detail
        PROVE  ds[i].query = ds[j].query
    BY <2>1, <2>2, <2>3
  <2>. QED
    BY <2>3 DEF OneSearch
<1>4. KindsFit(ds)
  <2>1. m # 0
    BY DEF Coherent, Owned
  <2>2. \A i \in DOMAIN cs : cs[i].id[2] = 0 /\ cs[i].type \in Detail => Fits(cs[i])
    BY DEF Coherent, KindsFit
  <2>. QED
    BY <2>1, <2>2 DEF KindsFit
<1>5. ASSUME ~after
      PROVE  OneSession(ds)
  <2>1. ~Gone(cs) /\ OneSession(cs)
    BY <1>5 DEF Coherent
  <2>2. ASSUME t \in Dependent, NEW j \in DOMAIN cs, cs[j].type \in Dependent
        PROVE  cs[j].session = ds[n].session
    <3>1. CASE \A l \in DOMAIN cs : cs[l].session = None
      BY <2>2, <3>1 DEF Copies
    <3>2. CASE ~\A l \in DOMAIN cs : cs[l].session = None
      <4>1. PICK l \in DOMAIN cs : cs[l].session # None /\ ds[n].session = cs[l].session
        BY <2>2, <3>2 DEF Copies
      <4>2. cs[l].type \in Dependent \cup {"live_sessions"}
        BY <4>1 DEF Coherent, Bearers
      <4>3. cs[l].session = cs[j].session
        BY <2>1, <2>2, <4>2 DEF OneSession, Gone
      <4>. QED
        BY <4>1, <4>3
    <3>. QED
      BY <3>1, <3>2
  <2>3. \A i, j \in DOMAIN cs : cs[i].type \in Dependent /\ cs[j].type \in Dependent => cs[i].session = cs[j].session
    BY <2>1 DEF OneSession
  <2>4. ASSUME NEW i \in DOMAIN ds, NEW j \in DOMAIN ds, ds[i].type \in Dependent, ds[j].type \in Dependent
        PROVE  ds[i].session = ds[j].session
    BY <2>2, <2>3, <2>4
  <2>. QED
    BY <2>4 DEF OneSession
<1>. QED
  BY <1>1, <1>2, <1>3, <1>4, <1>5 DEF Coherent

\* The columns and a new one of type t with the id <<t, m>>.
Added(cs, t, m) ==
  LET grown == Append(cs, Bare(t, m))
      n == Len(cs) + 1
  IN  [grown EXCEPT ![n] = Inherit(grown, n)]

\* An added column agrees with the rest, unless a Sessions column was left
\* on another session.
LEMMA AddedAgrees ==
  ASSUME NEW cs \in Columns, NEW m \in Nat, NEW apart, Coherent(cs, m, apart),
         NEW after, ~after => ~apart /\ ~Gone(cs), NEW t \in Type
  PROVE  /\ Added(cs, t, m) \in Columns /\ DOMAIN Added(cs, t, m) = 1..(Len(cs) + 1)
         /\ Coherent(Added(cs, t, m), m + 1, after)
<1>1. PICK grown : grown = Append(cs, Bare(t, m))
  OBVIOUS
<1>2. PICK n \in Nat : n = Len(cs) + 1
  BY Entries
<1>3. PICK ds : ds = Added(cs, t, m)
  OBVIOUS
<1>4. ds = [grown EXCEPT ![n] = Inherit(grown, n)]
  BY <1>1, <1>2, <1>3 DEF Added
<1>5. /\ grown \in Columns /\ n \in DOMAIN grown
      /\ DOMAIN grown = 1..n /\ DOMAIN grown = DOMAIN cs \cup {n} /\ DOMAIN grown \ {n} = DOMAIN cs
      /\ \A i \in DOMAIN cs : i # n /\ grown[i] = cs[i]
      /\ grown[n].id = <<t, m>> /\ grown[n].type = t
  <2>1. PICK new : new = Bare(t, m)
    OBVIOUS
  <2>2. new \in ColumnState /\ new.id = <<t, m>> /\ new.type = t
    BY <2>1 DEF Bare, ColumnState, or
  <2>3. grown = Append(cs, new)
    BY <1>1, <2>1
  <2>4. /\ grown \in Columns /\ Len(grown) = Len(cs) + 1
        /\ \A i \in 1..Len(cs) : grown[i] = cs[i]
        /\ grown[Len(cs) + 1] = new
    BY <2>2, <2>3, AppendProperties DEF Columns
  <2>5. DOMAIN cs = 1..Len(cs) /\ Len(cs) \in Nat /\ DOMAIN grown = 1..Len(grown)
    BY <2>4, Entries
  <2>6. /\ DOMAIN grown = 1..n /\ n \in DOMAIN grown
        /\ DOMAIN grown = DOMAIN cs \cup {n} /\ DOMAIN grown \ {n} = DOMAIN cs
        /\ \A i \in DOMAIN cs : i # n
    BY <1>2, <2>4, <2>5
  <2>7. (\A i \in DOMAIN cs : grown[i] = cs[i]) /\ grown[n] = new
    BY <1>2, <2>4, <2>5
  <2>. QED
    BY <2>2, <2>4, <2>6, <2>7
<1>6. PICK new : new = Inherit(grown, n)
  OBVIOUS
<1>7. /\ new \in ColumnState /\ new.id = <<t, m>> /\ new.type = t
      /\ new.session = IF t \in Dependent THEN FirstWith(grown, n, "session") ELSE None
      /\ new.query = IF t \in Detail THEN FirstWith(grown, n, "query") ELSE None
  <2>1. grown \in Columns /\ n \in DOMAIN grown
    BY <1>5
  <2>2. /\ new \in ColumnState /\ new.id = grown[n].id /\ new.type = grown[n].type
        /\ new.session = IF grown[n].type \in Dependent THEN FirstWith(grown, n, "session") ELSE None
        /\ new.query = IF grown[n].type \in Detail THEN FirstWith(grown, n, "query") ELSE None
    BY <1>6, <2>1, Inherited
  <2>. QED
    BY <1>5, <2>2
<1>8. /\ ds = [i \in DOMAIN grown |-> ds[i]] /\ DOMAIN ds = DOMAIN grown /\ ds[n] = new
      /\ \A i \in DOMAIN cs : ds[i] = cs[i]
  <2>1. ds = [grown EXCEPT ![n] = new]
    BY <1>4, <1>6
  <2>. QED
    BY <1>5, <2>1
<1>9. ds \in Columns
  <2>1. \A i \in DOMAIN cs : cs[i] \in ColumnState
    BY Entries
  <2>2. \A i \in DOMAIN grown : ds[i] \in ColumnState
    BY <1>5, <1>7, <1>8, <2>1
  <2>3. grown \in Columns /\ ds = [i \in DOMAIN grown |-> ds[i]]
    BY <1>5, <1>8
  <2>. QED
    BY <2>2, <2>3, Reshaped
<1>10. \A j \in DOMAIN cs : grown[j].query = cs[j].query /\ grown[j].session = cs[j].session
  BY <1>5
<1>11. Copies(cs, new.query, "query", t \in Detail)
  <2>1. \/ FirstWith(grown, n, "query") = None /\ \A j \in DOMAIN cs : grown[j].query = None
        \/ \E j \in DOMAIN cs : grown[j].query # None /\ FirstWith(grown, n, "query") = grown[j].query
    BY <1>5, Copied
  <2>. QED
    BY <1>7, <1>10, <2>1 DEF Copies
<1>12. Copies(cs, new.session, "session", t \in Dependent)
  <2>1. \/ FirstWith(grown, n, "session") = None /\ \A j \in DOMAIN cs : grown[j].session = None
        \/ \E j \in DOMAIN cs : grown[j].session # None /\ FirstWith(grown, n, "session") = grown[j].session
    BY <1>5, Copied
  <2>. QED
    BY <1>7, <1>10, <2>1 DEF Copies
<1>13. Coherent(ds, m + 1, after)
  <2>1. ds[n].id[1] = t /\ ds[n].id[2] = m /\ ds[n].type = t
    BY <1>7, <1>8
  <2>2. DOMAIN ds = DOMAIN cs \cup {n} /\ \A i \in DOMAIN cs : ds[i] = cs[i]
    BY <1>5, <1>8
  <2>3. Copies(cs, ds[n].query, "query", t \in Detail) /\ Copies(cs, ds[n].session, "session", t \in Dependent)
    BY <1>8, <1>11, <1>12
  <2>4. m + 1 \in Nat /\ m < m + 1
    OBVIOUS
  <2>5. Joins(cs, ds, n, t, m)
    BY <2>1, <2>2, <2>3 DEF Joins
  <2>. QED
    BY <2>4, <2>5, Joined
<1>. QED
  BY <1>2, <1>3, <1>5, <1>8, <1>9, <1>13

\* Some of the columns, each at most once, in any order.
LEMMA Chosen ==
  ASSUME NEW cs \in Columns, NEW n, NEW apart, Coherent(cs, n, apart), NEW ds,
         NEW from \in [DOMAIN ds -> DOMAIN cs],
         \A j \in DOMAIN ds : ds[j] = cs[from[j]],
         \A j, k \in DOMAIN ds : j # k => from[j] # from[k]
  PROVE  Coherent(ds, n, apart)
<1>1. Owned(ds, n)
  BY DEF Coherent, Owned
<1>2. Bearers(ds)
  BY DEF Coherent, Bearers
<1>3. OneSearch(ds)
  <2>. SUFFICES ASSUME NEW j \in DOMAIN ds, NEW k \in DOMAIN ds,
                       {ds[j].type, ds[k].type} \subseteq Detail
                PROVE  ds[j].query = ds[k].query
    BY DEF OneSearch
  <2>. QED
    BY DEF Coherent, OneSearch
<1>4. KindsFit(ds)
  BY DEF Coherent, KindsFit
<1>5. ASSUME ~apart
      PROVE  OneSession(ds)
  <2>. SUFFICES ASSUME NEW j \in DOMAIN ds, NEW k \in DOMAIN ds,
                       {ds[j].type, ds[k].type} \subseteq Dependent
                PROVE  ds[j].session = ds[k].session
    BY DEF OneSession
  <2>. QED
    BY <1>5 DEF Coherent, OneSession
<1>. QED
  BY <1>1, <1>2, <1>3, <1>4, <1>5 DEF Coherent

\* Removing one position keeps the order of the others.
LEMMA RemoveOne ==
  ASSUME NEW S, NEW q \in Seq(S), NEW i \in 1..Len(q)
  PROVE  /\ RemoveAt(q, i) \in Seq(S)
         /\ Len(RemoveAt(q, i)) = Len(q) - 1
         /\ \A j \in 1..(Len(q) - 1) : RemoveAt(q, i)[j] = IF j < i THEN q[j] ELSE q[j + 1]
<1>. DEFINE l == SubSeq(q, 1, i - 1)
            r == SubSeq(q, i + 1, Len(q))
<1>1. Len(q) \in Nat /\ i \in Nat /\ \A j \in 1..Len(q) : q[j] \in S
  BY LenProperties, ElementOfSeq
<1>2. /\ l \in Seq(S) /\ Len(l) = i - 1
      /\ \A j \in 1..(i - 1) : l[j] = q[j]
  <2>1. \A j \in 1..(i - 1) : q[j] \in S
    BY <1>1
  <2>. QED
    BY <1>1, <2>1, SubSeqProperties
<1>3. /\ r \in Seq(S) /\ Len(r) = Len(q) - i
      /\ \A j \in 1..(Len(q) - i) : r[j] = q[i + j]
  <2>1. \A j \in (i + 1)..Len(q) : q[j] \in S
    BY <1>1
  <2>2. /\ r \in Seq(S)
        /\ Len(r) = IF i + 1 <= Len(q) THEN Len(q) - (i + 1) + 1 ELSE 0
        /\ \A j \in 1..(Len(q) - (i + 1) + 1) : r[j] = q[i + 1 + j - 1]
    BY <1>1, <2>1, SubSeqProperties
  <2>. QED
    BY <1>1, <2>2
<1>. HIDE DEF l, r
<1>4. /\ l \o r \in Seq(S)
      /\ Len(l \o r) = Len(l) + Len(r)
      /\ \A j \in 1..(Len(l) + Len(r)) : (l \o r)[j] = IF j <= Len(l) THEN l[j] ELSE r[j - Len(l)]
  BY <1>2, <1>3, ConcatProperties
<1>5. RemoveAt(q, i) = l \o r
  BY DEF RemoveAt, l, r
<1>6. ASSUME NEW j \in 1..(Len(q) - 1)
      PROVE  (l \o r)[j] = IF j < i THEN q[j] ELSE q[j + 1]
  <2>1. CASE j < i
    BY <1>1, <1>2, <1>3, <1>4, <2>1
  <2>2. CASE ~(j < i)
    <3>1. (l \o r)[j] = r[j - (i - 1)]
      BY <1>1, <1>2, <1>3, <1>4, <2>2, SMTT(30)
    <3>2. j - (i - 1) \in 1..(Len(q) - i)
      BY <1>1, <2>2
    <3>. QED
      BY <1>1, <1>3, <2>2, <3>1, <3>2
  <2>. QED
    BY <2>1, <2>2
<1>7. Len(l \o r) = Len(q) - 1
  BY <1>1, <1>2, <1>3, <1>4
<1>. QED
  BY <1>4, <1>5, <1>6, <1>7

\* A column removed.
LEMMA Removed ==
  ASSUME NEW cs \in Columns, NEW n, NEW apart, Coherent(cs, n, apart), NEW i \in DOMAIN cs,
         NEW ds, ds = RemoveAt(cs, i)
  PROVE  ds \in Columns /\ Len(ds) = Len(cs) - 1 /\ Coherent(ds, n, apart)
<1>1. Len(cs) \in Nat /\ DOMAIN cs = 1..Len(cs) /\ i \in 1..Len(cs)
  BY Entries
<1>2. /\ ds \in Columns /\ Len(ds) = Len(cs) - 1
      /\ \A j \in 1..(Len(cs) - 1) : ds[j] = IF j < i THEN cs[j] ELSE cs[j + 1]
  BY <1>1, RemoveOne DEF Columns
<1>3. DOMAIN ds = 1..(Len(cs) - 1)
  BY <1>2, Entries
<1>4. PICK from : from = [j \in DOMAIN ds |-> IF j < i THEN j ELSE j + 1]
  OBVIOUS
<1>5. from \in [DOMAIN ds -> DOMAIN cs]
  BY <1>1, <1>3, <1>4
<1>6. \A j \in DOMAIN ds : ds[j] = cs[from[j]]
  BY <1>1, <1>2, <1>3, <1>4
<1>7. \A j, k \in DOMAIN ds : j # k => from[j] # from[k]
  BY <1>1, <1>3, <1>4
<1>8. Coherent(ds, n, apart)
  BY <1>5, <1>6, <1>7, Chosen
<1>. QED
  BY <1>2, <1>8

\* Two columns that change places.
LEMMA SwappedAgree ==
  ASSUME NEW cs \in Columns, NEW n, NEW apart, Coherent(cs, n, apart),
         NEW i \in DOMAIN cs, NEW k \in DOMAIN cs, i # k, NEW ds, ds = Swapped(cs, i, k)
  PROVE  ds \in Columns /\ DOMAIN ds = DOMAIN cs /\ Coherent(ds, n, apart) /\ Ids(ds) = Ids(cs)
<1>1. PICK from : from = [j \in DOMAIN cs |-> IF j = i THEN k ELSE IF j = k THEN i ELSE j]
  OBVIOUS
<1>2. DOMAIN ds = DOMAIN cs /\ ds = [j \in DOMAIN cs |-> ds[j]]
  BY DEF Swapped
<1>3. from \in [DOMAIN ds -> DOMAIN cs]
  BY <1>1, <1>2
<1>4. \A j \in DOMAIN ds : ds[j] = cs[from[j]]
  BY <1>1, <1>2 DEF Swapped
<1>5. \A j, m \in DOMAIN ds : j # m => from[j] # from[m]
  BY <1>1, <1>2
<1>6. Coherent(ds, n, apart)
  BY <1>3, <1>4, <1>5, Chosen
<1>7. ds \in Columns
  <2>1. \A j \in DOMAIN cs : ds[j] \in ColumnState
    BY <1>2, <1>3, <1>4, Entries
  <2>. QED
    BY <1>2, <2>1, Reshaped
<1>8. Ids(ds) = Ids(cs)
  <2>1. \A j \in DOMAIN ds : ds[j].id \in Ids(cs)
    BY <1>3, <1>4 DEF Ids
  <2>2. \A j \in DOMAIN cs : from[from[j]] = j /\ from[j] \in DOMAIN ds
    BY <1>1, <1>2
  <2>3. \A j \in DOMAIN cs : cs[j].id \in Ids(ds)
    BY <1>2, <1>4, <2>2 DEF Ids
  <2>. QED
    BY <2>1, <2>3 DEF Ids
<1>. QED
  BY <1>2, <1>6, <1>7, <1>8

\* The columns of a seeded workspace.
LEMMA SeededAgree ==
  ASSUME NEW types, Distinct(types), NEW apart, NEW w, w = Seeded(types)
  PROVE  /\ w.cols \in Columns /\ w.nextId = 1 /\ w.shows = TRUE
         /\ Coherent(w.cols, w.nextId, apart)
<1>1. PICK cs : cs = [i \in DOMAIN types |-> Bare(types[i], 0)]
  OBVIOUS
<1>2. w.cols = cs /\ w.nextId = 1 /\ w.shows = TRUE
  BY <1>1 DEF Seeded
<1>3. \A i \in DOMAIN types : types[i] \in Type
  BY DEF Distinct
<1>4. /\ DOMAIN cs = DOMAIN types
      /\ \A i \in DOMAIN cs : cs[i] = Bare(types[i], 0)
  BY <1>1
<1>5. \A i \in DOMAIN cs :
        /\ cs[i] \in ColumnState /\ cs[i].type = types[i] /\ cs[i].id = <<types[i], 0>>
        /\ cs[i].session = None /\ cs[i].span = None /\ cs[i].call = None /\ cs[i].query = None
  BY <1>3, <1>4 DEF Bare, ColumnState, or
<1>6. cs \in Columns
  <2>1. Len(types) \in Nat /\ DOMAIN types = 1..Len(types)
    BY DEF Distinct
  <2>2. cs \in [1..Len(types) -> ColumnState]
    BY <1>1, <1>4, <1>5, <2>1
  <2>. QED
    BY <2>1, <2>2, SeqDef DEF Columns
<1>7. Owned(cs, 1)
  BY <1>4, <1>5 DEF Owned, Distinct
<1>8. Bearers(cs) /\ OneSearch(cs) /\ OneSession(cs)
  BY <1>5 DEF Bearers, OneSearch, OneSession
<1>9. KindsFit(cs)
  BY <1>5 DEF KindsFit, Fits
<1>. QED
  BY <1>2, <1>6, <1>7, <1>8, <1>9 DEF Coherent

-----------------------------------------------------------------------------
(* The parts of the invariant, and what leaves each as it is.              *)

Board == DeskTypes /\ Filed
Seat == focus \in Int /\ last \in Nat /\ FocusHeld
Rooms ==
  /\ DOMAIN panes \subseteq Type \X Nat /\ \A d \in DOMAIN panes : panes[d] \in PaneState
  /\ DOMAIN panes = Ids(cols) /\ PaneFit
Layers == ModalTypes /\ OverlaysAnswer /\ PromptFits

LEMMA SettledParts == Settled <=> Board /\ Seat /\ Rooms /\ Layers
BY DEF Settled, Board, Seat, Rooms, Layers, TypeOK, KeyTypes

\* What is on the desk, for a step that touches none of it.
LEMMA BoardStays ==
  ASSUME Board, UNCHANGED <<uses, workspace, saved, failures, strayed>>, advances' \in 0..MaxAdvances
  PROVE  Board'
<1>1. cols' = cols /\ nextId' = nextId /\ shows' = shows
  BY DEF workspace
<1>2. DeskTypes'
  BY <1>1 DEF Board, DeskTypes
<1>3. Filed'
  BY <1>1 DEF Board, Filed, RestartKeeps
<1>. QED
  BY <1>2, <1>3 DEF Board

\* Columns that have gone apart stay apart.
LEMMA ApartStays ==
  ASSUME NEW cs, NEW n, NEW a \in BOOLEAN, NEW b \in BOOLEAN, a => b, Coherent(cs, n, a)
  PROVE  Coherent(cs, n, b)
BY DEF Coherent

\* A step that saves what it did, if the disk lets it.
LEMMA BoardSaved ==
  ASSUME Board, Save, uses' = uses, advances' = advances, strayed' \in BOOLEAN, strayed => strayed',
         cols' \in Columns, nextId' \in Nat, shows' \in BOOLEAN,
         Coherent(cols', nextId', strayed')
  PROVE  Board'
<1>1. strayed \in BOOLEAN /\ failures \in Nat /\ MaxFailures \in Nat
  BY DeskAssumption DEF Board, DeskTypes
<1>2. CASE saved' = [cols |-> cols', nextId |-> nextId', shows |-> shows'] /\ failures' = failures
  <2>1. saved'.cols = cols' /\ saved'.nextId = nextId' /\ saved'.shows = shows'
    BY <1>2
  <2>2. DeskTypes'
    BY <1>1, <1>2, <2>1 DEF Board, DeskTypes, Columns
  <2>3. Filed'
    BY <2>1 DEF Filed, RestartKeeps
  <2>. QED
    BY <2>2, <2>3 DEF Board
<1>3. CASE failures < MaxFailures /\ failures' = failures + 1 /\ saved' \in {saved, Torn}
  <2>1. failures' \in 0..MaxFailures /\ failures' # 0
    BY <1>1, <1>3
  <2>2. DeskTypes'
    BY <1>3, <2>1 DEF Board, DeskTypes, Columns
  <2>3. saved' # Torn => Coherent(saved'.cols, saved'.nextId, strayed')
    <3>1. saved' # Torn => saved' = saved
      BY <1>3
    <3>2. saved # Torn => Coherent(saved.cols, saved.nextId, strayed)
      BY DEF Board, Filed
    <3>3. strayed' \in BOOLEAN
      OBVIOUS
    <3>. QED
      BY <1>1, <3>1, <3>2, <3>3 DEF Coherent
  <2>4. Filed'
    BY <2>1, <2>3 DEF Filed, RestartKeeps
  <2>. QED
    BY <2>2, <2>4 DEF Board
<1>. QED
  BY <1>2, <1>3 DEF Save

\* The keyboard, for a step that moves neither it nor the columns.
LEMMA SeatStays ==
  ASSUME Board, Seat, UNCHANGED <<focus, last, shows>>, Alike(cols, cols')
  PROVE  Seat'
<1>1. DOMAIN cols' = DOMAIN cols /\ (cols' = <<>> <=> cols = <<>>)
  <2>1. cols \in Columns
    BY DEF Board, DeskTypes, Columns
  <2>. QED
    BY <2>1, Entries DEF Alike
<1>. QED
  BY <1>1 DEF Seat, FocusHeld

\* The scenarios, for a step that leaves them and the columns' ids.
LEMMA RoomsStay ==
  ASSUME Rooms, panes' = panes, Ids(cols') = Ids(cols)
  PROVE  Rooms'
<1>1. Ids(cols)' = Ids(cols)
  BY DEF Ids
<1>. QED
  BY <1>1 DEF Rooms, PaneFit

\* The overlays, for a step that none of them sees.
LEMMA LayersClear ==
  ASSUME Layers, ~confirm.open, UNCHANGED <<overlays, adding, confirm, pending, picker>>,
         list' \in Lists, deleted' \subseteq Session
  PROVE  Layers'
<1>1. ModalTypes'
  BY DEF Layers, ModalTypes
<1>2. OverlaysAnswer'
  BY DEF Layers, OverlaysAnswer
<1>. QED
  BY <1>1, <1>2 DEF Layers, PromptFits

\* A search is being typed as before.
LEMMA TypingStays ==
  ASSUME UNCHANGED <<focus, panes>>, Alike(cols, cols')
  PROVE  Typing' <=> Typing
BY DEF Typing, OnColumn, Pane, Here, Alike

\* The same column has the keyboard.
LEMMA HereStays ==
  ASSUME focus' = focus, Alike(cols, cols'), OnColumn, Here.type = "live_sessions"
  PROVE  OnColumn' /\ Here.type' = "live_sessions"
BY DEF OnColumn, Here, Alike

\* The column with the keyboard.
LEMMA Focused ==
  ASSUME Board, Rooms, OnColumn
  PROVE  /\ focus \in DOMAIN cols /\ cols \in Columns /\ Here \in ColumnState /\ Here = cols[focus]
         /\ Here.id \in DOMAIN panes /\ Here.id[1] = Here.type
         /\ Pane \in PaneState /\ Pane.type = Here.type
         /\ Pane.mode # "main" => Here.type = "spans"
<1>1. cols \in Columns /\ focus \in DOMAIN cols
  BY DEF Board, DeskTypes, Columns, OnColumn
<1>2. Here \in ColumnState /\ Here = cols[focus]
  BY <1>1, Entries DEF Here
<1>3. Here.id[1] = Here.type
  BY <1>1, <1>2 DEF Board, Filed, Coherent, Owned
<1>4. Here.id \in DOMAIN panes
  BY <1>1, <1>2 DEF Rooms, Ids
<1>. QED
  BY <1>1, <1>2, <1>3, <1>4 DEF Rooms, PaneFit, Pane

\* A step on the scenario of the column with the keyboard.
LEMMA RoomSet ==
  ASSUME Board, Rooms, OnColumn, NEW f \in PaneState, SetPane(f), f.type = Pane.type,
         f.mode \in {"main", Pane.mode} \/ Here.type = "spans", Ids(cols') = Ids(cols)
  PROVE  Rooms'
<1>1. PICK id : id = Here.id
  OBVIOUS
<1>2. /\ id \in DOMAIN panes /\ id[1] = Here.type /\ Pane.type = id[1]
      /\ Pane.mode # "main" => id[1] = "spans"
  BY <1>1, Focused
<1>3. panes' = [panes EXCEPT ![id] = f]
  BY <1>1 DEF SetPane
<1>4. DOMAIN panes' = DOMAIN panes /\ \A d \in DOMAIN panes : panes'[d] = IF d = id THEN f ELSE panes[d]
  BY <1>2, <1>3
<1>5. Ids(cols)' = Ids(cols)
  BY DEF Ids
<1>6. PaneFit'
  BY <1>2, <1>4 DEF Rooms, PaneFit
<1>. QED
  BY <1>4, <1>5, <1>6 DEF Rooms

\* The scenarios after columns came and went.
LEMMA RoomsSynced ==
  ASSUME NEW ps, \A d \in DOMAIN ps :
                    ps[d] \in PaneState /\ ps[d].type = d[1] /\ (ps[d].mode # "main" => d[1] = "spans"),
         panes' = Sync(ps, cols'), cols' \in Columns
  PROVE  Rooms'
<1>1. Ids(cols)' = Ids(cols')
  BY DEF Ids
<1>2. \A d \in Ids(cols') : d \in Type \X Nat
  BY Entries DEF Ids, ColumnState
<1>3. DOMAIN panes' = Ids(cols')
  BY DEF Sync
<1>4. ASSUME NEW d \in Ids(cols')
      PROVE  panes'[d] \in PaneState /\ panes'[d].type = d[1] /\ (panes'[d].mode # "main" => d[1] = "spans")
  <2>1. CASE d \in DOMAIN ps
    BY <2>1 DEF Sync
  <2>2. CASE d \notin DOMAIN ps
    <3>1. panes'[d] = Fresh(d[1]) /\ d[1] \in Type
      BY <1>2, <2>2 DEF Sync
    <3>. QED
      BY <3>1, DeskAssumption DEF Fresh, PaneState
  <2>. QED
    BY <2>1, <2>2
<1>. QED
  BY <1>1, <1>2, <1>3, <1>4 DEF Rooms, PaneFit

-----------------------------------------------------------------------------
(* Cursors and lists.                                                      *)

\* A cursor that moves, and wraps, is on a row if there is one.
LEMMA MovedWithin ==
  ASSUME NEW c \in Int, NEW d \in Int, NEW n \in Nat
  PROVE  Moved(c, d, n) \in Nat \ {0} /\ (n # 0 => Moved(c, d, n) \in 1..n)
BY DEF Moved

\* The cached list of sessions.
LEMMA Listed ==
  ASSUME NEW l \in Lists
  PROVE  Len(l) \in Nat /\ DOMAIN l = 1..Len(l) /\ \A i \in DOMAIN l : l[i] \in Session
<1>1. PICK n \in 0..Cardinality(Session) : l \in [1..n -> Session]
  BY DEF Lists
<1>2. Cardinality(Session) \in Nat
  BY DeskAssumption, FS_CardinalityType
<1>3. l \in Seq(Session)
  BY <1>1, <1>2, SeqDef
<1>. QED
  BY <1>1, <1>3, LenProperties

\* All sessions can be listed.
LEMMA AllListed == SetToSeq(Session) \in Lists
<1>1. PICK n : n = Cardinality(Session)
  OBVIOUS
<1>2. n \in Nat /\ ExistsBijection(1..n, Session)
  BY <1>1, DeskAssumption, FS_CardinalityType
<1>3. PICK f \in [1..n -> Session] : IsInjective(f)
  BY <1>2 DEF ExistsBijection, Bijection, Injection, IsInjective
<1>4. PICK l : l = SetToSeq(Session)
  OBVIOUS
<1>5. l \in [1..n -> Session] /\ IsInjective(l)
  BY <1>1, <1>3, <1>4 DEF SetToSeq
<1>6. \A i, j \in 1..n : i # j => l[i] # l[j]
  BY <1>5 DEF IsInjective
<1>. QED
  BY <1>1, <1>2, <1>4, <1>5, <1>6 DEF Lists

-----------------------------------------------------------------------------
(* What keys do to the column that has them.                               *)

Parts == Board /\ Seat /\ Rooms /\ Layers

\* Two lists with the same columns have the same ids.
LEMMA AlikeColumns ==
  ASSUME Board, Alike(cols, cols')
  PROVE  cols \in Columns /\ cols' \in Columns /\ Ids(cols') = Ids(cols) /\ nextId \in Nat
BY AlikeOwned DEF Alike, Board, DeskTypes, Filed, Coherent, Columns

\* The same list is the same columns.
LEMMA SameAlike ==
  ASSUME Board, cols' = cols
  PROVE  Alike(cols, cols')
BY DEF Alike, Board, DeskTypes, Columns

\* A key that only changes what its own column shows.
LEMMA PaneStep ==
  ASSUME Parts, uses' = uses, OnColumn, ~confirm.open, NEW f \in PaneState, SetPane(f),
         f.type = Pane.type, f.mode \in {"main", Pane.mode} \/ Here.type = "spans",
         UNCHANGED <<workspace, keyboard, list, saved, advances, failures, history>>
  PROVE  Parts'
<1>1. cols' = cols /\ Ids(cols') = Ids(cols)
  BY DEF workspace
<1>2. Board'
  BY BoardStays DEF Parts, Board, DeskTypes, workspace, history
<1>3. Seat'
  BY <1>1, SameAlike, SeatStays DEF Parts, workspace, keyboard
<1>4. Rooms'
  BY <1>1, RoomSet DEF Parts
<1>5. Layers'
  BY LayersClear DEF Parts, Layers, ModalTypes, keyboard, history
<1>. QED
  BY <1>2, <1>3, <1>4, <1>5 DEF Parts

\* A key whose effect changes what the columns show, and is saved.
LEMMA EffectStep ==
  ASSUME Parts, uses' = uses, ~confirm.open, Alike(cols, cols'), Coherent(cols', nextId, strayed),
         UNCHANGED <<nextId, shows>>, Save, Rooms', UNCHANGED <<keyboard, list, advances, history>>
  PROVE  Parts'
<1>1. cols' \in Columns /\ nextId \in Nat
  BY AlikeColumns DEF Parts
<1>2. Board'
  BY <1>1, BoardSaved DEF Parts, Board, DeskTypes, history
<1>3. Seat'
  BY SeatStays DEF Parts, keyboard
<1>4. Layers'
  BY LayersClear DEF Parts, Layers, ModalTypes, keyboard, history
<1>. QED
  BY <1>2, <1>3, <1>4 DEF Parts

\* No prompt is up over a search being typed, which is typed in a Spans column.
LEMMA TypingUnasked ==
  ASSUME Parts, Typing
  PROVE  OnColumn /\ ~confirm.open /\ Here.type = "spans" /\ Pane \in PaneState
BY Focused DEF Parts, Layers, OverlaysAnswer, Typing

LEMMA EndTypingStep ==
  ASSUME Parts, uses' = uses, EndTyping
  PROVE  Parts'
<1>1. PICK f : f = [Pane EXCEPT !.mode = "main"]
  OBVIOUS
<1>2. OnColumn /\ ~confirm.open /\ Pane \in PaneState
  BY TypingUnasked DEF EndTyping
<1>3. f \in PaneState /\ f.type = Pane.type /\ f.mode = "main"
  BY <1>1, <1>2 DEF PaneState
<1>4. SetPane(f)
  BY <1>1 DEF EndTyping
<1>. QED
  BY <1>2, <1>3, <1>4, PaneStep DEF EndTyping

LEMMA MoveSessionPickerStep ==
  ASSUME Parts, uses' = uses, NEW d \in {-1, 1}, MoveSessionPicker(d)
  PROVE  Parts'
<1>1. PICK f : f = [Pane EXCEPT !.cursor = Moved(@, d, Len(list))]
  OBVIOUS
<1>2. OnColumn /\ ~confirm.open /\ Pane \in PaneState
  BY Focused DEF MoveSessionPicker, ToPopover, Covered, Parts
<1>3. Moved(Pane.cursor, d, Len(list)) \in Nat \ {0}
  <2>1. Len(list) \in Nat
    BY Listed DEF Parts, Layers, ModalTypes
  <2>. QED
    BY <1>2, <2>1, MovedWithin DEF PaneState
<1>4. f \in PaneState /\ f.type = Pane.type /\ f.mode = Pane.mode
  BY <1>1, <1>2, <1>3 DEF PaneState
<1>5. SetPane(f)
  BY <1>1 DEF MoveSessionPicker
<1>. QED
  BY <1>2, <1>4, <1>5, PaneStep DEF MoveSessionPicker

LEMMA ClosePopoverStep ==
  ASSUME Parts, uses' = uses, ClosePopover
  PROVE  Parts'
<1>1. PICK f : f = [Pane EXCEPT !.mode = "main"]
  OBVIOUS
<1>2. OnColumn /\ ~confirm.open /\ Pane \in PaneState
  BY Focused DEF ClosePopover, ToPopover, Covered, Parts
<1>3. f \in PaneState /\ f.type = Pane.type /\ f.mode = "main"
  BY <1>1, <1>2 DEF PaneState
<1>4. SetPane(f)
  BY <1>1 DEF ClosePopover
<1>. QED
  BY <1>2, <1>3, <1>4, PaneStep DEF ClosePopover

\* A Spans column opens its popovers, or starts a search.
LEMMA EnterStep ==
  ASSUME Parts, uses' = uses, NEW mode \in {"typing", "session", "kind"}, Enter(mode)
  PROVE  Parts'
<1>1. PICK c : c = IF mode # "session" THEN Pane.cursor
                   ELSE IF Here.session \notin ToSet(list) THEN 1
                   ELSE CHOOSE i \in DOMAIN list : list[i] = Here.session
  OBVIOUS
<1>2. OnColumn /\ ~confirm.open /\ Pane \in PaneState /\ Here.type = "spans"
  BY Focused DEF Enter, ToColumn, Covered, Parts
<1>3. c \in Nat \ {0}
  <2>1. DOMAIN list \subseteq Nat \ {0}
    BY Listed DEF Parts, Layers, ModalTypes
  <2>2. CASE mode # "session"
    BY <1>1, <1>2, <2>2 DEF PaneState
  <2>3. CASE mode = "session" /\ Here.session \notin ToSet(list)
    BY <1>1, <2>3
  <2>4. CASE mode = "session" /\ Here.session \in ToSet(list)
    <3>1. \E i \in DOMAIN list : list[i] = Here.session
      BY <2>4 DEF ToSet
    <3>2. c \in DOMAIN list
      BY <1>1, <2>4, <3>1
    <3>. QED
      BY <2>1, <3>2
  <2>. QED
    BY <2>2, <2>3, <2>4
<1>4. PICK f : f = [Pane EXCEPT !.mode = mode, !.cursor = c]
  OBVIOUS
<1>5. f \in PaneState /\ f.type = Pane.type
  BY <1>2, <1>3, <1>4 DEF PaneState
<1>6. SetPane(f)
  BY <1>1, <1>4 DEF Enter
<1>. QED
  BY <1>2, <1>5, <1>6, PaneStep DEF Enter

\* Every letter of a search goes to the detail columns.
LEMMA EmitStep ==
  ASSUME Parts, uses' = uses, Typing, NEW q \in Query, NEW mode \in {"typing", "main"}, Emit(q, mode),
         UNCHANGED <<keyboard, list, advances, history>>
  PROVE  Parts'
<1>1. PICK f : f = [Pane EXCEPT !.text = q, !.mode = mode]
  OBVIOUS
<1>2. OnColumn /\ ~confirm.open /\ Pane \in PaneState /\ Here.type = "spans"
  BY TypingUnasked
<1>3. f \in PaneState /\ f.type = Pane.type
  BY <1>1, <1>2 DEF PaneState
<1>4. SetPane(f)
  BY <1>1 DEF Emit
<1>5. Alike(cols, cols') /\ Coherent(cols', nextId, strayed)
  BY SearchSpread DEF Parts, Board, DeskTypes, Filed, Columns, Emit
<1>6. Ids(cols') = Ids(cols)
  BY <1>5, AlikeColumns DEF Parts
<1>7. Rooms'
  BY <1>2, <1>3, <1>4, <1>6, RoomSet DEF Parts
<1>. QED
  BY <1>2, <1>5, <1>7, EffectStep DEF Emit

LEMMA Type1Step ==
  ASSUME Parts, uses' = uses, NEW q \in Query, Type1(q)
  PROVE  Parts'
BY EmitStep DEF Type1

LEMMA ClearSearchStep ==
  ASSUME Parts, uses' = uses, ClearSearch
  PROVE  Parts'
BY EmitStep, DeskAssumption DEF ClearSearch

\* A session picked, if the cursor is on one, in a Spans or Sessions column.
LEMMA PickStep ==
  ASSUME Parts, uses' = uses, OnColumn, ~confirm.open, Here.type \in {"spans", "live_sessions"},
         NEW i, PickSession(i), NEW f \in PaneState, SetPane(f), f.type = Pane.type,
         f.mode \in {"main", Pane.mode}, UNCHANGED <<keyboard, list, advances, history>>
  PROVE  Parts'
<1>1. CASE i \in DOMAIN list
  <2>1. list[i] \in Session
    BY <1>1, Listed DEF Parts, Layers, ModalTypes
  <2>2. focus \in DOMAIN cols /\ cols[focus].type \in {"spans", "live_sessions"}
    BY DEF OnColumn, Here
  <2>3. cols \in Columns /\ Coherent(cols, nextId, strayed)
    BY DEF Parts, Board, DeskTypes, Filed, Columns
  <2>4. Alike(cols, cols') /\ Coherent(cols', nextId, strayed)
    <3>1. PICK c : c = list[i]
      OBVIOUS
    <3>2. cols' = PropagateSession(cols, focus, c) /\ c \in Session
      BY <1>1, <2>1, <3>1 DEF PickSession
    <3>. QED
      BY <2>2, <2>3, <3>2, SessionSpread
  <2>5. Ids(cols') = Ids(cols)
    BY <2>4, AlikeColumns DEF Parts
  <2>6. Rooms'
    BY <2>5, RoomSet DEF Parts
  <2>. QED
    BY <1>1, <2>4, <2>6, EffectStep DEF PickSession
<1>2. CASE i \notin DOMAIN list
  BY <1>2, PaneStep DEF PickSession
<1>. QED
  BY <1>1, <1>2

LEMMA ChooseSessionStep ==
  ASSUME Parts, uses' = uses, ChooseSession
  PROVE  Parts'
<1>1. PICK f : f = [Pane EXCEPT !.mode = "main"]
  OBVIOUS
<1>2. OnColumn /\ ~confirm.open /\ Pane \in PaneState /\ Here.type = "spans"
  BY Focused DEF ChooseSession, ToPopover, Covered, Parts
<1>3. f \in PaneState /\ f.type = Pane.type /\ f.mode = "main"
  BY <1>1, <1>2 DEF PaneState
<1>4. SetPane(f)
  BY <1>1 DEF ChooseSession
<1>. QED
  BY <1>2, <1>3, <1>4, PickStep DEF ChooseSession

LEMMA MoveSessionStep ==
  ASSUME Parts, uses' = uses, NEW i \in 1..Cardinality(Session), MoveSession(i)
  PROVE  Parts'
<1>1. PICK f : f = [Pane EXCEPT !.cursor = i]
  OBVIOUS
<1>2. OnColumn /\ ~confirm.open /\ Pane \in PaneState /\ Here.type = "live_sessions"
  BY Focused DEF MoveSession, ToColumn, Covered, Parts
<1>3. i \in Nat \ {0}
  BY DeskAssumption, FS_CardinalityType
<1>4. f \in PaneState /\ f.type = Pane.type /\ f.mode = Pane.mode
  BY <1>1, <1>2, <1>3 DEF PaneState
<1>5. SetPane(f)
  BY <1>1 DEF MoveSession
<1>. QED
  BY <1>2, <1>4, <1>5, PickStep DEF MoveSession

LEMMA ChooseKindStep ==
  ASSUME Parts, uses' = uses, ChooseKind
  PROVE  Parts'
<1>1. PICK f : f = [Pane EXCEPT !.mode = "main"]
  OBVIOUS
<1>2. OnColumn /\ ~confirm.open /\ Pane \in PaneState
  BY Focused DEF ChooseKind, ToPopover, Covered, Parts
<1>3. f \in PaneState /\ f.type = Pane.type /\ f.mode = "main"
  BY <1>1, <1>2 DEF PaneState
<1>4. SetPane(f)
  BY <1>1 DEF ChooseKind
<1>5. Alike(cols, cols') /\ Coherent(cols', nextId, strayed) /\ UNCHANGED <<nextId, shows>>
  BY SameAlike DEF ChooseKind, workspace, Parts, Board, Filed
<1>6. Rooms'
  BY <1>2, <1>3, <1>4, <1>5, AlikeColumns, RoomSet DEF Parts
<1>. QED
  BY <1>2, <1>5, <1>6, EffectStep DEF ChooseKind

\* A selection spread from a Spans column, or from the widget.
LEMMA SpreadStep ==
  ASSUME Parts, uses' = uses, ~confirm.open, NEW i, i \in DOMAIN cols => cols[i].type = "spans",
         NEW s \in Span, NEW route \in Routes(s), cols' = PropagateSelection(cols, i, s, route),
         UNCHANGED <<nextId, shows>>, Save, UNCHANGED <<keyboard, panes, list, advances, history>>
  PROVE  Parts'
<1>1. Alike(cols, cols') /\ Coherent(cols', nextId, strayed)
  BY SelectionSpread DEF Parts, Board, DeskTypes, Filed, Columns
<1>2. Rooms'
  BY <1>1, AlikeColumns, RoomsStay DEF Parts
<1>. QED
  BY <1>1, <1>2, EffectStep

LEMMA SelectBarStep ==
  ASSUME Parts, uses' = uses, NEW s \in Span, SelectBar(s)
  PROVE  Parts'
<1>1. None \in Routes(s)
  BY DEF Routes
<1>2. 0 \notin DOMAIN cols
  BY Entries DEF Parts, Board, DeskTypes, Columns
<1>. QED
  BY <1>1, <1>2, SpreadStep DEF SelectBar, ToWidget, Covered

LEMMA PickSpanStep ==
  ASSUME Parts, uses' = uses, NEW s \in Span, NEW route \in Routes(s), PickSpan(s, route)
  PROVE  Parts'
<1>1. ~confirm.open /\ Here.type = "spans"
  BY TypingUnasked DEF PickSpan, ToColumn, Covered
<1>2. focus \in DOMAIN cols => cols[focus].type = "spans"
  BY <1>1 DEF Here
<1>. QED
  BY <1>1, <1>2, SpreadStep DEF PickSpan

-----------------------------------------------------------------------------
(* What keys do to the overlays.                                           *)

\* A step that only an overlay sees.
LEMMA ModalStep ==
  ASSUME Parts, uses' = uses, Layers',
         UNCHANGED <<workspace, focus, last, panes, saved, advances, failures, strayed>>
  PROVE  Parts'
<1>1. cols' = cols /\ Ids(cols') = Ids(cols) /\ shows' = shows
  BY DEF workspace
<1>2. Board'
  BY BoardStays DEF Parts, Board, DeskTypes
<1>3. Seat'
  BY <1>1, SameAlike, SeatStays DEF Parts
<1>4. Rooms'
  BY <1>1, RoomsStay DEF Parts
<1>. QED
  BY <1>2, <1>3, <1>4 DEF Parts

\* The same focus, scenarios and columns: the same typing.
LEMMA TypingSame ==
  ASSUME Parts, UNCHANGED <<workspace, focus, panes>>
  PROVE  Typing' <=> Typing
BY SameAlike, TypingStays DEF Parts, workspace

\* At most one overlay is up.
LEMMA OneUp ==
  ASSUME Layers
  PROVE  /\ Cardinality(overlays) \in Nat /\ (Cardinality(overlays) = 0 <=> overlays = {})
         /\ confirm.open => overlays = {} /\ ~adding
         /\ adding => overlays = {} /\ ~confirm.open
         /\ overlays # {} => ~confirm.open /\ ~adding /\ Cardinality(overlays) <= 1
<1>1. IsFiniteSet({"keymap", "log"})
  <2>1. {"keymap", "log"} = {"keymap"} \cup {"log"} /\ IsFiniteSet({"keymap"})
    BY FS_Singleton
  <2>2. IsFiniteSet({"keymap"} \cup {"log"})
    BY <2>1, FS_AddElement
  <2>. QED
    BY <2>1, <2>2
<1>2. IsFiniteSet(overlays)
  BY <1>1, FS_Subset DEF Layers, ModalTypes
<1>3. Cardinality(overlays) \in Nat /\ (Cardinality(overlays) = 0 <=> overlays = {})
  BY <1>2, FS_CardinalityType, FS_EmptySet
<1>4. Cardinality(overlays) + (IF confirm.open THEN 1 ELSE 0) + (IF adding THEN 1 ELSE 0) <= 1
  BY DEF Layers, OverlaysAnswer
<1>. QED
  BY <1>3, <1>4

\* No overlay at all.
LEMMA NoneUp ==
  Cardinality({}) = 0
BY FS_EmptySet

LEMMA CloseOverlayStep ==
  ASSUME Parts, uses' = uses, CloseOverlay
  PROVE  Parts'
<1>1. Layers
  BY DEF Parts
<1>3. ~confirm.open /\ ~adding /\ pending = None
  BY <1>1, OneUp DEF CloseOverlay, Layers, OverlaysAnswer
<1>4. overlays' \subseteq overlays
  BY DEF CloseOverlay
<1>5. Cardinality(overlays') <= 1 /\ Cardinality(overlays') \in Nat
  <2>1. overlays' \subseteq {"log"}
    BY <1>1 DEF CloseOverlay, Layers, ModalTypes
  <2>2. overlays' = {} \/ overlays' = {"log"}
    BY <2>1
  <2>3. Cardinality({}) = 0
    BY FS_EmptySet
  <2>4. Cardinality({"log"}) = 1
    BY FS_Singleton
  <2>. QED
    BY <2>2, <2>3, <2>4
<1>6. Layers'
  <2>1. ModalTypes'
    BY <1>1, <1>4 DEF CloseOverlay, Layers, ModalTypes, history
  <2>2. OverlaysAnswer'
    BY <1>3, <1>5 DEF CloseOverlay, OverlaysAnswer
  <2>3. PromptFits'
    BY <1>3 DEF CloseOverlay, PromptFits
  <2>. QED
    BY <2>1, <2>2, <2>3 DEF Layers
<1>. QED
  BY <1>6, ModalStep DEF CloseOverlay, history

LEMMA ToggleYesStep ==
  ASSUME Parts, uses' = uses, ToggleYes
  PROVE  Parts'
<1>1. Layers
  BY DEF Parts
<1>2. ~Typing'
  BY TypingSame DEF ToggleYes, Asked, Parts, Layers, OverlaysAnswer
<1>3. confirm' \in [open : BOOLEAN, yes : BOOLEAN, names : or(Session)]
      /\ confirm'.open = confirm.open /\ confirm'.names = confirm.names
  BY <1>1 DEF ToggleYes, Layers, ModalTypes
<1>4. Layers'
  <2>1. ModalTypes'
    BY <1>1, <1>2, <1>3 DEF ToggleYes, Layers, ModalTypes, Asked, history
  <2>2. OverlaysAnswer'
    BY <1>1, <1>2, <1>3, OneUp, NoneUp DEF ToggleYes, Covered, Layers, OverlaysAnswer, Asked, history
  <2>3. PromptFits'
    BY <1>1, <1>3 DEF ToggleYes, Layers, PromptFits, OnColumn, Here, workspace
  <2>. QED
    BY <2>1, <2>2, <2>3 DEF Layers
<1>. QED
  BY <1>4, ModalStep DEF ToggleYes, history

LEMMA MovePickerStep ==
  ASSUME Parts, uses' = uses, NEW d \in {-1, 1}, MovePicker(d)
  PROVE  Parts'
<1>1. Layers
  BY DEF Parts
<1>2. ~confirm.open
  BY DEF MovePicker, Listing
<1>3. picker' \in DOMAIN Types
  <2>1. Len(Types) \in Nat \ {0} /\ DOMAIN Types = 1..Len(Types)
    BY DeskAssumption, EmptySeq
  <2>2. picker \in Int
    BY <1>1, <2>1 DEF Layers, ModalTypes
  <2>. QED
    BY <2>1, <2>2, MovedWithin DEF MovePicker
<1>4. Layers'
  <2>1. ModalTypes'
    BY <1>1, <1>2, <1>3 DEF MovePicker, Layers, ModalTypes, history
  <2>2. OverlaysAnswer'
    BY <1>1, <1>2, <1>3, OneUp, NoneUp DEF MovePicker, Covered, Layers, OverlaysAnswer, history
  <2>3. PromptFits'
    BY <1>1, <1>2, <1>3 DEF MovePicker, Covered, Layers, PromptFits, history
  <2>. QED
    BY <2>1, <2>2, <2>3 DEF Layers
<1>. QED
  BY <1>4, ModalStep DEF MovePicker, history

LEMMA CancelAddStep ==
  ASSUME Parts, uses' = uses, CancelAdd
  PROVE  Parts'
<1>1. Layers
  BY DEF Parts
<1>2. ~confirm.open
  BY DEF CancelAdd, Listing
<1>3. Layers'
  <2>1. ModalTypes'
    BY <1>1, <1>2 DEF CancelAdd, Layers, ModalTypes, Listing, history
  <2>2. OverlaysAnswer'
    BY <1>1, <1>2, OneUp, NoneUp DEF CancelAdd, Covered, Layers, OverlaysAnswer, Listing, history
  <2>3. PromptFits'
    BY <1>1, <1>2 DEF CancelAdd, Covered, Layers, PromptFits, Listing, history
  <2>. QED
    BY <2>1, <2>2, <2>3 DEF Layers
<1>. QED
  BY <1>3, ModalStep DEF CancelAdd, history

LEMMA AskDeleteStep ==
  ASSUME Parts, uses' = uses, AskDelete
  PROVE  Parts'
<1>1. Layers
  BY DEF Parts
<1>2. ~Typing' /\ ~Covered
  BY TypingSame DEF AskDelete, ToColumn
<1>3. pending' \in Session /\ pending' # None
  <2>1. list[Pane.cursor] \in Session
    BY <1>1, Listed DEF AskDelete, Layers, ModalTypes
  <2>. QED
    BY <2>1, DeskAssumption DEF AskDelete
<1>4. confirm' = [open |-> TRUE, yes |-> FALSE, names |-> pending']
  BY DEF AskDelete
<1>5. Layers'
  <2>1. ModalTypes'
    BY <1>1, <1>2, <1>3, <1>4 DEF AskDelete, Layers, ModalTypes, or, history
  <2>2. OverlaysAnswer'
    BY <1>1, <1>2, <1>3, <1>4, OneUp, NoneUp DEF AskDelete, Covered, Layers, OverlaysAnswer, or, history
  <2>3. PromptFits'
    BY <1>3, <1>4 DEF AskDelete, ToColumn, PromptFits, OnColumn, Here, workspace
  <2>. QED
    BY <2>1, <2>2, <2>3 DEF Layers
<1>. QED
  BY <1>5, ModalStep DEF AskDelete, history

LEMMA ShowOverlayStep ==
  ASSUME Parts, uses' = uses, NEW o \in {"keymap", "log"}, ShowOverlay(o)
  PROVE  Parts'
<1>1. Layers
  BY DEF Parts
<1>2. ~Covered /\ ~confirm.open
  BY DEF ShowOverlay, ToGlobal, Covered
<1>3. Cardinality(overlays') = 1
  BY FS_Singleton DEF ShowOverlay
<1>4. Layers'
  <2>1. ModalTypes'
    BY <1>1, <1>2, <1>3 DEF ShowOverlay, Layers, ModalTypes, history
  <2>2. OverlaysAnswer'
    BY <1>1, <1>2, <1>3, OneUp, NoneUp DEF ShowOverlay, Covered, Layers, OverlaysAnswer, history
  <2>3. PromptFits'
    BY <1>1, <1>2, <1>3 DEF ShowOverlay, Covered, Layers, PromptFits, history
  <2>. QED
    BY <2>1, <2>2, <2>3 DEF Layers
<1>. QED
  BY <1>4, ModalStep DEF ShowOverlay, history

LEMMA OpenAddStep ==
  ASSUME Parts, uses' = uses, OpenAdd
  PROVE  Parts'
<1>1. Layers
  BY DEF Parts
<1>2. ~Covered /\ ~confirm.open
  BY DEF OpenAdd, ToGlobal, Covered
<1>3. picker' \in DOMAIN Types
  <2>1. Len(Types) \in Nat \ {0} /\ DOMAIN Types = 1..Len(Types)
    BY DeskAssumption, EmptySeq
  <2>. QED
    BY <2>1 DEF OpenAdd
<1>4. Layers'
  <2>1. ModalTypes'
    BY <1>1, <1>2, <1>3 DEF OpenAdd, Layers, ModalTypes, history
  <2>2. OverlaysAnswer'
    BY <1>1, <1>2, <1>3, OneUp, NoneUp DEF OpenAdd, Covered, Layers, OverlaysAnswer, history
  <2>3. PromptFits'
    BY <1>1, <1>2, <1>3 DEF OpenAdd, Covered, Layers, PromptFits, history
  <2>. QED
    BY <2>1, <2>2, <2>3 DEF Layers
<1>. QED
  BY <1>4, ModalStep DEF OpenAdd, history

\* A fetch of the list changes no overlay.
LEMMA RelistStep ==
  ASSUME Parts, uses' = uses, NEW l \in Lists, Relist(l)
  PROVE  Parts'
<1>1. Layers
  BY DEF Parts
<1>2. Typing' <=> Typing
  BY TypingSame DEF Relist, keyboard
<1>3. Layers'
  <2>1. ModalTypes' /\ OverlaysAnswer'
    BY <1>1, <1>2 DEF Relist, Layers, ModalTypes, OverlaysAnswer, history, keyboard
  <2>2. PromptFits'
    BY <1>1 DEF Relist, Layers, PromptFits, OnColumn, Here, workspace, keyboard
  <2>. QED
    BY <2>1, <2>2 DEF Layers
<1>. QED
  BY <1>3, ModalStep DEF Relist, history, keyboard

\* An answer closes the prompt; a yes deletes what is pending.
LEMMA AnswerStep ==
  ASSUME Parts, uses' = uses, NEW yes \in BOOLEAN, Answer(yes)
  PROVE  Parts'
<1>1. /\ Layers /\ confirm.open /\ overlays = {} /\ ~Typing
      /\ pending \in Session /\ pending' = None /\ overlays' = {} /\ adding' = adding /\ ~adding
  BY OneUp DEF Parts, Layers, ModalTypes, OverlaysAnswer, Answer, Asked, or
<1>2. /\ confirm' \in [open : BOOLEAN, yes : BOOLEAN, names : or(Session)] /\ ~confirm'.open
      /\ UNCHANGED <<uses, focus, last, picker, panes, list, advances>>
  BY <1>1 DEF Answer, Layers, ModalTypes
<1>3. Layers' /\ Board' /\ Alike(cols, cols') /\ shows' = shows
  <2>1. CASE yes
    <3>1. DoDelete(pending)
      BY <1>1, <2>1, DeskAssumption DEF Answer
    <3>2. Alike(cols, cols') /\ Coherent(cols', nextId, strayed)
      BY <1>1, <3>1, SessionCleared DEF Parts, Board, DeskTypes, Filed, Columns, DoDelete
    <3>3. cols' \in Columns /\ nextId \in Nat
      BY <3>2, AlikeColumns DEF Parts
    <3>4. Board'
      BY <1>2, <3>1, <3>2, <3>3, BoardSaved DEF Parts, Board, DeskTypes, DoDelete
    <3>5. deleted' \subseteq Session
      BY <1>1, <3>1 DEF DoDelete, Layers, ModalTypes
    <3>6. ModalTypes'
      BY <1>1, <1>2, <3>5 DEF Layers, ModalTypes, or
    <3>. QED
      BY <1>1, <1>2, <3>1, <3>2, <3>4, <3>6, NoneUp
         DEF Layers, OverlaysAnswer, PromptFits, Covered, DoDelete
  <2>2. CASE ~yes
    <3>1. UNCHANGED <<workspace, saved, failures, history>>
      BY <2>2 DEF Answer
    <3>2. Board'
      BY <1>2, <3>1, BoardStays DEF Parts, Board, DeskTypes, history
    <3>3. ModalTypes'
      BY <1>1, <1>2, <3>1 DEF Layers, ModalTypes, or, history
    <3>. QED
      BY <1>1, <1>2, <3>1, <3>2, <3>3, NoneUp, SameAlike
         DEF Parts, Layers, OverlaysAnswer, PromptFits, Covered, workspace
  <2>. QED
    BY <2>1, <2>2
<1>4. Seat'
  BY <1>2, <1>3, SeatStays DEF Parts
<1>5. Rooms'
  BY <1>2, <1>3, AlikeColumns, RoomsStay DEF Parts
<1>. QED
  BY <1>3, <1>4, <1>5 DEF Parts

-----------------------------------------------------------------------------
(* What moves the keyboard, and what adds, moves and removes columns.      *)

\* What the focus is when a list of columns is on the desk.
LEMMA Seats ==
  ASSUME Parts
  PROVE  /\ cols \in Columns /\ Len(cols) \in Nat /\ DOMAIN cols = 1..Len(cols)
         /\ (cols = <<>> <=> Len(cols) = 0) /\ shows \in BOOLEAN /\ focus \in Int /\ last \in Nat
         /\ focus # Widget => focus \in 0..Len(cols) /\ (focus = 0 <=> cols = <<>>)
         /\ focus = Widget => shows
         /\ last \in 0..Len(cols) /\ (last = 0 <=> cols = <<>>)
<1>1. cols \in Columns /\ shows \in BOOLEAN
  BY DEF Parts, Board, DeskTypes, Columns
<1>2. Len(cols) \in Nat /\ DOMAIN cols = 1..Len(cols) /\ (cols = <<>> <=> Len(cols) = 0)
  BY <1>1, Entries
<1>. QED
  BY <1>1, <1>2 DEF Parts, Seat, FocusHeld, Widget, NoFocus

\* The widget gives the keyboard back to a column, if there is one.
LEMMA Released ==
  ASSUME Parts, Release(cols)
  PROVE  /\ focus' = last
         /\ focus' \in Int /\ focus' # Widget /\ (focus' = NoFocus <=> cols = <<>>)
BY Seats DEF Release, FirstFocus, Widget, NoFocus

LEMMA LeaveWidgetStep ==
  ASSUME Parts, uses' = uses, LeaveWidget
  PROVE  Parts'
<1>1. cols' = cols /\ Ids(cols') = Ids(cols) /\ shows' = shows
  BY DEF LeaveWidget, workspace
<1>2. Board'
  BY BoardStays DEF LeaveWidget, Parts, Board, DeskTypes, history
<1>3. Seat'
  BY <1>1, Released, Seats DEF LeaveWidget, Seat, FocusHeld, Widget, NoFocus
<1>4. Rooms'
  BY <1>1, RoomsStay DEF LeaveWidget, Parts
<1>5. Layers'
  BY LayersClear DEF LeaveWidget, ToWidget, Covered, Parts, Layers, ModalTypes, history
<1>. QED
  BY <1>2, <1>3, <1>4, <1>5 DEF Parts

LEMMA CycleFocusStep ==
  ASSUME Parts, uses' = uses, NEW d \in {-1, 1}, CycleFocus(d)
  PROVE  Parts'
<1>1. cols' = cols /\ Ids(cols') = Ids(cols) /\ shows' = shows
  BY DEF CycleFocus, workspace
<1>2. Board'
  BY BoardStays DEF CycleFocus, Parts, Board, DeskTypes, history
<1>3. Seat'
  <2>1. PICK n : n = Len(cols)
    OBVIOUS
  <2>2. PICK slots : slots = n + IF shows THEN 1 ELSE 0
    OBVIOUS
  <2>3. PICK cur : cur = CASE focus = Widget -> n + 1 [] focus = NoFocus -> 1 [] OTHER -> focus
    OBVIOUS
  <2>4. PICK next : next = Moved(cur, d, slots)
    OBVIOUS
  <2>5. n \in Nat /\ slots \in Nat /\ cur \in Int
    BY <2>1, <2>2, <2>3, Seats DEF Widget, NoFocus
  <2>6. slots # 0 => next \in 1..slots
    BY <2>4, <2>5, MovedWithin
  <2>7. IF slots = 0 THEN focus' = NoFocus /\ last' = last
        ELSE IF next = n + 1 THEN focus' = Widget /\ last' = last
        ELSE focus' = next /\ last' = next
    BY <2>1, <2>2, <2>3, <2>4 DEF CycleFocus
  <2>8. CASE slots = 0
    BY <1>1, <2>1, <2>2, <2>5, <2>7, <2>8, Seats DEF Seat, FocusHeld, Widget, NoFocus
  <2>9. CASE slots # 0 /\ next = n + 1
    BY <1>1, <2>1, <2>2, <2>5, <2>6, <2>7, <2>9, Seats DEF Seat, FocusHeld, Widget, NoFocus
  <2>10. CASE slots # 0 /\ next # n + 1
    <3>1. next \in 1..n
      BY <2>2, <2>5, <2>6, <2>10
    <3>. QED
      BY <1>1, <2>1, <2>5, <2>7, <2>10, <3>1, Seats DEF Seat, FocusHeld, Widget, NoFocus
  <2>. QED
    BY <2>8, <2>9, <2>10
<1>4. Rooms'
  BY <1>1, RoomsStay DEF CycleFocus, Parts
<1>5. Layers'
  BY LayersClear DEF CycleFocus, ToGlobal, Covered, Parts, Layers, ModalTypes, history
<1>. QED
  BY <1>2, <1>3, <1>4, <1>5 DEF Parts

LEMMA ToggleWidgetStep ==
  ASSUME Parts, uses' = uses, ToggleWidget
  PROVE  Parts'
<1>1. cols' = cols /\ Ids(cols') = Ids(cols) /\ nextId' = nextId /\ shows' = ~shows /\ last' = last
  BY DEF ToggleWidget
<1>2. cols' \in Columns /\ nextId' \in Nat /\ shows' \in BOOLEAN /\ Coherent(cols', nextId', strayed)
  BY <1>1 DEF Parts, Board, DeskTypes, Filed, Columns
<1>3. Board'
  BY <1>2, BoardSaved DEF ToggleWidget, Parts, Board, DeskTypes, history
<1>4. Seat'
  <2>1. CASE shows /\ focus = Widget
    BY <1>1, <2>1, Released, Seats DEF ToggleWidget, Seat, FocusHeld, Widget, NoFocus
  <2>2. CASE ~(shows /\ focus = Widget)
    <3>1. focus' = focus
      BY <2>2 DEF ToggleWidget
    <3>2. focus # Widget
      BY <2>2, Seats
    <3>. QED
      BY <1>1, <3>1, <3>2 DEF Parts, Seat, FocusHeld
  <2>. QED
    BY <2>1, <2>2
<1>5. Rooms'
  BY <1>1, RoomsStay DEF ToggleWidget, Parts
<1>6. Layers'
  BY LayersClear DEF ToggleWidget, ToGlobal, Covered, Parts, Layers, ModalTypes, history
<1>. QED
  BY <1>3, <1>4, <1>5, <1>6 DEF Parts

LEMMA MoveColumnStep ==
  ASSUME Parts, uses' = uses, NEW d \in {-1, 1}, MoveColumn(d)
  PROVE  Parts'
<1>1. PICK to : to = focus + d
  OBVIOUS
<1>2. /\ focus \in DOMAIN cols /\ to \in DOMAIN cols /\ focus # to /\ cols' = Swapped(cols, focus, to)
      /\ focus' = to /\ last' = to
  BY <1>1, Seats DEF MoveColumn, OnColumn
<1>3. cols \in Columns /\ Coherent(cols, nextId, strayed) /\ nextId \in Nat
  BY DEF Parts, Board, DeskTypes, Filed, Columns
<1>4. /\ cols' \in Columns /\ DOMAIN cols' = DOMAIN cols /\ Coherent(cols', nextId, strayed)
      /\ Ids(cols') = Ids(cols)
  BY <1>2, <1>3, SwappedAgree
<1>5. Board'
  BY <1>3, <1>4, BoardSaved DEF MoveColumn, Parts, Board, DeskTypes, history
<1>6. Seat'
  <2>1. cols' # <<>> /\ DOMAIN cols = 1..Len(cols) /\ Len(cols) \in Nat
    BY <1>2, <1>3, <1>4, Entries
  <2>. QED
    BY <1>2, <1>4, <2>1 DEF MoveColumn, Seat, FocusHeld, Widget, NoFocus
<1>7. Rooms'
  BY <1>4, RoomsStay DEF MoveColumn, Parts
<1>8. Layers'
  BY LayersClear DEF MoveColumn, ToGlobal, Covered, Parts, Layers, ModalTypes, history
<1>. QED
  BY <1>5, <1>6, <1>7, <1>8 DEF Parts

\* The keyboard moves to a neighbour of the column that is removed.
LEMMA RemoveColumnStep ==
  ASSUME Parts, uses' = uses, RemoveColumn
  PROVE  Parts'
<1>1. /\ focus \in DOMAIN cols /\ cols' = RemoveAt(cols, focus) /\ panes' = Sync(panes, cols')
      /\ focus' = (IF focus <= Len(cols') THEN focus ELSE Len(cols')) /\ last' = focus'
  BY DEF RemoveColumn, OnColumn
<1>2. cols \in Columns /\ Coherent(cols, nextId, strayed) /\ nextId \in Nat
  BY DEF Parts, Board, DeskTypes, Filed, Columns
<1>3. cols' \in Columns /\ Len(cols') = Len(cols) - 1 /\ Coherent(cols', nextId, strayed)
  BY <1>1, <1>2, Removed
<1>4. Board'
  BY <1>2, <1>3, BoardSaved DEF RemoveColumn, Parts, Board, DeskTypes, history
<1>5. Seat'
  <2>1. Len(cols) \in Nat /\ focus \in 1..Len(cols)
    BY <1>1, <1>2, Entries
  <2>2. DOMAIN cols' = 1..Len(cols') /\ Len(cols') \in Nat /\ (cols' = <<>> <=> DOMAIN cols' = {})
    BY <1>3, Entries
  <2>3. CASE focus <= Len(cols')
    BY <1>1, <2>1, <2>2, <2>3 DEF Seat, FocusHeld, Widget, NoFocus
  <2>4. CASE focus > Len(cols')
    BY <1>1, <2>1, <2>2, <2>4 DEF Seat, FocusHeld, Widget, NoFocus
  <2>. QED
    BY <2>1, <2>2, <2>3, <2>4
<1>6. Rooms'
  BY <1>1, <1>3, RoomsSynced DEF Parts, Rooms, PaneFit
<1>7. Layers'
  BY LayersClear DEF RemoveColumn, ToGlobal, Covered, Parts, Layers, ModalTypes, history
<1>. QED
  BY <1>4, <1>5, <1>6, <1>7 DEF Parts

LEMMA ChooseTypeStep ==
  ASSUME Parts, uses' = uses, ChooseType
  PROVE  Parts'
<1>1. PICK t : t = Types[picker]
  OBVIOUS
<1>2. t \in Type
  BY <1>1, DeskAssumption, ElementOfSeq DEF Parts, Layers, ModalTypes
<1>3. cols \in Columns /\ Coherent(cols, nextId, strayed) /\ nextId \in Nat /\ strayed \in BOOLEAN
  BY DEF Parts, Board, DeskTypes, Filed, Columns
<1>4. PICK n \in Nat : n = Len(cols) + 1
  BY <1>3, Entries
<1>6. /\ cols' = Added(cols, t, nextId) /\ nextId' = nextId + 1 /\ shows' = shows
      /\ focus' = n /\ last' = n /\ panes' = Sync(panes, cols')
      /\ strayed' = (strayed \/ Gone(cols)) /\ Save
  BY <1>1, <1>4 DEF ChooseType, AppendColumn, Mint, Added
<1>7. cols' \in Columns /\ DOMAIN cols' = 1..n /\ n # 0 /\ Coherent(cols', nextId + 1, strayed')
  <2>1. ~strayed' => ~strayed /\ ~Gone(cols)
    BY <1>6
  <2>2. Len(cols) \in Nat
    BY <1>3, Entries
  <2>. QED
    BY <1>2, <1>3, <1>4, <1>6, <2>1, <2>2, AddedAgrees
<1>8. Board'
  <2>1. strayed' \in BOOLEAN /\ (strayed => strayed') /\ nextId' \in Nat /\ shows' \in BOOLEAN
    BY <1>3, <1>6 DEF Gone, Parts, Board, DeskTypes
  <2>. QED
    BY <1>6, <1>7, <2>1, BoardSaved DEF ChooseType, Parts, Board, DeskTypes
<1>9. Seat'
  <2>1. cols' # <<>> /\ n # -1 /\ n # 0 /\ n \in DOMAIN cols'
    BY <1>7, Entries
  <2>. QED
    <3>1. focus' = n /\ last' = n /\ n \in Nat /\ n # 0 /\ n # -1
      BY <1>6, <1>7, <2>1
    <3>. QED
      BY <2>1, <3>1 DEF Seat, FocusHeld, Widget, NoFocus
<1>10. Rooms'
  BY <1>6, <1>7, RoomsSynced DEF Parts, Rooms, PaneFit
<1>11. Layers'
  <2>1. /\ overlays' = {} /\ ~confirm'.open /\ adding' = FALSE /\ pending' = None
        /\ UNCHANGED <<picker, confirm, pending, list, deleted>>
    BY DEF ChooseType, Listing, Parts, Layers, OverlaysAnswer
  <2>2. ModalTypes'
    BY <2>1 DEF Parts, Layers, ModalTypes
  <2>3. OverlaysAnswer'
    BY <2>1, NoneUp DEF OverlaysAnswer, Covered
  <2>4. PromptFits'
    BY <2>1 DEF PromptFits
  <2>. QED
    BY <2>2, <2>3, <2>4 DEF Layers
<1>. QED
  BY <1>8, <1>9, <1>10, <1>11 DEF Parts

-----------------------------------------------------------------------------
(* What happens without a key, and how it begins.                          *)

\* An advance is not saved, and changes nothing that a restart keeps.
LEMMA FollowStep ==
  ASSUME Parts, uses' = uses, NEW i \in DOMAIN cols, NEW s \in Span, NEW route \in Routes(s),
         Follow(i, s, route)
  PROVE  Parts'
<1>1. cols \in Columns /\ Coherent(cols, nextId, strayed) /\ cols[i].type = "spans"
  BY DEF Follow, Parts, Board, DeskTypes, Filed, Columns
<1>2. /\ Alike(cols, cols') /\ Coherent(cols', nextId, strayed) /\ Lasting(cols') = Lasting(cols)
  BY <1>1, SelectionSpread DEF Follow
<1>3. cols' \in Columns /\ Ids(cols') = Ids(cols)
  BY <1>2, AlikeColumns DEF Parts
<1>4. Board'
  <2>1. advances' \in 0..MaxAdvances
    BY DeskAssumption DEF Follow, Parts, Board, DeskTypes
  <2>2. DeskTypes'
    BY <1>3, <2>1 DEF Follow, Parts, Board, DeskTypes, Columns, history
  <2>3. Filed'
    <3>1. UNCHANGED <<nextId, shows, saved, failures, strayed>>
      BY DEF Follow, history
    <3>2. Lasting(cols)' = Lasting(cols')
      BY DEF Lasting
    <3>3. RestartKeeps'
      BY <1>2, <3>1, <3>2 DEF Parts, Board, Filed, RestartKeeps, Lasting
    <3>. QED
      BY <1>2, <3>1, <3>3 DEF Parts, Board, Filed
  <2>. QED
    BY <2>2, <2>3 DEF Board
<1>5. Seat'
  BY <1>2, SeatStays DEF Follow, keyboard, Parts
<1>6. Rooms'
  BY <1>3, RoomsStay DEF Follow, Parts
<1>7. Layers'
  <2>1. Typing' <=> Typing
    BY <1>2, TypingStays DEF Follow, keyboard
  <2>2. UNCHANGED <<overlays, adding, picker, confirm, pending, list, deleted>>
    BY DEF Follow, keyboard, history
  <2>3. ModalTypes'
    BY <2>2 DEF Parts, Layers, ModalTypes
  <2>4. OverlaysAnswer'
    BY <2>1, <2>2 DEF Parts, Layers, OverlaysAnswer
  <2>5. PromptFits'
    BY <1>2, <2>2, HereStays DEF Follow, keyboard, Parts, Layers, PromptFits
  <2>. QED
    BY <2>3, <2>4, <2>5 DEF Layers
<1>. QED
  BY <1>4, <1>5, <1>6, <1>7 DEF Parts

\* A run begins with no overlay, on the first column.
Opening ==
  /\ cols \in Columns /\ shows \in BOOLEAN /\ focus = FirstFocus(cols) /\ last = FirstFocus(cols)
  /\ panes = Sync(<<>>, cols)
  /\ overlays = {} /\ adding = FALSE /\ picker = 1 /\ pending = None
  /\ confirm = [open |-> FALSE, yes |-> FALSE, names |-> None]
  /\ list \in Lists /\ deleted \subseteq Session

LEMMA Opened == Opening => Seat /\ Rooms /\ Layers
<1>. SUFFICES ASSUME Opening
              PROVE  Seat /\ Rooms /\ Layers
  OBVIOUS
<1>1. /\ Len(cols) \in Nat /\ DOMAIN cols = 1..Len(cols) /\ (cols = <<>> <=> DOMAIN cols = {})
      /\ \A i \in DOMAIN cols : cols[i] \in ColumnState
  BY Entries DEF Opening
<1>2. Seat
  <2>1. CASE cols = <<>>
    BY <1>1, <2>1 DEF Opening, Seat, FocusHeld, FirstFocus, Widget, NoFocus
  <2>2. CASE cols # <<>>
    BY <1>1, <2>2 DEF Opening, Seat, FocusHeld, FirstFocus, Widget, NoFocus
  <2>. QED
    BY <2>1, <2>2
<1>3. Rooms
  <2>1. DOMAIN <<>> = {}
    OBVIOUS
  <2>2. panes = [d \in Ids(cols) |-> Fresh(d[1])]
    BY <2>1 DEF Opening, Sync
  <2>3. \A d \in Ids(cols) : d \in Type \X Nat
    BY <1>1 DEF Ids, ColumnState
  <2>4. ASSUME NEW d \in Ids(cols)
        PROVE  panes[d] \in PaneState /\ panes[d].type = d[1] /\ panes[d].mode = "main"
    BY <2>2, <2>3, DeskAssumption DEF Fresh, PaneState
  <2>5. DOMAIN panes = Ids(cols)
    BY <2>2
  <2>. QED
    BY <2>3, <2>4, <2>5 DEF Rooms, PaneFit
<1>4. Layers
  <2>1. 1 \in DOMAIN Types
    BY DeskAssumption, EmptySeq
  <2>2. ModalTypes
    BY <2>1 DEF Opening, ModalTypes, or
  <2>3. OverlaysAnswer
    BY NoneUp DEF Opening, OverlaysAnswer, Covered
  <2>4. PromptFits
    BY DEF Opening, PromptFits
  <2>. QED
    BY <2>2, <2>3, <2>4 DEF Layers
<1>. QED
  BY <1>2, <1>3, <1>4

LEMMA OpenedAgain == Opening' => Seat' /\ Rooms' /\ Layers'
BY Opened, PTL

\* A restart finds the columns it left, or the seed.
LEMMA RestartStep ==
  ASSUME Parts, uses' = uses, Restart
  PROVE  Parts'
<1>1. PICK w : w = Load(saved)
  OBVIOUS
<1>2. /\ cols' = w.cols /\ nextId' = w.nextId /\ shows' = w.shows
      /\ UNCHANGED <<uses, list, saved, advances, failures, deleted, strayed>>
  BY <1>1 DEF Restart, Boot, history
<1>3. strayed \in BOOLEAN
  BY DEF Parts, Board, DeskTypes
<1>4. /\ w.cols \in Columns /\ w.nextId \in Nat /\ w.shows \in BOOLEAN
      /\ Coherent(w.cols, w.nextId, strayed)
      /\ saved # Torn => w = saved
  <2>1. CASE saved = Torn
    <3>1. w = Seeded(Seed) /\ Distinct(Seed)
      BY <1>1, <2>1, DeskAssumption DEF Load
    <3>2. w.cols \in Columns /\ w.nextId = 1 /\ w.shows = TRUE /\ Coherent(w.cols, w.nextId, strayed)
      BY <3>1, SeededAgree
    <3>3. w.nextId \in Nat
      BY <3>2
    <3>4. w.shows \in BOOLEAN
      BY <3>2
    <3>. QED
      BY <2>1, <3>2, <3>3, <3>4
  <2>2. CASE saved # Torn
    <3>1. w = saved
      BY <1>1, <2>2 DEF Load
    <3>2. w.cols \in Columns /\ w.nextId \in Nat /\ w.shows \in BOOLEAN
      BY <2>2, <3>1 DEF Parts, Board, DeskTypes, Columns
    <3>3. Coherent(w.cols, w.nextId, strayed)
      BY <2>2, <3>1 DEF Parts, Board, Filed
    <3>. QED
      BY <3>1, <3>2, <3>3
  <2>. QED
    BY <2>1, <2>2
<1>5. Board'
  <2>1. DeskTypes'
    BY <1>2, <1>4 DEF Parts, Board, DeskTypes, Columns
  <2>2. failures = 0 => saved # Torn
    BY DEF Parts, Board, Filed, RestartKeeps, Torn, Coherent, Owned
  <2>3. RestartKeeps'
    BY <1>2, <1>4, <2>2 DEF RestartKeeps
  <2>4. Filed'
    BY <1>2, <1>4, <2>3 DEF Parts, Board, Filed
  <2>. QED
    BY <2>1, <2>4 DEF Board
<1>6. Seat' /\ Rooms' /\ Layers'
  <2>1. /\ focus' = FirstFocus(w.cols) /\ last' = FirstFocus(w.cols) /\ panes' = Sync(<<>>, w.cols)
        /\ overlays' = {} /\ adding' = FALSE /\ picker' = 1 /\ pending' = None
        /\ confirm' = [open |-> FALSE, yes |-> FALSE, names |-> None]
    BY <1>1 DEF Restart, Boot
  <2>2. list' \in Lists /\ deleted' \subseteq Session
    BY <1>2 DEF Parts, Layers, ModalTypes
  <2>3. Opening'
    BY <1>2, <1>4, <2>1, <2>2 DEF Opening
  <2>. QED
    BY <2>3, OpenedAgain
<1>. QED
  BY <1>5, <1>6 DEF Parts

-----------------------------------------------------------------------------
(* The theorems.                                                           *)

LEMMA InitParts == Init => Parts
<1>. SUFFICES ASSUME Init
              PROVE  Parts
  OBVIOUS
<1>1. PICK types \in Layouts :
        LET w == Seeded(types) IN
        /\ cols = w.cols /\ nextId = 1 /\ shows = TRUE
        /\ focus = FirstFocus(w.cols) /\ last = FirstFocus(w.cols)
        /\ panes = Sync(<<>>, w.cols)
        /\ overlays = {} /\ adding = FALSE /\ picker = 1 /\ pending = None
        /\ confirm = [open |-> FALSE, yes |-> FALSE, names |-> None]
        /\ saved = w
        /\ list = SetToSeq(Session) /\ advances = 0 /\ failures = 0
        /\ deleted = {} /\ strayed = FALSE
  BY DEF Init
<1>2. PICK w : w = Seeded(types)
  OBVIOUS
<1>3. /\ cols = w.cols /\ nextId = 1 /\ shows = TRUE /\ saved = w
      /\ advances = 0 /\ failures = 0 /\ deleted = {} /\ strayed = FALSE /\ uses \in Habits
      /\ list = SetToSeq(Session)
  BY <1>1, <1>2 DEF Init
<1>4. /\ w.cols \in Columns /\ w.nextId = 1 /\ w.shows = TRUE
      /\ Coherent(w.cols, w.nextId, strayed)
  <2>1. Distinct(types)
    BY DeskAssumption
  <2>. QED
    BY <1>2, <2>1, SeededAgree
<1>5. Board
  <2>1. 0 \in 0..MaxAdvances /\ 0 \in 0..MaxFailures
    BY DeskAssumption
  <2>2. w.nextId \in Nat /\ nextId \in Nat
    BY <1>3, <1>4
  <2>3. w.shows \in BOOLEAN /\ shows \in BOOLEAN /\ strayed \in BOOLEAN
    BY <1>3, <1>4
  <2>4. DeskTypes
    BY <1>3, <1>4, <2>1, <2>2, <2>3 DEF DeskTypes, Columns
  <2>5. Coherent(cols, nextId, strayed) /\ Coherent(saved.cols, saved.nextId, strayed)
    BY <1>3, <1>4
  <2>6. RestartKeeps
    <3>1. saved.shows = shows
      BY <1>3, <1>4
    <3>. QED
      BY <1>3, <1>4, <3>1 DEF RestartKeeps
  <2>. QED
    BY <2>4, <2>5, <2>6 DEF Board, Filed
<1>6. Opening
  <2>1. shows \in BOOLEAN
    BY <1>3
  <2>2. list \in Lists
    BY <1>3, AllListed
  <2>. QED
    BY <1>1, <1>2, <1>3, <1>4, <2>1, <2>2 DEF Opening
<1>. QED
  BY <1>5, <1>6, Opened DEF Parts

\* The keys an overlay, a popover or the widget gets.
LEMMA ModalStays ==
  ASSUME Parts, uses' = uses, Modal
  PROVE  Parts'
<1>1. CASE CloseOverlay
  BY <1>1, CloseOverlayStep
<1>2. CASE ToggleYes
  BY <1>2, ToggleYesStep
<1>3. CASE \E yes \in BOOLEAN : Answer(yes)
  BY <1>3, AnswerStep
<1>4. CASE CancelAdd
  BY <1>4, CancelAddStep
<1>5. CASE ChooseType
  BY <1>5, ChooseTypeStep
<1>6. CASE \E d \in {-1, 1} : MovePicker(d)
  BY <1>6, MovePickerStep
<1>7. CASE \E d \in {-1, 1} : MoveSessionPicker(d)
  BY <1>7, MoveSessionPickerStep
<1>8. CASE ClosePopover
  BY <1>8, ClosePopoverStep
<1>9. CASE ChooseSession
  BY <1>9, ChooseSessionStep
<1>10. CASE ChooseKind
  BY <1>10, ChooseKindStep
<1>11. CASE LeaveWidget
  BY <1>11, LeaveWidgetStep
<1>. QED
  BY <1>1, <1>2, <1>3, <1>4, <1>5, <1>6, <1>7, <1>8, <1>9, <1>10, <1>11 DEF Modal

\* The keys the focused column gets.
LEMMA ColumnStays ==
  ASSUME Parts, uses' = uses, Column
  PROVE  Parts'
<1>1. CASE Sessions
  <2>1. CASE Enter("session")
    BY <2>1, EnterStep
  <2>2. CASE \E i \in 1..Cardinality(Session) : MoveSession(i)
    BY <2>2, MoveSessionStep
  <2>. QED
    BY <1>1, <2>1, <2>2 DEF Sessions
<1>2. CASE AskDelete
  BY <1>2, AskDeleteStep
<1>3. CASE Search
  <2>1. CASE Enter("typing")
    BY <2>1, EnterStep
  <2>2. CASE EndTyping
    BY <2>2, EndTypingStep
  <2>3. CASE ClearSearch
    BY <2>3, ClearSearchStep
  <2>4. CASE \E q \in Query : Type1(q)
    BY <2>4, Type1Step
  <2>. QED
    BY <1>3, <2>1, <2>2, <2>3, <2>4 DEF Search
<1>4. CASE Pick
  <2>1. CASE \E s \in Span : SelectBar(s)
    BY <2>1, SelectBarStep
  <2>2. CASE \E s \in Span : \E route \in Routes(s) : PickSpan(s, route)
    BY <2>2, PickSpanStep
  <2>. QED
    BY <1>4, <2>1, <2>2 DEF Pick
<1>. QED
  BY <1>1, <1>2, <1>3, <1>4 DEF Column

\* The keys that work in every column.
LEMMA GlobalStays ==
  ASSUME Parts, uses' = uses, Global
  PROVE  Parts'
<1>1. CASE OpenAdd
  BY <1>1, OpenAddStep
<1>2. CASE Arrange
  <2>1. CASE RemoveColumn
    BY <2>1, RemoveColumnStep
  <2>2. CASE \E d \in {-1, 1} : MoveColumn(d)
    BY <2>2, MoveColumnStep
  <2>. QED
    BY <1>2, <2>1, <2>2 DEF Arrange
<1>3. CASE Overlay
  <2>1. CASE Enter("kind")
    BY <2>1, EnterStep
  <2>2. CASE \E o \in {"keymap", "log"} : ShowOverlay(o)
    BY <2>2, ShowOverlayStep
  <2>. QED
    BY <1>3, <2>1, <2>2 DEF Overlay
<1>4. CASE ToggleWidget
  BY <1>4, ToggleWidgetStep
<1>5. CASE \E d \in {-1, 1} : CycleFocus(d)
  BY <1>5, CycleFocusStep
<1>. QED
  BY <1>1, <1>2, <1>3, <1>4, <1>5 DEF Global

\* What happens without a key.
LEMMA UnattendedStays ==
  ASSUME Parts, uses' = uses, Unattended
  PROVE  Parts'
<1>1. CASE \E l \in Lists : Relist(l)
  BY <1>1, RelistStep
<1>2. CASE \E i \in DOMAIN cols, s \in Span : \E route \in Routes(s) : Follow(i, s, route)
  BY <1>2, FollowStep
<1>3. CASE Restart
  BY <1>3, RestartStep
<1>. QED
  BY <1>1, <1>2, <1>3 DEF Unattended

LEMMA NextParts == Parts /\ [Next]_vars => Parts'
<1>. SUFFICES ASSUME Parts, [Next]_vars
              PROVE  Parts'
  OBVIOUS
<1>1. CASE Next
  BY <1>1, ModalStays, ColumnStays, GlobalStays, UnattendedStays DEF Next
<1>2. CASE UNCHANGED vars
  <2>1. UNCHANGED <<uses, workspace, keyboard, panes, list, saved, advances, failures, history>>
    BY <1>2 DEF vars
  <2>2. UNCHANGED <<overlays, adding, picker, confirm, pending, list, deleted>>
    BY <2>1 DEF keyboard, history
  <2>3. Typing' <=> Typing
    BY <2>1, TypingSame DEF keyboard
  <2>4. Layers'
    <3>1. ModalTypes' /\ OverlaysAnswer'
      BY <2>2, <2>3 DEF Parts, Layers, ModalTypes, OverlaysAnswer
    <3>2. PromptFits'
      BY <2>1, <2>2 DEF Parts, Layers, PromptFits, OnColumn, Here, workspace, keyboard
    <3>. QED
      BY <3>1, <3>2 DEF Layers
  <2>. QED
    BY <2>1, <2>4, ModalStep DEF keyboard, history
<1>. QED
  BY <1>1, <1>2

\* What is on the desk, who has the keyboard, the scenarios and the overlays
\* fit together, and what is saved would fit together again, after any keys,
\* effects, failed saves and restarts.
THEOREM AlwaysSettled == Spec => []Settled
<1>1. Spec => []Parts
  BY InitParts, NextParts, PTL DEF Spec
<1>2. Parts => Settled
  BY SettledParts DEF Parts
<1>. QED
  BY <1>1, <1>2, PTL

LEMMA SettledHolds == Settled => KeyboardHeld
<1>. SUFFICES ASSUME Settled
              PROVE  KeyboardHeld
  OBVIOUS
<1>1. Board /\ Rooms /\ TypeOK /\ FocusHeld /\ OverlaysAnswer
  BY SettledParts DEF Settled
<1>2. \A i, j \in DOMAIN cols : i # j => cols[i].id # cols[j].id
  BY <1>1 DEF Board, Filed, Coherent, Owned
<1>3. \A i \in DOMAIN cols : panes[cols[i].id].type = cols[i].type
  BY <1>1 DEF Board, Filed, Coherent, Owned, Rooms, PaneFit, Ids
<1>4. DOMAIN panes = Ids(cols)
  BY <1>1 DEF Rooms
<1>. QED
  BY <1>1, <1>2, <1>3, <1>4 DEF KeyboardHeld, PanesOwned

\* The keyboard is always somewhere that exists, each column has a scenario
\* of its own, and an overlay that is up can be answered: the layered routing
\* of key_router.rs and the column edits of workspace.rs.
THEOREM KeyboardAlwaysHeld == Spec => []KeyboardHeld
BY AlwaysSettled, SettledHolds, PTL

\* The columns that follow a session show one, the detail columns search for
\* one text and show spans of their kind, and a restart finds them so: the
\* effects of effects.rs and the file of persist.rs.
THEOREM ColumnsAlwaysAgree == Spec => []ColumnsAgree
<1>1. Settled => ColumnsAgree
  BY DEF Settled, Filed, Coherent, ColumnsAgree
<1>. QED
  BY <1>1, AlwaysSettled, PTL

\* Only an answer deletes, it deletes what its prompt named, and it leaves no
\* column there.
LEMMA AnswerDeletes ==
  ASSUME Parts, Next, NEW c \in Session, c \in deleted' \ deleted
  PROVE  /\ confirm.open /\ confirm.names = c
         /\ \A i \in DOMAIN cols' : cols'[i].session # c
<1>1. PICK yes \in BOOLEAN : Answer(yes)
  <2>1. CASE Modal
    BY <2>1 DEF Modal, CloseOverlay, ToggleYes, CancelAdd, ChooseType, AppendColumn, MovePicker,
                MoveSessionPicker, ClosePopover, ChooseSession, ChooseKind, LeaveWidget, history
  <2>2. CASE Column
    BY <2>2 DEF Column, Sessions, Search, Pick, AskDelete, Enter, MoveSession, EndTyping, ClearSearch,
                Type1, SelectBar, PickSpan, history
  <2>3. CASE Global
    BY <2>3 DEF Global, OpenAdd, Arrange, Overlay, ToggleWidget, CycleFocus, RemoveColumn, MoveColumn,
                Enter, ShowOverlay, history
  <2>4. CASE Unattended
    BY <2>4 DEF Unattended, Relist, Follow, Restart, history
  <2>. QED
    BY <2>1, <2>2, <2>3, <2>4 DEF Next
<1>2. pending # None /\ DoDelete(pending) /\ confirm.open
  BY <1>1 DEF Answer, Asked, history
<1>3. pending = c /\ cols' = ClearSession(cols, c)
  BY <1>2 DEF DoDelete
<1>4. confirm.names = pending
  BY <1>2 DEF Parts, Layers, PromptFits
<1>5. cols \in Columns
  BY DEF Parts, Board, DeskTypes, Columns
<1>6. \A i \in DOMAIN cols' : cols'[i].session # c
  <2>1. Coherent(cols, nextId, strayed)
    BY DEF Parts, Board, Filed
  <2>2. Alike(cols, cols') /\ \A i \in DOMAIN cols : cols'[i].session # c
    BY <1>3, <1>5, <2>1, SessionCleared
  <2>. QED
    BY <2>2 DEF Alike
<1>. QED
  BY <1>2, <1>3, <1>4, <1>6

\* What is deleted is what the prompt named when it was opened, whatever the
\* list of sessions has become, and no column is left on it: the confirmation
\* of app.rs.
THEOREM DeletesNamed == Spec => DeletesWhatItNamed
<1>1. Parts /\ [Next]_vars =>
        [\A c \in Session :
           c \in deleted' \ deleted =>
             /\ confirm.open /\ confirm.names = c
             /\ \A i \in DOMAIN cols' : cols'[i].session # c]_vars
  BY AnswerDeletes
<1>2. Spec => []Parts
  BY InitParts, NextParts, PTL DEF Spec
<1>. QED
  BY <1>1, <1>2, PTL DEF Spec, DeletesWhatItNamed
=============================================================================

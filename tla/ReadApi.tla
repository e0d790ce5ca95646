------------------------------- MODULE ReadApi -------------------------------
(***************************************************************************)
(* The handlers that read the database.  Most ask several queries one      *)
(* after another, outside any transaction: between two of them any step of *)
(* normalize_span or delete_session may fall.  One request is followed at  *)
(* a time, for requests do not change what another one reads.              *)
(***************************************************************************)
EXTENDS SessionStore, Integers

CONSTANTS
  Kind,     \* Kind[s]: the kind class of the name of s, once s is real
  Start,    \* Start[s], End[s]: its timestamps (positive; starts are distinct)
  End,
  Liked,    \* Liked[s]: the fields of s that are LIKE '%q%', attributes as JSON
  Text,     \* Text[s]: the fields of s in whose content q itself occurs
  Limits,   \* values of ?limit=
  MaxLimit  \* the largest page

KindClass == {"chat", "execute_tool", "invoke_agent", "external_tool", "other"}
Field == {"name", "attributes", "tool", "agent", "event"}

ASSUME ReadAssumption ==
  /\ Kind \in [Span -> KindClass]
  /\ Start \in [Span -> Nat \ {0}] /\ End \in [Span -> Nat \ {0}]
  /\ Liked \in [Span -> SUBSET Field] /\ Text \in [Span -> SUBSET Field]
  /\ Limits \subseteq Int /\ MaxLimit \in Nat \ {0}

VARIABLES
  ask,  \* the request: its path, what it asks for, the queries still to come,
        \* and the rows that are to be asked about once those are answered
  got,  \* what its queries have returned
  seen  \* history: the database when it came, and the spans touched since

store == vars
all == <<store, ask, got, seen>>

NoAsk == [path |-> "none", of |-> None, todo |-> <<>>, rest |-> {}]

Nothing ==
  [pk |-> [s \in Span |-> 0],         \* the spans of the answer
   block |-> [s \in Span |-> 0],      \* the span_pk of their projection blocks
   events |-> [s \in Span |-> <<>>],  \* and their events
   match |-> {},                      \* fields found to match
   parent |-> None, children |-> {},  \* the kin of one span
   trace |-> [t \in {} |-> 0]]        \* the rows of list_traces

Unseen == [projected |-> {}, settled |-> {}, touched |-> {}, gone |-> {}]

-----------------------------------------------------------------------------
(* What single queries return.                                             *)

Present == {s \in Span : pk[s] # 0}
KindOf(s) == IF s \in real THEN Kind[s] ELSE "other" \* a placeholder has no name
EndOf(s) == IF s \in real THEN End[s] ELSE 0
InTrace(t) == {s \in Present : TraceOf[s] = t}

(* The rows that list_spans and search_spans count as the session's: those *)
(* of external tools only by their own attribute.                          *)
Scope(c) ==
  {s \in real : ConvAttr[s] = c \/ (filed[s] = c /\ Kind[s] # "external_tool")}

(* Of some fields of s, those that its rows have.                          *)
Held(s, fields) ==
  {f \in fields :
     CASE f = "tool" -> Kind[s] = "execute_tool" /\ filed[s] # NoRow
       [] f = "agent" -> Kind[s] = "invoke_agent" /\ filed[s] # NoRow
       [] f = "event" -> eventRows[s] # <<>>
       [] OTHER -> s \in real}

(* What makes s a hit, and where q is then found in it.  The two differ:   *)
(* '_' and '%' in q are wildcards of LIKE, only LIKE looks at the names of *)
(* attributes and at what JSON escapes, and it ignores the case of ASCII   *)
(* letters only.                                                           *)
LikeIn(s) == Held(s, Liked[s])
FoundIn(s) == Held(s, Text[s])

Clamp(n) == IF n < 1 THEN 1 ELSE IF n > MaxLimit THEN MaxLimit ELSE n

(* ORDER BY ... LIMIT n: which ones of S may be returned.                  *)
Pages(S, n, Ahead(_, _)) ==
  {P \in SUBSET S :
     /\ Cardinality(P) = IF Cardinality(S) < Clamp(n) THEN Cardinality(S) ELSE Clamp(n)
     /\ \A a \in P, b \in S \ P : ~Ahead(b, a)}

Later(a, b) == Start[a] > Start[b]

LastSeen(t) ==
  LET ends == {EndOf(s) : s \in InTrace(t)} IN CHOOSE e \in ends : \A x \in ends : x <= e

(* Traces of placeholders only come first.                                 *)
Fresher(t, u) == LastSeen(u) # 0 /\ (LastSeen(t) = 0 \/ LastSeen(t) > LastSeen(u))

(* The first of the spans of t that have no parent in t, by end and row.   *)
RootOf(t) ==
  LET tops == {s \in InTrace(t) :
                 s \notin real \/ Parent(s) = None \/ Parent(s) \notin Present}
      Before(a, b) == EndOf(a) < EndOf(b) \/ (EndOf(a) = EndOf(b) /\ pk[a] < pk[b])
  IN IF tops = {} THEN None ELSE CHOOSE s \in tops : \A o \in tops \ {s} : Before(s, o)

ConversationsIn(t) == {ConvAttr[s] : s \in {x \in InTrace(t) \cap real : ConvAttr[x] # None}}

-----------------------------------------------------------------------------
(* A request arrives, and its first query is answered.                     *)

Projections == \* load_projections
  <<<<"block", "chat">>, <<"block", "execute_tool">>, <<"block", "invoke_agent">>,
    <<"block", "external_tool">>>>

BlocksOf(S) == IF S = {} THEN <<>> ELSE Projections

(* What is asked about row x of an answer.                                 *)
Inquiry(path, x) ==
  CASE path = "search" -> <<<<"tool", x>>, <<"agent", x>>, <<"event", x>>>>
    [] path = "export" -> <<<<"events", x>>>>
    [] path = "traces" -> <<<<"kinds", x>>, <<"root", x>>, <<"conversation", x>>>>

(* The loop over the rows: the next one, if no query is left to come.      *)
Turn(a) ==
  IF a.todo # <<>> \/ a.rest = {} THEN a
  ELSE LET x == CHOOSE x \in a.rest : TRUE
       IN [a EXCEPT !.todo = Inquiry(a.path, x), !.rest = @ \ {x}]

Rows(S) == [Nothing EXCEPT !.pk = [s \in Span |-> IF s \in S THEN pk[s] ELSE 0]]

Arrive(path, of, first, todo, rest) ==
  /\ ask = NoAsk
  /\ ask' = Turn([path |-> path, of |-> of, todo |-> todo, rest |-> rest])
  /\ got' = first
  /\ seen' = [Unseen EXCEPT
       !.projected = {s \in Span : filed[s] # NoRow},
       !.settled = {s \in real \ shared : \A w \in Worker : job[w].span # s}]
  /\ UNCHANGED store

GetSessionSpanTree(c) ==
  LET S == {s \in Present : TraceOf[s] \in TracesOf(c)} IN
  Arrive("tree", c, Rows(S), BlocksOf(S), {})

GetTrace(t) ==
  /\ InTrace(t) # {}
  /\ Arrive("trace", t, Rows(InTrace(t)), <<<<"conversation", t>>>> \o Projections, {})

ListSpans(c, kind, n) ==
  \E S \in Pages({s \in Scope(c) : KindOf(s) = kind}, n, Later) : Arrive("spans", c, Rows(S), <<>>, {})

GetSpan(s) ==
  LET kin == IF s \in real /\ Parent(s) # None THEN <<<<"parent", s>>>> ELSE <<>> IN
  /\ s \in Present
  /\ Arrive("span", s, Rows({s}),
            <<<<"events", s>>, <<"children", s>>>> \o kin \o Projections, {})

(* The name and the attributes are looked at in the row that the query     *)
(* gave.                                                                   *)
SearchSpans(c, n) ==
  \E S \in Pages({s \in Scope(c) : LikeIn(s) # {}}, n, Later) :
    Arrive("search", c,
           [Rows(S) EXCEPT !.match = {m \in S \X {"name", "attributes"} : m[2] \in FoundIn(m[1])}],
           BlocksOf(S), S)

(* Every real span of the session's traces, in the order of their starts.  *)
ExportSession(c) ==
  LET S == {s \in real : TraceOf[s] \in TracesOf(c)} IN
  /\ session[c] # NoRow
  /\ Arrive("export", c, Rows(S), <<>>, S)

(* The aggregates of each trace, before the three queries about each one.  *)
ListTraces(n) ==
  LET row(t) == [count |-> Cardinality(InTrace(t)), kinds |-> 0, root |-> None, conv |-> None,
                 placeholders |-> Cardinality(InTrace(t) \ real),
                 carriers |-> ConversationsIn(t)] IN \* history
  \E P \in Pages({TraceOf[s] : s \in Present}, n, Fresher) :
    Arrive("traces", None, [Nothing EXCEPT !.trace = [t \in P |-> row(t)]], <<>>, P)

-----------------------------------------------------------------------------
(* The queries that follow.                                                *)

(* A lookup by span_pk finds nothing once the row is another one.          *)
Same(s) == got.pk[s] # 0 /\ got.pk[s] = pk[s]

(* Mistake: the blocks are looked up by span_id.                           *)
BlockByName(kind) ==
  [s \in Span |-> IF got.pk[s] # 0 /\ filed[s] # NoRow /\ Kind[s] = kind THEN pk[s]
                  ELSE got.block[s]]

WithBlocks(kind) ==
  [s \in Span |-> IF Same(s) /\ filed[s] # NoRow /\ Kind[s] = kind THEN pk[s]
                  ELSE got.block[s]]

EventsOf(s) == IF Same(s) THEN eventRows[s] ELSE <<>>

ParentOf(s) == IF Parent(s) \in Present THEN Parent(s) ELSE None

Matching(s, f) == IF Same(s) /\ f \in FoundIn(s) THEN {<<s, f>>} ELSE {}

Answered(q, x) ==
  CASE q = "block"    -> [got EXCEPT !.block = WithBlocks(x)]
    [] q = "events"   -> [got EXCEPT !.events[x] = EventsOf(x)]
    [] q = "children" -> [got EXCEPT !.children = {s \in real : Parent(s) = x}]
    [] q = "parent"   -> [got EXCEPT !.parent = ParentOf(x)]
    [] q \in {"tool", "agent", "event"} -> [got EXCEPT !.match = @ \cup Matching(x, q)]
    [] q = "kinds"    -> [got EXCEPT !.trace[x].kinds = Cardinality(InTrace(x))]
    [] q = "root"     -> [got EXCEPT !.trace[x].root = RootOf(x)]

Query ==
  /\ ask.todo # <<>>
  /\ LET q == Head(ask.todo) IN
     IF q[1] # "conversation" THEN got' = Answered(q[1], q[2])
     ELSE IF ask.path = "trace" \/ ConversationsIn(q[2]) = {} THEN UNCHANGED got
     ELSE \E c \in ConversationsIn(q[2]) : got' = [got EXCEPT !.trace[q[2]].conv = c]
  /\ ask' = Turn([ask EXCEPT !.todo = Tail(@)])
  /\ UNCHANGED <<store, seen>>

(* The answer goes out.                                                    *)
Reply ==
  /\ ask # NoAsk /\ ask.todo = <<>>
  /\ ask' = NoAsk /\ got' = Nothing /\ seen' = Unseen
  /\ UNCHANGED store

(* A step of the writers.                                                  *)
Write ==
  /\ Next
  /\ seen' = IF ask = NoAsk THEN seen
             ELSE [seen EXCEPT
               !.touched = @ \cup {s \in Span : eventRows'[s] # eventRows[s]},
               !.gone = @ \cup {s \in Present : pk'[s] = 0}]
  /\ UNCHANGED <<ask, got>>

ReadInit == Init /\ ask = NoAsk /\ got = Nothing /\ seen = Unseen

Request ==
  \/ \E c \in Conversation :
       \/ GetSessionSpanTree(c) \/ ExportSession(c)
       \/ \E n \in Limits : SearchSpans(c, n) \/ (\E k \in KindClass : ListSpans(c, k, n))
  \/ \E t \in Trace : GetTrace(t)
  \/ \E s \in Span : GetSpan(s)
  \/ \E n \in Limits : ListTraces(n)

ReadNext == Write \/ Request \/ Query \/ Reply

ReadSpec == ReadInit /\ [][ReadNext]_all

-----------------------------------------------------------------------------
(* Properties                                                              *)

Complete == ask # NoAsk /\ ask.todo = <<>>
Listed == {s \in Span : got.pk[s] # 0}
Stayed(t) == \A s \in seen.gone : TraceOf[s] # t

(* The parts of a row of list_traces come from four queries.  As long as   *)
(* nothing of the trace is deleted, they fit together: the kinds count no  *)
(* fewer spans than the row does, there is a root also while the parent of *)
(* every span is missing, and the conversation that a counted span carries *)
(* is not lost.                                                            *)
TracesAddUp ==
  Complete /\ ask.path = "traces" =>
    \A t \in DOMAIN got.trace :
      LET r == got.trace[t] IN
      /\ r.placeholders <= r.count
      /\ Stayed(t) => /\ 1 <= r.count /\ r.count <= r.kinds
                      /\ r.root # None
                      /\ r.carriers # {} => r.conv # None

(* A projection block in an answer is of the very row it is shown with,    *)
(* also if the span was deleted and came back between the two queries, and *)
(* a block that was there when the request came is not missing.            *)
BlocksBelong ==
  Complete /\ ask.path \in {"tree", "trace", "span", "search"} =>
    \A s \in Listed :
      /\ got.block[s] \in {0, got.pk[s]}
      /\ s \in seen.projected \ seen.gone /\ Kind[s] # "other" => got.block[s] # 0 \/ Torn(s)

(* get_span and an export give the events of a span complete and in order, *)
(* if it was not being normalized when the request came, nor since: what   *)
(* an export holds is what a replay of it normalizes.                      *)
AnswersWhole ==
  Complete /\ ask.path \in {"span", "export"} =>
    \A s \in (Listed \cap seen.settled) \ (seen.touched \cup seen.gone) :
      got.events[s] = [i \in 1 .. Len(Events[s]) |-> i]

(* A span whose call has ended is shown with its parent, be it only a      *)
(* placeholder: normalization leaves no span without the row above it.     *)
ParentShown ==
  Complete /\ ask.path = "span" /\ ask.of \in seen.settled /\ Parent(ask.of) # None =>
    got.parent = Parent(ask.of) \/ ~Stayed(TraceOf[ask.of])

(* A hit comes with a place where the text was found, unless some field of *)
(* it is LIKE the pattern without holding the text, or the span changed    *)
(* between the query for the hits and the queries for the places.          *)
HitsExplained ==
  Complete /\ ask.path = "search" =>
    \A s \in Listed :
      \/ \E m \in got.match : m[1] = s
      \/ ~(Liked[s] \subseteq Text[s])
      \/ s \in seen.touched \cup seen.gone \/ Torn(s)

(* What is put together from several queries fits together.                *)
AnswersFit == TracesAddUp /\ BlocksBelong /\ AnswersWhole /\ ParentShown /\ HitsExplained

(* A span that list_spans or a search finds for a conversation belongs to  *)
(* a session that is listed, and that can so be deleted and exported, once *)
(* the calls of its trace are over and if none failed: a deletion leaves   *)
(* no span of the session to be found.                                     *)
ListedIfFound ==
  \A c \in Conversation : \A s \in Scope(c) :
    \/ session[c] # NoRow
    \/ Torn(s) \/ \E x \in shared : TraceOf[x] = TraceOf[s]
    \/ \E w \in Worker : job[w].span # None /\ TraceOf[job[w].span] = TraceOf[s]
=============================================================================

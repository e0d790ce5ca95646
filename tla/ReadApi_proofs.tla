---------------------------- MODULE ReadApi_proofs ----------------------------
(***************************************************************************)
(* What the handlers of the REST API can rely on, proved from the          *)
(* invariant of the store: a request changes no row.                       *)
(***************************************************************************)
EXTENDS ReadApi, SessionStore_proofs, LeastNatural_proofs

LEMMA ReadersOnlyRead ==
  ASSUME ReadNext \/ UNCHANGED all
  PROVE  [Next]_store
<1>1. CASE Write
  BY <1>1 DEF Write
<1>2. CASE Request
  BY <1>2 DEF Request, Arrive, GetSessionSpanTree, ExportSession, SearchSpans, ListSpans, GetTrace,
              GetSpan, ListTraces
<1>3. CASE Query \/ Reply
  BY <1>3 DEF Query, Reply
<1>4. CASE UNCHANGED all
  BY <1>4 DEF all
<1>. QED
  BY <1>1, <1>2, <1>3, <1>4 DEF ReadNext

THEOREM StoreStaysSound == ReadSpec => []Sound
<1>1. ReadInit => Sound
  BY InitSound DEF ReadInit
<1>2. Sound /\ [ReadNext]_all => Sound'
  BY ReadersOnlyRead, NextSound DEF store
<1>. QED
  BY <1>1, <1>2, PTL DEF ReadSpec

LEMMA SoundIsListed == Sound => ListedIfFound
<1>. SUFFICES ASSUME Sound, NEW c \in Conversation, NEW s \in Scope(c)
              PROVE  \/ session[c] # NoRow
                     \/ Torn(s) \/ \E x \in shared : TraceOf[x] = TraceOf[s]
                     \/ \E w \in Worker : job[w].span # None /\ TraceOf[job[w].span] = TraceOf[s]
  BY DEF ListedIfFound
<1>1. s \in real /\ (ConvAttr[s] = c \/ filed[s] = c)
  BY DEF Scope
<1>2. real \subseteq Span /\ FiledFrom /\ Listing
  BY DEF Sound, Exact, Owned, Shapes, Grounded
<1>3. PICK t \in real : TraceOf[t] = TraceOf[s] /\ ConvAttr[t] = c
  BY <1>1, <1>2 DEF FiledFrom, Carried
<1>4. Torn(t) => Torn(s)
  BY <1>3 DEF Torn
<1>5. ASSUME NEW w \in Worker, Due(w, t)
      PROVE  job[w].span # None /\ TraceOf[job[w].span] = TraceOf[s]
  BY <1>2, <1>3, <1>5, StoreAssumption DEF Due
<1>. QED
  BY <1>2, <1>3, <1>4, <1>5 DEF Listing

THEOREM FoundIsListed == ReadSpec => []ListedIfFound
BY StoreStaysSound, SoundIsListed, PTL

-----------------------------------------------------------------------------
(***************************************************************************)
(* The queries that a request still has to ask.                            *)
(***************************************************************************)
Among(q, seq) == \E i \in 1 .. Len(seq) : seq[i] = q

ToCome(a, q) == Among(q, a.todo) \/ (q[2] \in a.rest /\ Among(q, Inquiry(a.path, q[2])))

Asking(a) ==
  /\ a = [path |-> a.path, of |-> a.of, todo |-> a.todo, rest |-> a.rest]
  /\ \E S : a.todo \in Seq(S)

LEMMA TurnNext ==
  ASSUME NEW a, a.todo = <<>>, a.rest # {}
  PROVE  \E x \in a.rest : Turn(a) = [a EXCEPT !.todo = Inquiry(a.path, x), !.rest = @ \ {x}]
BY DEF Turn

LEMMA TurnKeeps ==
  ASSUME NEW a, Asking(a)
  PROVE  /\ Turn(a).path = a.path /\ Turn(a).of = a.of
         /\ Turn(a) = [path |-> a.path, of |-> a.of, todo |-> Turn(a).todo, rest |-> Turn(a).rest]
<1>1. CASE a.todo # <<>> \/ a.rest = {}
  BY <1>1 DEF Turn, Asking
<1>2. CASE a.todo = <<>> /\ a.rest # {}
  <2>1. PICK x \in a.rest : Turn(a) = [a EXCEPT !.todo = Inquiry(a.path, x), !.rest = @ \ {x}]
    BY <1>2, TurnNext
  <2>. QED
    BY <2>1 DEF Asking
<1>. QED
  BY <1>1, <1>2 DEF Asking

LEMMA TurnToCome ==
  ASSUME NEW a, Asking(a), NEW q, ToCome(a, q)
  PROVE  ToCome(Turn(a), q)
<1>1. CASE a.todo # <<>> \/ a.rest = {}
  BY <1>1 DEF Turn
<1>2. CASE a.todo = <<>> /\ a.rest # {}
  <2>1. PICK x \in a.rest : Turn(a) = [a EXCEPT !.todo = Inquiry(a.path, x), !.rest = @ \ {x}]
    BY <1>2, TurnNext
  <2>2. /\ Turn(a).path = a.path /\ Turn(a).todo = Inquiry(a.path, x)
        /\ Turn(a).rest = a.rest \ {x}
    BY <2>1 DEF Asking
  <2>3. q[2] \in a.rest /\ Among(q, Inquiry(a.path, q[2]))
    BY <1>2 DEF ToCome, Among
  <2>. QED
    BY <2>2, <2>3 DEF ToCome
<1>. QED
  BY <1>1, <1>2 DEF Asking

(* The inquiries, as sequences that are not empty.                         *)
LEMMA Inquiries ==
  ASSUME NEW x
  PROVE  /\ \A q : Among(q, Inquiry("search", x)) <=>
                     q \in {<<"tool", x>>, <<"agent", x>>, <<"event", x>>}
         /\ \A q : Among(q, Inquiry("export", x)) <=> q = <<"events", x>>
         /\ \A q : Among(q, Inquiry("traces", x)) <=>
                     q \in {<<"kinds", x>>, <<"root", x>>, <<"conversation", x>>}
         /\ \A path \in {"search", "export", "traces"} :
              Inquiry(path, x) # <<>> /\ \E S : Inquiry(path, x) \in Seq(S)
<1>1. /\ Inquiry("search", x) = <<<<"tool", x>>, <<"agent", x>>, <<"event", x>>>>
      /\ Inquiry("export", x) = <<<<"events", x>>>>
      /\ Inquiry("traces", x) = <<<<"kinds", x>>, <<"root", x>>, <<"conversation", x>>>>
  BY DEF Inquiry
<1>2. ASSUME NEW a, NEW b, NEW c, NEW q
      PROVE  Among(q, <<a, b, c>>) <=> q \in {a, b, c}
  BY DEF Among
<1>3. ASSUME NEW a, NEW q
      PROVE  Among(q, <<a>>) <=> q = a
  BY DEF Among
<1>4. /\ \A q : Among(q, Inquiry("search", x)) <=>
                  q \in {<<"tool", x>>, <<"agent", x>>, <<"event", x>>}
      /\ \A q : Among(q, Inquiry("export", x)) <=> q = <<"events", x>>
      /\ \A q : Among(q, Inquiry("traces", x)) <=>
                  q \in {<<"kinds", x>>, <<"root", x>>, <<"conversation", x>>}
  BY <1>1, <1>2, <1>3
<1>5. ASSUME NEW a, NEW b, NEW c, NEW f, f = <<a, b, c>>
      PROVE  f # <<>> /\ \E S : f \in Seq(S)
  <2>1. f \in Seq({a, b, c}) /\ f # <<>>
    BY <1>5
  <2>. QED
    BY <2>1
<1>6. ASSUME NEW a, NEW f, f = <<a>>
      PROVE  f # <<>> /\ \E S : f \in Seq(S)
  <2>1. f \in Seq({a}) /\ f # <<>>
    BY <1>6
  <2>. QED
    BY <2>1
<1>7. /\ Inquiry("search", x) # <<>> /\ \E S : Inquiry("search", x) \in Seq(S)
      /\ Inquiry("traces", x) # <<>> /\ \E S : Inquiry("traces", x) \in Seq(S)
  BY <1>1, <1>5
<1>8. Inquiry("export", x) # <<>> /\ \E S : Inquiry("export", x) \in Seq(S)
  BY <1>1, <1>6
<1>. QED
  BY <1>4, <1>7, <1>8

(* Only what is asked is no longer to come.                                *)
LEMMA AskedNext ==
  ASSUME NEW a, Asking(a), a.todo # <<>>, NEW q, ToCome(a, q), q # Head(a.todo)
  PROVE  ToCome(Turn([a EXCEPT !.todo = Tail(@)]), q)
<1>. DEFINE b == [a EXCEPT !.todo = Tail(a.todo)]
<1>1. b = [path |-> a.path, of |-> a.of, todo |-> Tail(a.todo), rest |-> a.rest]
  BY DEF Asking
<1>2. PICK S : a.todo \in Seq(S)
  BY DEF Asking
<1>3. Tail(a.todo) \in Seq(S) /\ Len(Tail(a.todo)) = Len(a.todo) - 1
      /\ \A i \in 1 .. Len(Tail(a.todo)) : Tail(a.todo)[i] = a.todo[i + 1]
  BY <1>2
<1>4. Asking(b)
  BY <1>1, <1>3 DEF Asking
<1>5. Among(q, a.todo) => Among(q, Tail(a.todo))
  <2>1. ASSUME NEW i \in 1 .. Len(a.todo), a.todo[i] = q
        PROVE  i - 1 \in 1 .. Len(Tail(a.todo)) /\ Tail(a.todo)[i - 1] = q
    BY <1>2, <1>3, <2>1
  <2>. QED
    BY <2>1 DEF Among
<1>6. ToCome(b, q)
  BY <1>1, <1>5 DEF ToCome
<1>. QED
  BY <1>4, <1>6, TurnToCome

-----------------------------------------------------------------------------
(* What requests are, when they come.                                      *)

Traces == {TraceOf[s] : s \in Span}

ProjectedKind == {"chat", "execute_tool", "invoke_agent", "external_tool"}

(* A query that Answered has a case for.                                   *)
Sensible(q) ==
  \/ \E k \in ProjectedKind : q = <<"block", k>>
  \/ \E s \in Span : q \in {<<"events", s>>, <<"children", s>>, <<"parent", s>>,
                            <<"tool", s>>, <<"agent", s>>, <<"event", s>>}
  \/ \E t \in Traces : q \in {<<"kinds", t>>, <<"root", t>>, <<"conversation", t>>}

AllSensible(seq) == (\E S : seq \in Seq(S)) /\ \A q : Among(q, seq) => Sensible(q)

LEMMA AmongBoth ==
  ASSUME NEW f, NEW g, NEW S, NEW T, f \in Seq(S), g \in Seq(T)
  PROVE  /\ \A q : Among(q, f \o g) <=> Among(q, f) \/ Among(q, g)
         /\ \E U : f \o g \in Seq(U)
         /\ f # <<>> => f \o g # <<>>
<1>1. f \in Seq(S \cup T) /\ g \in Seq(S \cup T)
  OBVIOUS
<1>2. f \o g \in Seq(S \cup T)
  BY <1>1
<1>3. /\ Len(f) \in Nat /\ Len(g) \in Nat /\ Len(f \o g) = Len(f) + Len(g)
      /\ \A i \in 1 .. Len(f) : (f \o g)[i] = f[i]
      /\ \A i \in 1 .. Len(g) : (f \o g)[Len(f) + i] = g[i]
  BY <1>1
<1>4. ASSUME NEW q
      PROVE  Among(q, f \o g) <=> Among(q, f) \/ Among(q, g)
  <2>1. ASSUME NEW i \in 1 .. Len(f \o g), (f \o g)[i] = q
        PROVE  Among(q, f) \/ Among(q, g)
    <3>1. CASE i <= Len(f)
      <4>1. i \in 1 .. Len(f) /\ f[i] = q
        BY <1>3, <2>1, <3>1
      <4>. QED
        BY <4>1 DEF Among
    <3>2. CASE i > Len(f)
      <4>1. i - Len(f) \in 1 .. Len(g) /\ g[i - Len(f)] = q
        <5>1. i - Len(f) \in 1 .. Len(g) /\ Len(f) + (i - Len(f)) = i
          BY <1>3, <3>2
        <5>. QED
          BY <1>3, <2>1, <5>1
      <4>. QED
        BY <4>1 DEF Among
    <3>. QED
      BY <1>3, <3>1, <3>2
  <2>2. ASSUME NEW i \in 1 .. Len(f), f[i] = q
        PROVE  Among(q, f \o g)
    <3>1. i \in 1 .. Len(f \o g) /\ (f \o g)[i] = q
      BY <1>3, <2>2
    <3>. QED
      BY <3>1 DEF Among
  <2>3. ASSUME NEW i \in 1 .. Len(g), g[i] = q
        PROVE  Among(q, f \o g)
    <3>1. Len(f) + i \in 1 .. Len(f \o g) /\ (f \o g)[Len(f) + i] = q
      BY <1>3, <2>3
    <3>. QED
      BY <3>1 DEF Among
  <2>. QED
    BY <2>1, <2>2, <2>3 DEF Among
<1>5. f # <<>> => f \o g # <<>>
  BY <1>1, <1>3
<1>. QED
  BY <1>2, <1>4, <1>5

LEMMA ProjectionQueries ==
  /\ AllSensible(Projections) /\ Projections # <<>>
  /\ \A q : Among(q, Projections) <=> \E k \in ProjectedKind : q = <<"block", k>>
<1>. DEFINE a == <<"block", "chat">>
            b == <<"block", "execute_tool">>
            c == <<"block", "invoke_agent">>
            d == <<"block", "external_tool">>
<1>1. Projections = <<a, b, c, d>>
  BY DEF Projections
<1>2. /\ <<a, b, c, d>> \in Seq({a, b, c, d}) /\ <<a, b, c, d>> # <<>>
      /\ \A q : Among(q, <<a, b, c, d>>) <=> q \in {a, b, c, d}
  <2>. HIDE DEF a, b, c, d
  <2>. QED
    BY DEF Among
<1>3. \A q : Among(q, Projections) <=> \E k \in ProjectedKind : q = <<"block", k>>
  BY <1>1, <1>2 DEF ProjectedKind
<1>4. \E S : Projections \in Seq(S)
  BY <1>1, <1>2
<1>. QED
  BY <1>1, <1>2, <1>3, <1>4 DEF AllSensible, Sensible

(* The first answer of each handler, and what it leaves to be asked.       *)
Opening(path, of, first, todo, rest) ==
  \/ /\ path = "tree" /\ rest = {}
     /\ \E S \in SUBSET Present : first = Rows(S) /\ todo = BlocksOf(S)
  \/ /\ path = "trace" /\ rest = {} /\ of \in Traces
     /\ \E S \in SUBSET Present : first = Rows(S)
     /\ todo = <<<<"conversation", of>>>> \o Projections
  \/ /\ path = "spans" /\ rest = {} /\ todo = <<>>
     /\ \E S \in SUBSET Present : first = Rows(S)
  \/ /\ path = "span" /\ rest = {} /\ of \in Present /\ first = Rows({of})
     /\ \E kin : /\ kin = IF of \in real /\ Parent(of) # None THEN <<<<"parent", of>>>> ELSE <<>>
                 /\ todo = <<<<"events", of>>, <<"children", of>>>> \o kin \o Projections
  \/ /\ path = "search" /\ rest \in SUBSET real /\ todo = BlocksOf(rest)
     /\ \A s \in rest : LikeIn(s) # {}
     /\ first = [Rows(rest) EXCEPT
          !.match = {m \in rest \X {"name", "attributes"} : m[2] \in FoundIn(m[1])}]
  \/ path = "export" /\ rest \in SUBSET real /\ first = Rows(rest) /\ todo = <<>>
  \/ /\ path = "traces" /\ rest \in SUBSET {TraceOf[s] : s \in Present} /\ todo = <<>>
     /\ first = [Nothing EXCEPT !.trace = [t \in rest |->
          [count |-> Cardinality(InTrace(t)), kinds |-> 0, root |-> None, conv |-> None,
           placeholders |-> Cardinality(InTrace(t) \ real), carriers |-> ConversationsIn(t)]]]

LEMMA Paged ==
  ASSUME NEW S, NEW n
  PROVE  \A P \in Pages(S, n, Later) \cup Pages(S, n, Fresher) : P \subseteq S
BY DEF Pages

LEMMA RealPresent == Sound => real \subseteq Present /\ real \subseteq Span
BY DEF Sound, Exact, Owned, Shapes, Present

LEMMA RequestOpens ==
  ASSUME Sound, Request
  PROVE  \E path, of, first, todo, rest :
           Opening(path, of, first, todo, rest) /\ Arrive(path, of, first, todo, rest)
<1>. USE RealPresent
<1>1. ASSUME NEW c \in Conversation, GetSessionSpanTree(c)
      PROVE  \E path, of, first, todo, rest :
               Opening(path, of, first, todo, rest) /\ Arrive(path, of, first, todo, rest)
  <2>1. PICK S \in SUBSET Present : Arrive("tree", c, Rows(S), BlocksOf(S), {})
    BY <1>1 DEF GetSessionSpanTree
  <2>2. Opening("tree", c, Rows(S), BlocksOf(S), {})
    BY DEF Opening
  <2>. QED
    BY <2>1, <2>2
<1>2. ASSUME NEW c \in Conversation, ExportSession(c)
      PROVE  \E path, of, first, todo, rest :
               Opening(path, of, first, todo, rest) /\ Arrive(path, of, first, todo, rest)
  <2>1. PICK S \in SUBSET real : Arrive("export", c, Rows(S), <<>>, S)
    BY <1>2 DEF ExportSession
  <2>2. Opening("export", c, Rows(S), <<>>, S)
    BY DEF Opening
  <2>. QED
    BY <2>1, <2>2
<1>3. ASSUME NEW c \in Conversation, NEW n \in Limits, SearchSpans(c, n)
      PROVE  \E path, of, first, todo, rest :
               Opening(path, of, first, todo, rest) /\ Arrive(path, of, first, todo, rest)
  <2>. DEFINE F(S) == [Rows(S) EXCEPT
                !.match = {m \in S \X {"name", "attributes"} : m[2] \in FoundIn(m[1])}]
  <2>1. PICK S \in Pages({s \in Scope(c) : LikeIn(s) # {}}, n, Later) :
          Arrive("search", c, F(S), BlocksOf(S), S)
    BY <1>3 DEF SearchSpans
  <2>2. S \subseteq {s \in Scope(c) : LikeIn(s) # {}}
    BY Paged
  <2>3. S \in SUBSET real /\ \A s \in S : LikeIn(s) # {}
    BY <2>2 DEF Scope
  <2>4. Opening("search", c, F(S), BlocksOf(S), S)
    BY <2>3 DEF Opening
  <2>. QED
    BY <2>1, <2>4
<1>4. ASSUME NEW c \in Conversation, NEW n \in Limits, NEW k \in KindClass, ListSpans(c, k, n)
      PROVE  \E path, of, first, todo, rest :
               Opening(path, of, first, todo, rest) /\ Arrive(path, of, first, todo, rest)
  <2>1. PICK S \in Pages({s \in Scope(c) : KindOf(s) = k}, n, Later) :
          Arrive("spans", c, Rows(S), <<>>, {})
    BY <1>4 DEF ListSpans
  <2>2. S \subseteq {s \in Scope(c) : KindOf(s) = k}
    BY Paged
  <2>3. S \in SUBSET Present
    BY <2>2 DEF Scope
  <2>4. Opening("spans", c, Rows(S), <<>>, {})
    BY <2>3 DEF Opening
  <2>. QED
    BY <2>1, <2>4
<1>5. ASSUME NEW t \in Trace, GetTrace(t)
      PROVE  \E path, of, first, todo, rest :
               Opening(path, of, first, todo, rest) /\ Arrive(path, of, first, todo, rest)
  <2>. DEFINE todo == <<<<"conversation", t>>>> \o Projections
  <2>1. Arrive("trace", t, Rows(InTrace(t)), todo, {}) /\ InTrace(t) # {}
    BY <1>5 DEF GetTrace
  <2>2. t \in Traces /\ InTrace(t) \in SUBSET Present
    BY <2>1 DEF Traces, InTrace, Present
  <2>3. Opening("trace", t, Rows(InTrace(t)), todo, {})
    BY <2>2 DEF Opening
  <2>. QED
    BY <2>1, <2>3
<1>6. ASSUME NEW s \in Span, GetSpan(s)
      PROVE  \E path, of, first, todo, rest :
               Opening(path, of, first, todo, rest) /\ Arrive(path, of, first, todo, rest)
  <2>. DEFINE kin == IF s \in real /\ Parent(s) # None THEN <<<<"parent", s>>>> ELSE <<>>
              todo == <<<<"events", s>>, <<"children", s>>>> \o kin \o Projections
  <2>1. s \in Present /\ Arrive("span", s, Rows({s}), todo, {})
    BY <1>6 DEF GetSpan
  <2>2. Opening("span", s, Rows({s}), todo, {})
    BY <2>1 DEF Opening
  <2>. QED
    BY <2>1, <2>2
<1>7. ASSUME NEW n \in Limits, ListTraces(n)
      PROVE  \E path, of, first, todo, rest :
               Opening(path, of, first, todo, rest) /\ Arrive(path, of, first, todo, rest)
  <2>. DEFINE F(P) == [Nothing EXCEPT !.trace = [t \in P |->
          [count |-> Cardinality(InTrace(t)), kinds |-> 0, root |-> None, conv |-> None,
           placeholders |-> Cardinality(InTrace(t) \ real), carriers |-> ConversationsIn(t)]]]
  <2>1. PICK P \in Pages({TraceOf[s] : s \in Present}, n, Fresher) :
          Arrive("traces", None, F(P), <<>>, P)
    BY <1>7 DEF ListTraces
  <2>2. P \in SUBSET {TraceOf[s] : s \in Present}
    BY Paged
  <2>3. Opening("traces", None, F(P), <<>>, P)
    BY <2>2 DEF Opening
  <2>. QED
    BY <2>1, <2>3
<1>. QED
  BY <1>1, <1>2, <1>3, <1>4, <1>5, <1>6, <1>7 DEF Request

-----------------------------------------------------------------------------
(* The shapes of the request and of its answer.                            *)

Loops(path, rest) ==
  \/ rest = {}
  \/ path \in {"search", "export"} /\ rest \subseteq Span
  \/ path = "traces" /\ rest \subseteq Traces

(* get_span asks about the parent of its own span only.                    *)
OneParent(path, of, todo) == path = "span" => \A s : Among(<<"parent", s>>, todo) => s = of

AskOK(a) ==
  /\ Asking(a) /\ AllSensible(a.todo) /\ Loops(a.path, a.rest)
  /\ OneParent(a.path, a.of, a.todo)

Asks ==
  /\ AskOK(ask)
  /\ ask.path = "none" => ask = NoAsk
  /\ ask.todo = <<>> => ask.rest = {}

LEMMA TurnOK ==
  ASSUME NEW a, AskOK(a)
  PROVE  /\ AskOK(Turn(a))
         /\ Turn(a).todo = <<>> => Turn(a).rest = {}
<1>1. CASE a.todo # <<>> \/ a.rest = {}
  BY <1>1 DEF Turn
<1>2. CASE a.todo = <<>> /\ a.rest # {}
  <2>1. PICK x \in a.rest : Turn(a) = [a EXCEPT !.todo = Inquiry(a.path, x), !.rest = @ \ {x}]
    BY <1>2, TurnNext
  <2>2. Turn(a) = [path |-> a.path, of |-> a.of, todo |-> Inquiry(a.path, x), rest |-> a.rest \ {x}]
    BY <2>1 DEF AskOK, Asking
  <2>3. a.path \in {"search", "export", "traces"}
    BY <1>2 DEF AskOK, Loops
  <2>4. Inquiry(a.path, x) # <<>> /\ \E S : Inquiry(a.path, x) \in Seq(S)
    BY <2>3, Inquiries
  <2>5. ASSUME NEW q, Among(q, Inquiry(a.path, x))
        PROVE  Sensible(q)
    <3>1. CASE a.path = "search"
      <4>1. q \in {<<"tool", x>>, <<"agent", x>>, <<"event", x>>} /\ x \in Span
        BY <1>2, <2>5, <3>1, Inquiries DEF AskOK, Loops
      <4>. QED
        BY <4>1 DEF Sensible
    <3>2. CASE a.path = "export"
      <4>1. q = <<"events", x>> /\ x \in Span
        BY <1>2, <2>5, <3>2, Inquiries DEF AskOK, Loops
      <4>. QED
        BY <4>1 DEF Sensible
    <3>3. CASE a.path = "traces"
      <4>1. q \in {<<"kinds", x>>, <<"root", x>>, <<"conversation", x>>} /\ x \in Traces
        BY <1>2, <2>5, <3>3, Inquiries DEF AskOK, Loops
      <4>. QED
        BY <4>1 DEF Sensible
    <3>. QED
      BY <2>3, <3>1, <3>2, <3>3
  <2>6. Loops(a.path, a.rest \ {x})
    BY DEF AskOK, Loops
  <2>. QED
    BY <2>2, <2>3, <2>4, <2>5, <2>6 DEF AskOK, Asking, AllSensible, OneParent
<1>. QED
  BY <1>1, <1>2

RowShape(r) ==
  r = [count |-> r.count, kinds |-> r.kinds, root |-> r.root, conv |-> r.conv,
       placeholders |-> r.placeholders, carriers |-> r.carriers]

Fcn(f, D) == f = [x \in D |-> f[x]]

Shaped(g) ==
  /\ g = [pk |-> g.pk, block |-> g.block, events |-> g.events, match |-> g.match,
          parent |-> g.parent, children |-> g.children, trace |-> g.trace]
  /\ g.pk \in [Span -> Nat]
  /\ Fcn(g.block, Span) /\ Fcn(g.events, Span) /\ Fcn(g.trace, DOMAIN g.trace)
  /\ \A t \in DOMAIN g.trace : RowShape(g.trace[t])

SeenShape ==
  seen = [projected |-> seen.projected, settled |-> seen.settled,
          touched |-> seen.touched, gone |-> seen.gone]

Forms == Asks /\ Shaped(got) /\ SeenShape

LEMMA FieldsGiven ==
  ASSUME NEW a, NEW b, NEW c, NEW d, NEW e, NEW f, NEW h, NEW g,
         g = [pk |-> a, block |-> b, events |-> c, match |-> d, parent |-> e, children |-> f,
              trace |-> h],
         NEW v
  PROVE  /\ [g EXCEPT !.pk = v] = [pk |-> v, block |-> b, events |-> c, match |-> d, parent |-> e,
                                  children |-> f, trace |-> h]
         /\ [g EXCEPT !.match = v] = [pk |-> a, block |-> b, events |-> c, match |-> v,
                                     parent |-> e, children |-> f, trace |-> h]
         /\ [g EXCEPT !.trace = v] = [pk |-> a, block |-> b, events |-> c, match |-> d,
                                     parent |-> e, children |-> f, trace |-> v]
OBVIOUS

FirstRow(t) ==
  [count |-> Cardinality(InTrace(t)), kinds |-> 0, root |-> None, conv |-> None,
   placeholders |-> Cardinality(InTrace(t) \ real), carriers |-> ConversationsIn(t)]

(* Nothing, with some fields given.                                        *)
LEMMA FieldsShaped ==
  ASSUME NEW a, NEW b, NEW c, NEW d, NEW e, NEW f, NEW h, NEW g,
         g = [pk |-> a, block |-> b, events |-> c, match |-> d, parent |-> e, children |-> f,
              trace |-> h],
         a \in [Span -> Nat], Fcn(b, Span), Fcn(c, Span), Fcn(h, DOMAIN h),
         \A t \in DOMAIN h : RowShape(h[t])
  PROVE  Shaped(g)
BY DEF Shaped

LEMMA NothingButRows ==
  ASSUME Owned, NEW S
  PROVE  /\ Shaped(Rows(S)) /\ Rows(S).trace = [t \in {} |-> 0] /\ Rows(S).match = {}
         /\ \A s \in Span : /\ Rows(S).pk[s] = (IF s \in S THEN pk[s] ELSE 0)
                            /\ Rows(S).block[s] = 0
<1>. DEFINE p == [s \in Span |-> IF s \in S THEN pk[s] ELSE 0]
            no == [t \in {} |-> 0]
<1>. DEFINE z == [s \in Span |-> 0]
            e == [s \in Span |-> <<>>]
<1>0. /\ Nothing = [pk |-> z, block |-> z, events |-> e, match |-> {}, parent |-> None,
                    children |-> {}, trace |-> no]
      /\ Rows(S) = [Nothing EXCEPT !.pk = p]
  BY DEF Rows, Nothing
<1>1. Rows(S) = [pk |-> p, block |-> z, events |-> e,
                 match |-> {}, parent |-> None, children |-> {}, trace |-> no]
  <2>. HIDE DEF p, z, e, no
  <2>. QED
    BY <1>0, FieldsGiven
<1>2. p \in [Span -> Nat]
  BY DEF Owned, Shapes
<1>3. DOMAIN no = {} /\ Fcn(no, DOMAIN no)
  BY DEF Fcn
<1>4. Fcn(z, Span) /\ Fcn(e, Span)
  BY DEF Fcn
<1>5. Shaped(Rows(S))
  <2>. HIDE DEF p, z, e, no
  <2>. QED
    BY <1>1, <1>2, <1>3, <1>4, FieldsShaped
<1>. QED
  BY <1>1, <1>5

FirstRows(f, P) == f = [t \in P |-> FirstRow(t)]

ButTraces(g, f) == g = [Nothing EXCEPT !.trace = f]

LEMMA NothingButTraces ==
  ASSUME NEW f, NEW g, Fcn(f, DOMAIN f), \A t \in DOMAIN f : RowShape(f[t]), ButTraces(g, f)
  PROVE  Shaped(g) /\ g.trace = f /\ \A s \in Span : g.pk[s] = 0
<1>. DEFINE z == [s \in Span |-> 0]
            e == [s \in Span |-> <<>>]
            no == [t \in {} |-> 0]
<1>1. Nothing = [pk |-> z, block |-> z, events |-> e, match |-> {}, parent |-> None,
                 children |-> {}, trace |-> no]
  BY DEF Nothing
<1>2. g = [pk |-> z, block |-> z, events |-> e, match |-> {}, parent |-> None, children |-> {},
           trace |-> f]
  <2>. HIDE DEF z, e, no
  <2>. QED
    BY <1>1, FieldsGiven DEF ButTraces
<1>3. z \in [Span -> Nat] /\ Fcn(z, Span) /\ Fcn(e, Span)
  BY DEF Fcn
<1>4. Shaped(g)
  <2>. HIDE DEF z, e
  <2>. QED
    BY <1>2, <1>3 DEF Shaped
<1>. QED
  BY <1>2, <1>4

LEMMA TraceRows ==
  ASSUME NEW P, NEW g, NEW f, FirstRows(f, P), ButTraces(g, f)
  PROVE  /\ Shaped(g) /\ g.trace = f /\ \A s \in Span : g.pk[s] = 0
         /\ DOMAIN f = P /\ \A t \in P : RowShape(f[t])
<1>1. DOMAIN f = P /\ \A t \in P : RowShape(f[t])
  BY DEF FirstRows, RowShape, FirstRow
<1>2. Fcn(f, DOMAIN f) /\ \A t \in DOMAIN f : RowShape(f[t])
  BY <1>1 DEF Fcn, FirstRows
<1>3. Shaped(g) /\ g.trace = f /\ \A s \in Span : g.pk[s] = 0
  BY <1>2, NothingButTraces
<1>. QED
  BY <1>1, <1>3

(* What a request still has to ask when it comes, and what it has.         *)
Opened(a, first) ==
  /\ AskOK(a) /\ a.path # "none"
  /\ Shaped(first)
  /\ \A s \in Span : first.pk[s] \in {0, pk[s]} /\ first.block[s] = 0
  /\ a.path \in {"tree", "trace", "span", "search"} =>
       \A s \in Span : first.pk[s] # 0 => \A k \in ProjectedKind : ToCome(a, <<"block", k>>)
  /\ a.path \in {"span", "export"} =>
       \A s \in Span : first.pk[s] # 0 => ToCome(a, <<"events", s>>)
  /\ (a.path = "span" /\ a.of \in real /\ Parent(a.of) # None) => ToCome(a, <<"parent", a.of>>)
  /\ a.path = "search" =>
       \A s \in Span : first.pk[s] # 0 =>
         /\ s \in real /\ LikeIn(s) # {}
         /\ \A f \in {"tool", "agent", "event"} : ToCome(a, <<f, s>>)
         /\ \A f \in {"name", "attributes"} \cap FoundIn(s) : <<s, f>> \in first.match
  /\ \A t \in DOMAIN first.trace :
       /\ a.path = "traces" /\ t \in {TraceOf[s] : s \in Present}
       /\ first.trace[t] = FirstRow(t)
       /\ \A x \in {"kinds", "root", "conversation"} : ToCome(a, <<x, t>>)

Request4(path, of, todo, rest) == [path |-> path, of |-> of, todo |-> todo, rest |-> rest]

LEMMA FewQueries ==
  /\ AllSensible(<<>>)
  /\ \A q : ~Among(q, <<>>)
  /\ \A a : Sensible(a) => AllSensible(<<a>>) /\ \A q : Among(q, <<a>>) <=> q = a
  /\ \A a, b : Sensible(a) /\ Sensible(b) =>
       AllSensible(<<a, b>>) /\ \A q : Among(q, <<a, b>>) <=> q \in {a, b}
<1>1. AllSensible(<<>>) /\ \A q : ~Among(q, <<>>)
  <2>1. \E S : <<>> \in Seq(S)
    OBVIOUS
  <2>2. ASSUME NEW q
        PROVE  ~Among(q, <<>>)
    BY DEF Among
  <2>. QED
    BY <2>1, <2>2 DEF AllSensible
<1>2. ASSUME NEW a, Sensible(a)
      PROVE  AllSensible(<<a>>) /\ \A q : Among(q, <<a>>) <=> q = a
  <2>1. <<a>> \in Seq({a})
    OBVIOUS
  <2>2. ASSUME NEW q
        PROVE  Among(q, <<a>>) <=> q = a
    BY DEF Among
  <2>. QED
    BY <1>2, <2>1, <2>2 DEF AllSensible
<1>3. ASSUME NEW a, NEW b, Sensible(a), Sensible(b)
      PROVE  AllSensible(<<a, b>>) /\ \A q : Among(q, <<a, b>>) <=> q \in {a, b}
  <2>1. <<a, b>> \in Seq({a, b})
    OBVIOUS
  <2>2. ASSUME NEW q
        PROVE  Among(q, <<a, b>>) <=> q \in {a, b}
    BY DEF Among
  <2>. QED
    BY <1>3, <2>1, <2>2 DEF AllSensible
<1>. QED
  BY <1>1, <1>2, <1>3

LEMMA BlockQueries ==
  ASSUME NEW S
  PROVE  /\ AllSensible(BlocksOf(S))
         /\ S # {} => \A k \in ProjectedKind : Among(<<"block", k>>, BlocksOf(S))
<1>1. CASE S = {}
  BY <1>1, FewQueries DEF BlocksOf
<1>2. CASE S # {}
  BY <1>2, ProjectionQueries DEF BlocksOf
<1>. QED
  BY <1>1, <1>2

LEMMA Appended ==
  ASSUME NEW f, NEW g, AllSensible(f), AllSensible(g)
  PROVE  /\ AllSensible(f \o g)
         /\ \A q : Among(q, f \o g) <=> Among(q, f) \/ Among(q, g)
<1>1. PICK S, T : f \in Seq(S) /\ g \in Seq(T)
  BY DEF AllSensible
<1>. QED
  BY <1>1, AmongBoth DEF AllSensible

LEMMA RequestFields ==
  ASSUME NEW path, NEW of, NEW todo, NEW rest, NEW a, a = Request4(path, of, todo, rest),
         AllSensible(todo), Loops(path, rest), OneParent(path, of, todo)
  PROVE  /\ a.path = path /\ a.of = of /\ a.todo = todo /\ a.rest = rest /\ AskOK(a)
         /\ \A q : Among(q, todo) => ToCome(a, q)
         /\ (\A k \in ProjectedKind : Among(<<"block", k>>, todo)) =>
              \A k \in ProjectedKind : ToCome(a, <<"block", k>>)
<1>1. a.path = path /\ a.of = of /\ a.todo = todo /\ a.rest = rest
      /\ a = [path |-> a.path, of |-> a.of, todo |-> a.todo, rest |-> a.rest]
  BY DEF Request4
<1>. QED
  BY <1>1 DEF AskOK, Asking, AllSensible, ToCome

(* An answer with rows of spans only.                                      *)
LEMMA RowsOnly ==
  ASSUME Sound, NEW S, NEW first, first = Rows(S)
  PROVE  /\ Shaped(first) /\ DOMAIN first.trace = {} /\ first.match = {}
         /\ \A s \in Span : /\ first.pk[s] \in {0, pk[s]} /\ first.block[s] = 0
                            /\ first.pk[s] # 0 => s \in S
<1>1. Owned
  BY DEF Sound, Exact
<1>2. DOMAIN [t \in {} |-> 0] = {}
  OBVIOUS
<1>. QED
  BY <1>1, <1>2, NothingButRows

LEMMA OpeningGives ==
  ASSUME Sound, NEW path, NEW of, NEW first, NEW todo, NEW rest, NEW a,
         Opening(path, of, first, todo, rest), a = Request4(path, of, todo, rest)
  PROVE  Opened(a, first)
<1>0. real \subseteq Present /\ Present \subseteq Span
  BY RealPresent DEF Present
<1>. DEFINE Given ==
       /\ a.path = path /\ a.of = of /\ a.todo = todo /\ a.rest = rest /\ AskOK(a)
       /\ \A q : Among(q, todo) => ToCome(a, q)
       /\ (\A k \in ProjectedKind : Among(<<"block", k>>, todo)) =>
            \A k \in ProjectedKind : ToCome(a, <<"block", k>>)
<1>8. AllSensible(todo) /\ Loops(path, rest) /\ OneParent(path, of, todo) => Given
  BY RequestFields
<1>10. path # "span" => OneParent(path, of, todo)
  BY DEF OneParent
<1>9. rest = {} => Loops(path, rest)
  BY DEF Loops
<1>1. CASE /\ path = "tree" /\ rest = {}
           /\ \E S \in SUBSET Present : first = Rows(S) /\ todo = BlocksOf(S)
  <2>1. PICK S \in SUBSET Present : first = Rows(S) /\ todo = BlocksOf(S)
    BY <1>1
  <2>2. /\ AllSensible(todo)
        /\ S # {} => \A k \in ProjectedKind : Among(<<"block", k>>, todo)
    BY <2>1, BlockQueries
  <2>3. /\ a.path = "tree" /\ AskOK(a)
        /\ S # {} => \A k \in ProjectedKind : ToCome(a, <<"block", k>>)
    BY <1>1, <1>8, <1>9, <1>10, <2>2
  <2>. QED
    BY <2>1, <2>3, RowsOnly DEF Opened
<1>2. CASE /\ path = "trace" /\ rest = {} /\ of \in Traces
           /\ \E S \in SUBSET Present : first = Rows(S)
           /\ todo = <<<<"conversation", of>>>> \o Projections
  <2>1. PICK S \in SUBSET Present : first = Rows(S)
    BY <1>2
  <2>2. Sensible(<<"conversation", of>>)
    BY <1>2 DEF Sensible
  <2>3. AllSensible(todo) /\ \A q : Among(q, Projections) => Among(q, todo)
    BY <1>2, <2>2, FewQueries, ProjectionQueries, Appended
  <2>4. ASSUME NEW k \in ProjectedKind
        PROVE  Among(<<"block", k>>, todo)
    <3>1. Among(<<"block", k>>, Projections)
      BY ProjectionQueries
    <3>. QED
      BY <2>3, <3>1
  <2>5. /\ a.path = "trace" /\ AskOK(a)
        /\ \A k \in ProjectedKind : ToCome(a, <<"block", k>>)
    BY <1>2, <1>8, <1>9, <1>10, <2>3, <2>4
  <2>. QED
    BY <2>1, <2>5, RowsOnly DEF Opened
<1>3. CASE /\ path = "spans" /\ rest = {} /\ todo = <<>>
           /\ \E S \in SUBSET Present : first = Rows(S)
  <2>1. PICK S \in SUBSET Present : first = Rows(S)
    BY <1>3
  <2>2. a.path = "spans" /\ AskOK(a)
    BY <1>3, <1>8, <1>9, <1>10, FewQueries
  <2>. QED
    BY <2>1, <2>2, RowsOnly DEF Opened
<1>4. CASE /\ path = "span" /\ rest = {} /\ of \in Present /\ first = Rows({of})
           /\ \E kin : /\ kin = IF of \in real /\ Parent(of) # None THEN <<<<"parent", of>>>> ELSE <<>>
                       /\ todo = <<<<"events", of>>, <<"children", of>>>> \o kin \o Projections
  <2>1. PICK kin : /\ kin = IF of \in real /\ Parent(of) # None THEN <<<<"parent", of>>>> ELSE <<>>
                   /\ todo = <<<<"events", of>>, <<"children", of>>>> \o kin \o Projections
    BY <1>4
  <2>2. /\ Sensible(<<"events", of>>) /\ Sensible(<<"children", of>>) /\ Sensible(<<"parent", of>>)
    BY <1>0, <1>4 DEF Sensible
  <2>3. /\ AllSensible(<<<<"events", of>>, <<"children", of>>>>)
        /\ \A q : Among(q, <<<<"events", of>>, <<"children", of>>>>) <=>
                  q \in {<<"events", of>>, <<"children", of>>}
    BY <2>2, FewQueries
  <2>4. /\ AllSensible(kin)
        /\ of \in real /\ Parent(of) # None => Among(<<"parent", of>>, kin)
        /\ \A q : Among(q, kin) => q = <<"parent", of>>
    BY <2>1, <2>2, FewQueries
  <2>5. /\ AllSensible(todo) /\ Among(<<"events", of>>, todo)
        /\ of \in real /\ Parent(of) # None => Among(<<"parent", of>>, todo)
        /\ \A q : Among(q, Projections) => Among(q, todo)
        /\ \A q : Among(q, todo) => \/ q \in {<<"events", of>>, <<"children", of>>, <<"parent", of>>}
                                    \/ Among(q, Projections)
    <3>1. PICK two : two = <<<<"events", of>>, <<"children", of>>>>
      OBVIOUS
    <3>2. /\ AllSensible(two \o kin) /\ Among(<<"events", of>>, two \o kin)
          /\ \A q : Among(q, two \o kin) =>
               q \in {<<"events", of>>, <<"children", of>>, <<"parent", of>>}
          /\ of \in real /\ Parent(of) # None => Among(<<"parent", of>>, two \o kin)
      BY <2>3, <2>4, <3>1, Appended
    <3>3. todo = (two \o kin) \o Projections
      BY <2>1, <3>1
    <3>. QED
      BY <3>2, <3>3, ProjectionQueries, Appended
  <2>6. ASSUME NEW k \in ProjectedKind
        PROVE  Among(<<"block", k>>, todo)
    <3>1. Among(<<"block", k>>, Projections)
      BY ProjectionQueries
    <3>. QED
      BY <2>5, <3>1
  <2>10. OneParent(path, of, todo)
    <3>1. ASSUME NEW s, Among(<<"parent", s>>, todo)
          PROVE  s = of
      BY <2>5, <3>1, ProjectionQueries
    <3>. QED
      BY <3>1 DEF OneParent
  <2>7. /\ a.path = "span" /\ a.of = of /\ AskOK(a)
        /\ \A k \in ProjectedKind : ToCome(a, <<"block", k>>)
        /\ ToCome(a, <<"events", of>>)
        /\ of \in real /\ Parent(of) # None => ToCome(a, <<"parent", of>>)
    BY <1>4, <1>8, <1>9, <2>5, <2>6, <2>10
  <2>8. /\ Shaped(first) /\ DOMAIN first.trace = {}
        /\ \A s \in Span : /\ first.pk[s] \in {0, pk[s]} /\ first.block[s] = 0
                           /\ first.pk[s] # 0 => s = of
    BY <1>4, RowsOnly
  <2>9. \A s \in Span : first.pk[s] # 0 => ToCome(a, <<"events", s>>)
    BY <2>7, <2>8
  <2>. QED
    BY <2>7, <2>8, <2>9 DEF Opened
<1>5. CASE /\ path = "search" /\ rest \in SUBSET real /\ todo = BlocksOf(rest)
           /\ \A s \in rest : LikeIn(s) # {}
           /\ first = [Rows(rest) EXCEPT
                !.match = {m \in rest \X {"name", "attributes"} : m[2] \in FoundIn(m[1])}]
  <2>1. PICK g, M : /\ g = Rows(rest)
                    /\ M = {m \in rest \X {"name", "attributes"} : m[2] \in FoundIn(m[1])}
    OBVIOUS
  <2>2. /\ Shaped(g) /\ DOMAIN g.trace = {}
        /\ \A s \in Span : /\ g.pk[s] \in {0, pk[s]} /\ g.block[s] = 0
                           /\ g.pk[s] # 0 => s \in rest
    BY <2>1, RowsOnly
  <2>3. first = [g EXCEPT !.match = M]
    BY <1>5, <2>1
  <2>4. Shaped(first) /\ first.pk = g.pk /\ first.block = g.block /\ first.trace = g.trace
        /\ first.match = M
    BY <2>2, <2>3 DEF Shaped
  <2>5. /\ AllSensible(todo) /\ Loops(path, rest)
        /\ rest # {} => \A k \in ProjectedKind : Among(<<"block", k>>, todo)
    BY <1>0, <1>5, BlockQueries DEF Loops
  <2>6. /\ a.path = "search" /\ a.rest = rest /\ AskOK(a)
        /\ rest # {} => \A k \in ProjectedKind : ToCome(a, <<"block", k>>)
    BY <1>5, <1>8, <1>10, <2>5
  <2>7. ASSUME NEW s \in rest, NEW f \in {"tool", "agent", "event"}
        PROVE  ToCome(a, <<f, s>>)
    <3>1. Among(<<f, s>>, Inquiry("search", s))
      BY Inquiries
    <3>. QED
      BY <2>6, <3>1 DEF ToCome
  <2>8. ASSUME NEW s \in rest, NEW f \in {"name", "attributes"} \cap FoundIn(s)
        PROVE  <<s, f>> \in M
    BY <2>1
  <2>. QED
    BY <1>5, <2>2, <2>4, <2>6, <2>7, <2>8 DEF Opened
<1>6. CASE path = "export" /\ rest \in SUBSET real /\ first = Rows(rest) /\ todo = <<>>
  <2>1. a.path = "export" /\ a.rest = rest /\ AskOK(a)
    BY <1>0, <1>6, <1>8, <1>10, FewQueries DEF Loops
  <2>2. ASSUME NEW s \in rest
        PROVE  ToCome(a, <<"events", s>>)
    <3>1. Among(<<"events", s>>, Inquiry("export", s))
      BY Inquiries
    <3>. QED
      BY <2>1, <3>1 DEF ToCome
  <2>. QED
    BY <1>6, <2>1, <2>2, RowsOnly DEF Opened
<1>7. CASE /\ path = "traces" /\ rest \in SUBSET {TraceOf[s] : s \in Present} /\ todo = <<>>
           /\ first = [Nothing EXCEPT !.trace = [t \in rest |->
                [count |-> Cardinality(InTrace(t)), kinds |-> 0, root |-> None, conv |-> None,
                 placeholders |-> Cardinality(InTrace(t) \ real),
                 carriers |-> ConversationsIn(t)]]]
  <2>1. PICK f : FirstRows(f, rest)
    BY DEF FirstRows
  <2>2. ButTraces(first, f)
    BY <1>7, <2>1 DEF ButTraces, FirstRows, FirstRow
  <2>3. /\ Shaped(first) /\ first.trace = f /\ \A s \in Span : first.pk[s] = 0
        /\ DOMAIN f = rest
    BY <2>1, <2>2, TraceRows
  <2>4. \A t \in rest : f[t] = FirstRow(t)
    BY <2>1 DEF FirstRows
  <2>5. rest \subseteq Traces
    BY <1>0, <1>7 DEF Traces
  <2>6. a.path = "traces" /\ a.rest = rest /\ AskOK(a)
    BY <1>7, <1>8, <1>10, <2>5, FewQueries DEF Loops
  <2>7. ASSUME NEW t \in rest, NEW x \in {"kinds", "root", "conversation"}
        PROVE  ToCome(a, <<x, t>>)
    <3>1. Among(<<x, t>>, Inquiry("traces", t))
      BY Inquiries
    <3>. QED
      BY <2>6, <3>1 DEF ToCome
  <2>8. \A s \in Span : first.block[s] = 0
    BY <2>2 DEF ButTraces, Nothing
  <2>. QED
    BY <1>7, <2>3, <2>4, <2>6, <2>7, <2>8 DEF Opened
<1>. QED
  BY <1>1, <1>2, <1>3, <1>4, <1>5, <1>6, <1>7 DEF Opening

-----------------------------------------------------------------------------
(* What the steps do to the request and its answer.                        *)

(* A request comes.                                                        *)
LEMMA Coming ==
  ASSUME Sound, Forms, Request
  PROVE  /\ UNCHANGED store /\ Forms' /\ ask = NoAsk
         /\ seen'.projected = {s \in Span : filed[s] # NoRow}
         /\ seen'.settled = {s \in real \ shared : \A w \in Worker : job[w].span # s}
         /\ seen'.touched = {} /\ seen'.gone = {}
         /\ \E a : /\ Opened(a, got') /\ ask'.path = a.path /\ ask'.of = a.of
                   /\ \A q : ToCome(a, q) => ToCome(ask', q)
<1>1. PICK path, of, first, todo, rest :
        Opening(path, of, first, todo, rest) /\ Arrive(path, of, first, todo, rest)
  BY RequestOpens
<1>2. PICK a : a = Request4(path, of, todo, rest)
  OBVIOUS
<1>3. Opened(a, first)
  BY <1>1, <1>2, OpeningGives
<1>4. ask' = Turn(a) /\ got' = first /\ UNCHANGED store /\ ask = NoAsk
  BY <1>1, <1>2 DEF Arrive, Request4
<1>5. /\ seen'.projected = {s \in Span : filed[s] # NoRow}
      /\ seen'.settled = {s \in real \ shared : \A w \in Worker : job[w].span # s}
      /\ seen'.touched = {} /\ seen'.gone = {} /\ SeenShape'
  BY <1>1 DEF Arrive, Unseen, SeenShape
<1>6. AskOK(a) /\ a.path # "none" /\ Shaped(first)
  BY <1>3 DEF Opened
<1>7. Asking(a)
  BY <1>6 DEF AskOK
<1>8. ask'.path = a.path /\ ask'.of = a.of /\ \A q : ToCome(a, q) => ToCome(ask', q)
  BY <1>4, <1>7, TurnKeeps, TurnToCome
<1>9. Asks'
  BY <1>4, <1>6, <1>8, TurnOK DEF Asks
<1>10. Shaped(got)'
  BY <1>4, <1>6 DEF Shaped, Fcn, RowShape
<1>. QED
  BY <1>3, <1>4, <1>5, <1>8, <1>9, <1>10 DEF Forms

(* What the answer to query q changes.                                     *)
OtherParts(g, h, parts) ==
  /\ h.pk = g.pk
  /\ "block" \notin parts => h.block = g.block
  /\ "events" \notin parts => h.events = g.events
  /\ "match" \notin parts => h.match = g.match
  /\ "parent" \notin parts => h.parent = g.parent
  /\ "trace" \notin parts => h.trace = g.trace

LEMMA FieldSet ==
  ASSUME NEW g, Shaped(g), NEW h, NEW v
  PROVE  /\ h = [g EXCEPT !.block = v] /\ Fcn(v, Span) =>
              OtherParts(g, h, {"block"}) /\ h.block = v /\ Shaped(h)
         /\ h = [g EXCEPT !.events = v] /\ Fcn(v, Span) =>
              OtherParts(g, h, {"events"}) /\ h.events = v /\ Shaped(h)
         /\ h = [g EXCEPT !.match = v] =>
              OtherParts(g, h, {"match"}) /\ h.match = v /\ Shaped(h)
         /\ h = [g EXCEPT !.parent = v] =>
              OtherParts(g, h, {"parent"}) /\ h.parent = v /\ Shaped(h)
         /\ h = [g EXCEPT !.children = v] =>
              OtherParts(g, h, {}) /\ Shaped(h)
         /\ h = [g EXCEPT !.trace = v] /\ Fcn(v, DOMAIN v) /\ (\A t \in DOMAIN v : RowShape(v[t])) =>
              OtherParts(g, h, {"trace"}) /\ h.trace = v /\ Shaped(h)
<1>1. PICK a, b, c, d, e, f, k :
        /\ a = g.pk /\ b = g.block /\ c = g.events /\ d = g.match /\ e = g.parent
        /\ f = g.children /\ k = g.trace
  OBVIOUS
<1>2. g = [pk |-> a, block |-> b, events |-> c, match |-> d, parent |-> e, children |-> f,
           trace |-> k]
      /\ a \in [Span -> Nat] /\ Fcn(b, Span) /\ Fcn(c, Span) /\ Fcn(k, DOMAIN k)
      /\ \A t \in DOMAIN k : RowShape(k[t])
  BY <1>1 DEF Shaped
<1>3. ASSUME h = [g EXCEPT !.block = v] /\ Fcn(v, Span)
      PROVE  OtherParts(g, h, {"block"}) /\ h.block = v /\ Shaped(h)
  BY <1>2, <1>3 DEF Shaped, OtherParts
<1>4. ASSUME h = [g EXCEPT !.events = v] /\ Fcn(v, Span)
      PROVE  OtherParts(g, h, {"events"}) /\ h.events = v /\ Shaped(h)
  BY <1>2, <1>4 DEF Shaped, OtherParts
<1>5. ASSUME h = [g EXCEPT !.match = v]
      PROVE  OtherParts(g, h, {"match"}) /\ h.match = v /\ Shaped(h)
  BY <1>2, <1>5 DEF Shaped, OtherParts
<1>6. ASSUME h = [g EXCEPT !.parent = v]
      PROVE  OtherParts(g, h, {"parent"}) /\ h.parent = v /\ Shaped(h)
  BY <1>2, <1>6 DEF Shaped, OtherParts
<1>7. ASSUME h = [g EXCEPT !.children = v]
      PROVE  OtherParts(g, h, {}) /\ Shaped(h)
  BY <1>2, <1>7 DEF Shaped, OtherParts
<1>8. ASSUME h = [g EXCEPT !.trace = v] /\ Fcn(v, DOMAIN v) /\ (\A t \in DOMAIN v : RowShape(v[t]))
      PROVE  OtherParts(g, h, {"trace"}) /\ h.trace = v /\ Shaped(h)
  BY <1>2, <1>8 DEF Shaped, OtherParts
<1>. QED
  BY <1>3, <1>4, <1>5, <1>6, <1>7, <1>8

TraceAnswered(x, t) ==
  LET f == got.trace  h == got'.trace IN
  /\ DOMAIN h = DOMAIN f
  /\ \A u \in DOMAIN f :
       /\ h[u].count = f[u].count /\ h[u].placeholders = f[u].placeholders
       /\ h[u].carriers = f[u].carriers
       /\ h[u].kinds = IF u = t /\ x = "kinds" THEN Cardinality(InTrace(t)) ELSE f[u].kinds
       /\ h[u].root = IF u = t /\ x = "root" THEN RootOf(t) ELSE f[u].root
       /\ \/ h[u].conv = f[u].conv /\ ~(u = t /\ x = "conversation" /\ ask.path = "traces"
                                        /\ ConversationsIn(t) # {})
          \/ u = t /\ x = "conversation" /\ h[u].conv \in ConversationsIn(t)

Answer(q) ==
  \/ \E k \in ProjectedKind :
       q = <<"block", k>> /\ OtherParts(got, got', {"block"}) /\ got'.block = WithBlocks(k)
  \/ \E s \in Span :
       /\ q = <<"events", s>> /\ OtherParts(got, got', {"events"})
       /\ got'.events = [got.events EXCEPT ![s] = EventsOf(s)]
  \/ \E s \in Span : q = <<"children", s>> /\ OtherParts(got, got', {})
  \/ \E s \in Span :
       q = <<"parent", s>> /\ OtherParts(got, got', {"parent"}) /\ got'.parent = ParentOf(s)
  \/ \E s \in Span : \E f \in {"tool", "agent", "event"} :
       /\ q = <<f, s>> /\ OtherParts(got, got', {"match"})
       /\ got'.match = got.match \cup Matching(s, f)
  \/ \E t \in Traces : \E x \in {"kinds", "root", "conversation"} :
       q = <<x, t>> /\ OtherParts(got, got', {"trace"}) /\ TraceAnswered(x, t)

LEMMA RowSet ==
  ASSUME NEW r, RowShape(r), NEW p, NEW v
  PROVE  /\ p = [r EXCEPT !.kinds = v] =>
              /\ RowShape(p) /\ p.kinds = v /\ p.count = r.count /\ p.root = r.root
              /\ p.conv = r.conv /\ p.placeholders = r.placeholders /\ p.carriers = r.carriers
         /\ p = [r EXCEPT !.root = v] =>
              /\ RowShape(p) /\ p.kinds = r.kinds /\ p.count = r.count /\ p.root = v
              /\ p.conv = r.conv /\ p.placeholders = r.placeholders /\ p.carriers = r.carriers
         /\ p = [r EXCEPT !.conv = v] =>
              /\ RowShape(p) /\ p.kinds = r.kinds /\ p.count = r.count /\ p.root = r.root
              /\ p.conv = v /\ p.placeholders = r.placeholders /\ p.carriers = r.carriers
BY DEF RowShape

(* A row of the answer is replaced.                                        *)
LEMMA TraceSet ==
  ASSUME Shaped(got), NEW t, NEW r, t \in DOMAIN got.trace => RowShape(r),
         got' = [got EXCEPT !.trace[t] = r]
  PROVE  /\ OtherParts(got, got', {"trace"}) /\ Shaped(got')
         /\ DOMAIN got'.trace = DOMAIN got.trace
         /\ \A u \in DOMAIN got.trace : got'.trace[u] = IF u = t THEN r ELSE got.trace[u]
<1>1. PICK f : f = got.trace
  OBVIOUS
<1>2. f = [u \in DOMAIN f |-> f[u]] /\ \A u \in DOMAIN f : RowShape(f[u])
  BY <1>1 DEF Shaped, Fcn
<1>3. PICK h : h = [f EXCEPT ![t] = r]
  OBVIOUS
<1>4. /\ DOMAIN h = DOMAIN f /\ Fcn(h, DOMAIN h)
      /\ \A u \in DOMAIN f : h[u] = IF u = t THEN r ELSE f[u]
  BY <1>2, <1>3 DEF Fcn
<1>5. got' = [got EXCEPT !.trace = h]
  BY <1>1, <1>3
<1>6. \A u \in DOMAIN h : RowShape(h[u])
  BY <1>1, <1>2, <1>4
<1>7. ASSUME NEW g, g = [got EXCEPT !.trace = h]
      PROVE  OtherParts(got, g, {"trace"}) /\ g.trace = h /\ Shaped(g)
  BY <1>4, <1>6, <1>7, FieldSet
<1>8. OtherParts(got, got', {"trace"}) /\ got'.trace = h /\ Shaped(got')
  BY <1>5, <1>7
<1>. QED
  BY <1>1, <1>4, <1>8

LEMMA Answering ==
  ASSUME Forms, Query
  PROVE  /\ UNCHANGED <<store, seen>> /\ Forms'
         /\ ask'.path = ask.path /\ ask'.of = ask.of
         /\ Answer(Head(ask.todo))
         /\ \A p : ToCome(ask, p) /\ p # Head(ask.todo) => ToCome(ask', p)
<1>. DEFINE q == Head(ask.todo)
<1>0. /\ Asking(ask) /\ AllSensible(ask.todo) /\ Loops(ask.path, ask.rest) /\ Shaped(got)
      /\ OneParent(ask.path, ask.of, ask.todo)
      /\ ask.path = "none" => ask = NoAsk
  BY DEF Forms, Asks, AskOK
<1>1. /\ UNCHANGED <<store, seen>> /\ ask.todo # <<>>
      /\ ask' = Turn([ask EXCEPT !.todo = Tail(ask.todo)])
      /\ \/ q[1] # "conversation" /\ got' = Answered(q[1], q[2])
         \/ /\ q[1] = "conversation" /\ UNCHANGED got
            /\ ask.path = "trace" \/ ConversationsIn(q[2]) = {}
         \/ /\ q[1] = "conversation"
            /\ \E c \in ConversationsIn(q[2]) : got' = [got EXCEPT !.trace[q[2]].conv = c]
  BY DEF Query
<1>2. ask.path # "none"
  BY <1>0, <1>1 DEF NoAsk
<1>3. PICK a : a = [ask EXCEPT !.todo = Tail(ask.todo)]
  OBVIOUS
<1>4. a = [path |-> ask.path, of |-> ask.of, todo |-> Tail(ask.todo), rest |-> ask.rest]
  BY <1>0, <1>3 DEF Asking
<1>5. PICK S : ask.todo \in Seq(S)
  BY <1>0 DEF Asking
<1>6. /\ Tail(ask.todo) \in Seq(S)
      /\ Len(ask.todo) \in Nat /\ Len(Tail(ask.todo)) = Len(ask.todo) - 1
      /\ \A i \in 1 .. Len(Tail(ask.todo)) : Tail(ask.todo)[i] = ask.todo[i + 1]
      /\ 1 \in 1 .. Len(ask.todo) /\ q = ask.todo[1]
  BY <1>1, <1>5
<1>7. \A p : Among(p, Tail(ask.todo)) => Among(p, ask.todo)
  <2>1. ASSUME NEW p, NEW i \in 1 .. Len(Tail(ask.todo)), Tail(ask.todo)[i] = p
        PROVE  Among(p, ask.todo)
    <3>1. i + 1 \in 1 .. Len(ask.todo) /\ ask.todo[i + 1] = p
      BY <1>6, <2>1
    <3>. QED
      BY <3>1 DEF Among
  <2>. QED
    BY <2>1 DEF Among
<1>8. AskOK(a) /\ Asking(a) /\ a.path = ask.path /\ a.of = ask.of
  BY <1>0, <1>4, <1>6, <1>7 DEF AskOK, Asking, AllSensible, OneParent
<1>9. ask' = Turn(a) /\ ask'.path = ask.path /\ ask'.of = ask.of
  BY <1>1, <1>3, <1>8, TurnKeeps
<1>10. Asks'
  BY <1>2, <1>8, <1>9, TurnOK DEF Asks
<1>11. \A p : ToCome(ask, p) /\ p # q => ToCome(ask', p)
  BY <1>0, <1>1, AskedNext
<1>12. Sensible(q)
  BY <1>0, <1>6 DEF AllSensible, Among
<1>. HIDE DEF q
<1>13. Answer(q) /\ Shaped(got')
  <2>1. ASSUME NEW k \in ProjectedKind, q = <<"block", k>>
        PROVE  Answer(q) /\ Shaped(got')
    <3>1. q[1] = "block" /\ q[2] = k
      BY <2>1
    <3>2. got' = [got EXCEPT !.block = WithBlocks(k)] /\ Fcn(WithBlocks(k), Span)
      BY <1>1, <3>1 DEF Answered, WithBlocks, Fcn
    <3>5. OtherParts(got, got', {"block"}) /\ got'.block = WithBlocks(k) /\ Shaped(got')
      BY <1>0, <3>2, FieldSet
    <3>. QED
      BY <2>1, <3>5 DEF Answer
  <2>2. ASSUME NEW s \in Span, q = <<"events", s>>
        PROVE  Answer(q) /\ Shaped(got')
    <3>1. q[1] = "events" /\ q[2] = s
      BY <2>2
    <3>2. PICK v : v = [got.events EXCEPT ![s] = EventsOf(s)]
      OBVIOUS
    <3>3. got' = [got EXCEPT !.events = v]
      BY <1>1, <3>1, <3>2 DEF Answered
    <3>4. Fcn(v, Span)
      BY <1>0, <3>2 DEF Shaped, Fcn
    <3>5. OtherParts(got, got', {"events"}) /\ got'.events = v /\ Shaped(got')
      BY <1>0, <3>3, <3>4, FieldSet
    <3>. QED
      BY <2>2, <3>2, <3>5 DEF Answer
  <2>3. ASSUME NEW s \in Span, q = <<"children", s>>
        PROVE  Answer(q) /\ Shaped(got')
    <3>1. q[1] = "children" /\ q[2] = s
      BY <2>3
    <3>2. got' = [got EXCEPT !.children = {t \in real : Parent(t) = s}]
      BY <1>1, <3>1 DEF Answered
    <3>. QED
      BY <1>0, <2>3, <3>2, FieldSet DEF Answer
  <2>4. ASSUME NEW s \in Span, q = <<"parent", s>>
        PROVE  Answer(q) /\ Shaped(got')
    <3>1. q[1] = "parent" /\ q[2] = s
      BY <2>4
    <3>2. got' = [got EXCEPT !.parent = ParentOf(s)]
      BY <1>1, <3>1 DEF Answered
    <3>5. OtherParts(got, got', {"parent"}) /\ got'.parent = ParentOf(s) /\ Shaped(got')
      BY <1>0, <3>2, FieldSet
    <3>. QED
      BY <2>4, <3>5 DEF Answer
  <2>5. ASSUME NEW s \in Span, NEW f \in {"tool", "agent", "event"}, q = <<f, s>>
        PROVE  Answer(q) /\ Shaped(got')
    <3>1. q[1] = f /\ q[2] = s
      BY <2>5
    <3>2. got' = [got EXCEPT !.match = got.match \cup Matching(s, f)]
      BY <1>1, <3>1 DEF Answered
    <3>5. OtherParts(got, got', {"match"}) /\ got'.match = got.match \cup Matching(s, f) /\ Shaped(got')
      BY <1>0, <3>2, FieldSet
    <3>. QED
      BY <2>5, <3>5 DEF Answer
  <2>6. ASSUME NEW t \in Traces, q = <<"kinds", t>>
        PROVE  Answer(q) /\ Shaped(got')
    <3>1. q[1] = "kinds" /\ q[2] = t
      BY <2>6
    <3>2. PICK r : r = [got.trace[t] EXCEPT !.kinds = Cardinality(InTrace(t))]
      OBVIOUS
    <3>3. got' = [got EXCEPT !.trace[t] = r]
      BY <1>1, <3>1, <3>2 DEF Answered
    <3>4. t \in DOMAIN got.trace =>
            /\ RowShape(r) /\ r.kinds = Cardinality(InTrace(t)) /\ r.count = got.trace[t].count
            /\ r.root = got.trace[t].root /\ r.conv = got.trace[t].conv
            /\ r.placeholders = got.trace[t].placeholders /\ r.carriers = got.trace[t].carriers
      BY <1>0, <3>2, RowSet DEF Shaped
    <3>5. OtherParts(got, got', {"trace"}) /\ Shaped(got') /\ TraceAnswered("kinds", t)
      BY <1>0, <3>3, <3>4, TraceSet DEF TraceAnswered
    <3>. QED
      BY <2>6, <3>5 DEF Answer
  <2>7. ASSUME NEW t \in Traces, q = <<"root", t>>
        PROVE  Answer(q) /\ Shaped(got')
    <3>1. q[1] = "root" /\ q[2] = t
      BY <2>7
    <3>2. PICK r : r = [got.trace[t] EXCEPT !.root = RootOf(t)]
      OBVIOUS
    <3>3. got' = [got EXCEPT !.trace[t] = r]
      BY <1>1, <3>1, <3>2 DEF Answered
    <3>4. t \in DOMAIN got.trace =>
            /\ RowShape(r) /\ r.root = RootOf(t) /\ r.count = got.trace[t].count
            /\ r.kinds = got.trace[t].kinds /\ r.conv = got.trace[t].conv
            /\ r.placeholders = got.trace[t].placeholders /\ r.carriers = got.trace[t].carriers
      BY <1>0, <3>2, RowSet DEF Shaped
    <3>5. OtherParts(got, got', {"trace"}) /\ Shaped(got') /\ TraceAnswered("root", t)
      BY <1>0, <3>3, <3>4, TraceSet DEF TraceAnswered
    <3>. QED
      BY <2>7, <3>5 DEF Answer
  <2>8. ASSUME NEW t \in Traces, q = <<"conversation", t>>
        PROVE  Answer(q) /\ Shaped(got')
    <3>1. q[1] = "conversation" /\ q[2] = t
      BY <2>8
    <3>2. CASE UNCHANGED got /\ (ask.path = "trace" \/ ConversationsIn(t) = {})
      <4>1. OtherParts(got, got', {"trace"}) /\ Shaped(got')
        BY <1>0, <3>2 DEF OtherParts
      <4>2. TraceAnswered("conversation", t)
        BY <3>2 DEF TraceAnswered
      <4>. QED
        BY <2>8, <4>1, <4>2 DEF Answer
    <3>3. ASSUME NEW c \in ConversationsIn(t), got' = [got EXCEPT !.trace[t].conv = c]
          PROVE  Answer(q) /\ Shaped(got')
      <4>1. PICK r : r = [got.trace[t] EXCEPT !.conv = c]
        OBVIOUS
      <4>2. got' = [got EXCEPT !.trace[t] = r]
        BY <3>3, <4>1
      <4>3. t \in DOMAIN got.trace =>
              /\ RowShape(r) /\ r.conv = c /\ r.count = got.trace[t].count
              /\ r.kinds = got.trace[t].kinds /\ r.root = got.trace[t].root
              /\ r.placeholders = got.trace[t].placeholders /\ r.carriers = got.trace[t].carriers
        BY <1>0, <4>1, RowSet DEF Shaped
      <4>4. OtherParts(got, got', {"trace"}) /\ Shaped(got') /\ TraceAnswered("conversation", t)
        BY <1>0, <4>2, <4>3, TraceSet DEF TraceAnswered
      <4>. QED
        BY <2>8, <4>4 DEF Answer
    <3>. QED
      BY <1>1, <3>1, <3>2, <3>3
  <2>. QED
    BY <1>12, <2>1, <2>2, <2>3, <2>4, <2>5, <2>6, <2>7, <2>8 DEF Sensible
<1>14. Shaped(got)' /\ SeenShape'
  BY <1>1, <1>13 DEF Forms, SeenShape, Shaped, Fcn, RowShape
<1>. QED
  BY <1>1, <1>9, <1>10, <1>11, <1>13, <1>14 DEF Forms, q

(* A step of the writers keeps the row of a span, whether it is real, and  *)
(* its projection, unless the row goes or a deletion tears the trace.      *)
LEMMA RowsStay ==
  ASSUME Sound, Next
  PROVE  /\ torn \subseteq torn'
         /\ \A s \in Span : pk[s] # 0 => pk'[s] \in {0, pk[s]}
         /\ \A s \in real : s \in real' \/ pk'[s] = 0
         /\ \A s \in Span : filed[s] # NoRow => filed'[s] # NoRow \/ pk'[s] = 0 \/ Torn(s)
<1>0. /\ Owned /\ Grounded /\ Typed
      /\ pk \in [Span -> Nat] /\ lastPk \in Nat /\ DOMAIN filed = Span /\ real \subseteq Span
  BY DEF Sound, Exact, Owned, Shapes
<1>1. ASSUME NEW w \in Worker, NEW s \in Span, Upsert(w, s)
      PROVE  /\ torn \subseteq torn' /\ real \subseteq real' /\ UNCHANGED filed
             /\ \A t \in Span : pk[t] # 0 => pk'[t] = pk[t]
  BY <1>0, <1>1 DEF Upsert
<1>2. ASSUME NEW w \in Worker, EnsurePlaceholder(w)
      PROVE  /\ UNCHANGED <<torn, real, filed>>
             /\ \A t \in Span : pk[t] # 0 => pk'[t] = pk[t]
  BY <1>0, <1>2 DEF EnsurePlaceholder
<1>3. ASSUME NEW w \in Worker, Project(w)
      PROVE  /\ UNCHANGED <<torn, real, pk>>
             /\ \A s \in Span : filed[s] # NoRow => filed'[s] # NoRow
  <2>1. job[w].span \in Span
    BY <1>0, <1>3 DEF Project, Owned, Jobs, JobOK, Busy
  <2>2. \A s \in Span : ConvAttr[s] # NoRow
    BY ConvAttrType, StoreAssumption
  <2>. QED
    BY <1>0, <1>3, <2>1, <2>2 DEF Project
<1>4. ASSUME NEW w \in Worker, Resolve(w) \/ Finish(w)
      PROVE  /\ UNCHANGED <<torn, real, pk>>
             /\ \A s \in Span : filed[s] # NoRow => filed'[s] # NoRow
  <2>1. job[w].span \in Span
    BY <1>0, <1>4 DEF Resolve, Finish, Owned, Jobs, JobOK, Busy
  <2>2. PICK S \in SUBSET Span : Refile(S)
    BY <1>4, <2>1, BelowType DEF Resolve, Finish
  <2>3. \A s \in Span : filed[s] # NoRow => filed'[s] # NoRow
    BY <2>2, RefileTags, TagRow
  <2>. QED
    BY <1>4, <2>3 DEF Resolve, Finish
<1>5. ASSUME NEW w \in Worker,
             \/ ClearEvents(w) \/ InsertEvent(w) \/ UpsertSession(w) \/ RecountSession(w)
             \/ DeriveHook(w) \/ DeriveOther(w) \/ Fail(w)
      PROVE  UNCHANGED <<torn, real, pk, filed>>
  <2>1. CASE Fail(w)
    BY <2>1 DEF Fail, rows
  <2>2. CASE ClearEvents(w) \/ InsertEvent(w) \/ UpsertSession(w) \/ RecountSession(w)
    BY <2>2, SMTT(30) DEF ClearEvents, InsertEvent, UpsertSession, RecountSession
  <2>3. CASE DeriveHook(w) \/ DeriveOther(w)
    BY <2>3 DEF DeriveHook, DeriveOther
  <2>. QED
    BY <1>5, <2>1, <2>2, <2>3
<1>6. ASSUME NEW d \in Deleter, (\E c \in Conversation : CheckExists(d, c)) \/ CollectTraces(d)
      PROVE  UNCHANGED <<torn, real, pk, filed>>
  BY <1>6 DEF CheckExists, CollectTraces, rows
<1>7. ASSUME NEW d \in Deleter, Purge(d)
      PROVE  /\ UNCHANGED torn
             /\ \A s \in Span : pk[s] # 0 => pk'[s] \in {0, pk[s]}
             /\ \A s \in real : s \in real' \/ pk'[s] = 0
             /\ \A s \in Span : filed[s] # NoRow => filed'[s] # NoRow \/ pk'[s] = 0 \/ Torn(s)
  <2>1. UNCHANGED torn /\ real' = real \ Gone(d)
        /\ pk' = [s \in Span |-> IF s \in Gone(d) THEN 0 ELSE pk[s]]
    BY <1>7 DEF Purge
  <2>2. ASSUME NEW s \in Span, filed[s] # NoRow, filed'[s] = NoRow, s \notin Gone(d)
        PROVE  Torn(s)
    <3>1. filed[s] = del[d].conv
      BY <1>7, <2>2 DEF Purge
    <3>2. del[d].conv \in Conversation
      BY <1>0, <1>7 DEF Purge, Typed, Calls
    <3>. QED
      BY <1>0, <1>7, <2>2, <3>1, <3>2, LeftIsTorn DEF Grounded, FiledFrom
  <2>. QED
    BY <1>0, <2>1, <2>2
<1>. QED
  BY <1>1, <1>2, <1>3, <1>4, <1>5, <1>6, <1>7 DEF Next, Step

(* The writers do something while a request is under way.                  *)
LEMMA Writing ==
  ASSUME Sound, Forms, Write
  PROVE  /\ UNCHANGED <<ask, got>> /\ Forms'
         /\ torn \subseteq torn'
         /\ ask # NoAsk =>
              /\ UNCHANGED <<seen.projected, seen.settled>>
              /\ seen.touched \subseteq seen'.touched /\ seen.gone \subseteq seen'.gone
              /\ seen'.gone \subseteq seen.gone \cup Span
              /\ \A s \in Span : eventRows'[s] = eventRows[s] \/ s \in seen'.touched
              /\ \A s \in Span : pk[s] # 0 => pk'[s] = pk[s] \/ s \in seen'.gone
              /\ \A s \in real : s \in real' \/ s \in seen'.gone
              /\ \A s \in Span : filed[s] # NoRow =>
                   filed'[s] # NoRow \/ s \in seen'.gone \/ Torn(s)
<1>1. Next /\ UNCHANGED <<ask, got>>
      /\ seen' = IF ask = NoAsk THEN seen
                 ELSE [seen EXCEPT
                   !.touched = seen.touched \cup {s \in Span : eventRows'[s] # eventRows[s]},
                   !.gone = seen.gone \cup {s \in Present : pk'[s] = 0}]
  BY DEF Write
<1>2. SeenShape
  BY DEF Forms
<1>3. ask # NoAsk =>
        /\ SeenShape'
        /\ UNCHANGED <<seen.projected, seen.settled>>
        /\ seen'.touched = seen.touched \cup {s \in Span : eventRows'[s] # eventRows[s]}
        /\ seen'.gone = seen.gone \cup {s \in Present : pk'[s] = 0}
  BY <1>1, <1>2 DEF SeenShape
<1>4. Forms'
  <2>1. Asks'
    BY <1>1 DEF Forms, Asks, AskOK, Asking, AllSensible, Among, Sensible, Loops, OneParent
  <2>2. Shaped(got)'
    BY <1>1 DEF Forms, Shaped, Fcn, RowShape
  <2>. QED
    BY <1>1, <1>2, <1>3, <2>1, <2>2 DEF Forms, SeenShape
<1>5. real \subseteq Present
  BY RealPresent
<1>6. \A s \in Span : filed[s] # NoRow => pk[s] # 0
  BY DEF Sound, Exact, Owned, SpanRows
<1>7. /\ torn \subseteq torn'
      /\ \A s \in Span : pk[s] # 0 => pk'[s] \in {0, pk[s]}
      /\ \A s \in real : s \in real' \/ pk'[s] = 0
      /\ \A s \in Span : filed[s] # NoRow => filed'[s] # NoRow \/ pk'[s] = 0 \/ Torn(s)
  BY <1>1, RowsStay
<1>. QED
  BY <1>1, <1>3, <1>4, <1>5, <1>6, <1>7 DEF Present

(* Between two requests.                                                   *)
Resting == ask = NoAsk /\ got = Nothing /\ seen = Unseen

LEMMA RestingForms == Resting => Forms
<1>. SUFFICES ASSUME Resting
              PROVE  Forms
  OBVIOUS
<1>1. Shaped(got)
  <2>1. PICK f : f = [t \in {} |-> 0]
    OBVIOUS
  <2>2. Fcn(f, DOMAIN f) /\ DOMAIN f = {}
    BY <2>1 DEF Fcn
  <2>3. PICK z, e : z = [s \in Span |-> 0] /\ e = [s \in Span |-> <<>>]
    OBVIOUS
  <2>4. z \in [Span -> Nat] /\ Fcn(z, Span) /\ Fcn(e, Span)
    BY <2>3 DEF Fcn
  <2>5. got = [pk |-> z, block |-> z, events |-> e, match |-> {}, parent |-> None,
               children |-> {}, trace |-> f]
    BY <2>1, <2>3 DEF Resting, Nothing
  <2>. QED
    BY <2>2, <2>4, <2>5 DEF Shaped
<1>2. AskOK(NoAsk) /\ NoAsk.todo = <<>> /\ NoAsk.rest = {}
  <2>1. \E S : <<>> \in Seq(S)
    OBVIOUS
  <2>2. PICK a : a = NoAsk
    OBVIOUS
  <2>3. /\ a.todo = <<>> /\ a.rest = {}
        /\ a = [path |-> a.path, of |-> a.of, todo |-> a.todo, rest |-> a.rest]
    BY <2>2 DEF NoAsk
  <2>4. AskOK(a)
    BY <2>1, <2>3, FewQueries DEF AskOK, Asking, Loops, OneParent
  <2>. QED
    BY <2>2, <2>3, <2>4
<1>3. Asks
  BY <1>2 DEF Asks, Resting
<1>4. SeenShape
  BY DEF SeenShape, Resting, Unseen
<1>. QED
  BY <1>1, <1>3, <1>4 DEF Forms

LEMMA Replying ==
  ASSUME Reply
  PROVE  UNCHANGED store /\ ask' = NoAsk /\ Forms'
<1>1. UNCHANGED store /\ ask' = NoAsk /\ got' = Nothing /\ seen' = Unseen
  BY DEF Reply
<1>2. Resting' => Forms'
  BY RestingForms, PTL
<1>3. Resting'
  <2>1. /\ NoAsk' = NoAsk /\ Unseen' = Unseen /\ Nothing' = Nothing
    BY DEF NoAsk, Unseen, Nothing
  <2>. QED
    BY <1>1, <2>1 DEF Resting
<1>. QED
  BY <1>1, <1>2, <1>3

LEMMA NextForms ==
  ASSUME Sound, Forms, [ReadNext]_all
  PROVE  Forms'
<1>1. CASE UNCHANGED all
  <2>1. UNCHANGED <<ask, got, seen>>
    BY <1>1 DEF all
  <2>2. Asks'
    BY <2>1 DEF Forms, Asks, AskOK, Asking, AllSensible, Among, Sensible, Loops, OneParent
  <2>3. Shaped(got)'
    BY <2>1 DEF Forms, Shaped, Fcn, RowShape
  <2>. QED
    BY <2>1, <2>2, <2>3 DEF Forms, SeenShape
<1>. QED
  BY <1>1, Writing, Coming, Answering, Replying DEF ReadNext

(* Each part of the answer changes by the queries about it only.           *)
BlockPart(q) ==
  \/ \E k \in ProjectedKind : q = <<"block", k>> /\ got'.block = WithBlocks(k)
  \/ got'.block = got.block /\ \A k : q # <<"block", k>>

EventPart(q) ==
  \/ \E s \in Span :
       q = <<"events", s>> /\ got'.events = [got.events EXCEPT ![s] = EventsOf(s)]
  \/ got'.events = got.events /\ \A s : q # <<"events", s>>

ParentPart(q) ==
  \/ \E s \in Span : q = <<"parent", s>> /\ got'.parent = ParentOf(s)
  \/ got'.parent = got.parent /\ \A s : q # <<"parent", s>>

MatchPart(q) ==
  \/ \E s \in Span : \E f \in {"tool", "agent", "event"} :
       q = <<f, s>> /\ got'.match = got.match \cup Matching(s, f)
  \/ got'.match = got.match /\ \A s : \A f \in {"tool", "agent", "event"} : q # <<f, s>>

TracePart(q) ==
  \/ \E t \in Traces : \E x \in {"kinds", "root", "conversation"} :
       q = <<x, t>> /\ TraceAnswered(x, t)
  \/ got'.trace = got.trace /\ \A t : \A x \in {"kinds", "root", "conversation"} : q # <<x, t>>

LEMMA AnswerParts ==
  ASSUME NEW q, Answer(q)
  PROVE  /\ got'.pk = got.pk
         /\ BlockPart(q) /\ EventPart(q) /\ ParentPart(q) /\ MatchPart(q) /\ TracePart(q)
<1>. USE DEF OtherParts, BlockPart, EventPart, ParentPart, MatchPart, TracePart
<1>1. CASE \E k \in ProjectedKind :
               q = <<"block", k>> /\ OtherParts(got, got', {"block"}) /\ got'.block = WithBlocks(k)
  BY <1>1
<1>2. CASE \E s \in Span :
               /\ q = <<"events", s>> /\ OtherParts(got, got', {"events"})
               /\ got'.events = [got.events EXCEPT ![s] = EventsOf(s)]
  BY <1>2
<1>3. CASE \E s \in Span : q = <<"children", s>> /\ OtherParts(got, got', {})
  BY <1>3
<1>4. CASE \E s \in Span :
               q = <<"parent", s>> /\ OtherParts(got, got', {"parent"}) /\ got'.parent = ParentOf(s)
  BY <1>4
<1>5. CASE \E s \in Span : \E f \in {"tool", "agent", "event"} :
               /\ q = <<f, s>> /\ OtherParts(got, got', {"match"})
               /\ got'.match = got.match \cup Matching(s, f)
  BY <1>5
<1>6. CASE \E t \in Traces : \E x \in {"kinds", "root", "conversation"} :
               q = <<x, t>> /\ OtherParts(got, got', {"trace"}) /\ TraceAnswered(x, t)
  BY <1>6
<1>. QED
  BY <1>1, <1>2, <1>3, <1>4, <1>5, <1>6 DEF Answer

-----------------------------------------------------------------------------
(* What stays while a request is answered.                                 *)

Kept == ask # NoAsk =>
  /\ \A s \in Span \ seen.gone : got.pk[s] # 0 => pk[s] = got.pk[s]
  /\ \A s \in seen.projected \ seen.gone : s \in Span /\ (filed[s] # NoRow \/ Torn(s))
  /\ \A s \in seen.settled \ seen.touched : eventRows[s] = FirstEvents(Total(s))
  /\ \A s \in seen.settled : s \in Span /\
       (Parent(s) # None /\ Stayed(TraceOf[s]) => pk[Parent(s)] # 0)

LEMMA NextKept ==
  ASSUME Sound, Forms, Kept, [ReadNext]_all
  PROVE  Kept'
<1>0. Owned /\ real \subseteq Span /\ pk \in [Span -> Nat]
  BY DEF Sound, Exact, Owned, Shapes
<1>1. CASE Write
  <2>. SUFFICES ASSUME ask # NoAsk
                PROVE  Kept'
    BY <1>1, Writing DEF Kept
  <2>1. /\ UNCHANGED <<ask, got, seen.projected, seen.settled>>
        /\ torn \subseteq torn'
        /\ seen.touched \subseteq seen'.touched /\ seen.gone \subseteq seen'.gone
        /\ \A s \in Span : eventRows'[s] = eventRows[s] \/ s \in seen'.touched
        /\ \A s \in Span : pk[s] # 0 => pk'[s] = pk[s] \/ s \in seen'.gone
        /\ \A s \in Span : filed[s] # NoRow =>
             filed'[s] # NoRow \/ s \in seen'.gone \/ Torn(s)
    BY <1>1, Writing
  <2>2. \A s : Torn(s) => Torn(s)'
    BY <2>1 DEF Torn
  <2>3. ASSUME NEW s \in Span \ seen'.gone, got'.pk[s] # 0
        PROVE  pk'[s] = got'.pk[s]
    BY <2>1, <2>3 DEF Kept
  <2>4. ASSUME NEW s \in seen'.projected \ seen'.gone
        PROVE  s \in Span /\ (filed'[s] # NoRow \/ Torn(s)')
    BY <2>1, <2>2 DEF Kept
  <2>5. ASSUME NEW s \in seen'.settled \ seen'.touched
        PROVE  eventRows'[s] = FirstEvents(Total(s))
    BY <2>1 DEF Kept
  <2>6. ASSUME NEW s \in seen'.settled, Parent(s) # None, Stayed(TraceOf[s])'
        PROVE  pk'[Parent(s)] # 0
    <3>1. s \in Span /\ Parent(s) \in Span /\ TraceOf[Parent(s)] = TraceOf[s]
      BY <2>1, <2>6, ParentType, ParentTrace DEF Kept
    <3>2. pk[Parent(s)] # 0 /\ Parent(s) \notin seen'.gone
      BY <2>1, <2>6, <3>1 DEF Kept, Stayed
    <3>. QED
      BY <2>1, <3>1, <3>2
  <2>. QED
    BY <2>1, <2>3, <2>4, <2>5, <2>6 DEF Kept
<1>2. CASE Request
  <2>1. /\ UNCHANGED store
        /\ seen'.projected = {s \in Span : filed[s] # NoRow}
        /\ seen'.settled = {s \in real \ shared : \A w \in Worker : job[w].span # s}
        /\ seen'.touched = {} /\ seen'.gone = {}
        /\ \A s \in Span : got'.pk[s] \in {0, pk[s]}
    BY <1>2, Coming DEF Opened
  <2>2. UNCHANGED <<pk, filed, eventRows, torn>>
    BY <2>1 DEF store, vars, rows
  <2>3. ASSUME NEW s \in seen'.settled
        PROVE  /\ s \in Span /\ eventRows[s] = FirstEvents(Total(s))
               /\ Parent(s) # None => pk[Parent(s)] # 0
    BY <1>0, <2>1 DEF Sound, Exact, Filled, Parented
  <2>. QED
    BY <2>1, <2>2, <2>3 DEF Kept
<1>3. CASE Query
  <2>1. UNCHANGED <<store, seen>> /\ got'.pk = got.pk /\ ask # NoAsk
    <3>1. Answer(Head(ask.todo)) /\ UNCHANGED <<store, seen>>
      BY <1>3, Answering
    <3>. QED
      BY <1>3, <3>1, AnswerParts DEF Query, NoAsk
  <2>2. UNCHANGED <<pk, filed, eventRows, torn>>
    BY <2>1 DEF store, vars, rows
  <2>. QED
    BY <2>1, <2>2 DEF Kept, Torn, Stayed
<1>4. CASE Reply
  BY <1>4, Replying DEF Kept
<1>5. CASE UNCHANGED all
  BY <1>5 DEF all, store, vars, rows, Kept, Torn, Stayed
<1>. QED
  BY <1>1, <1>2, <1>3, <1>4, <1>5 DEF ReadNext

-----------------------------------------------------------------------------
(* Projection blocks.                                                      *)

WithProjections == {"tree", "trace", "span", "search"}

Blocks == ask # NoAsk =>
  \A s \in Span : got.pk[s] # 0 =>
    /\ got.block[s] \in {0, got.pk[s]}
    /\ ask.path \in WithProjections /\ Kind[s] \in ProjectedKind
         /\ s \in seen.projected \ seen.gone =>
         got.block[s] # 0 \/ Torn(s) \/ ToCome(ask, <<"block", Kind[s]>>)

LEMMA NextBlocks ==
  ASSUME Sound, Forms, Kept, Blocks, [ReadNext]_all
  PROVE  Blocks'
<1>1. CASE Write
  <2>. SUFFICES ASSUME ask # NoAsk
                PROVE  Blocks'
    BY <1>1, Writing DEF Blocks
  <2>1. /\ UNCHANGED <<ask, got, seen.projected>> /\ seen.gone \subseteq seen'.gone
        /\ torn \subseteq torn'
    BY <1>1, Writing
  <2>2. \A s : Torn(s) => Torn(s)'
    BY <2>1 DEF Torn
  <2>3. \A q : ToCome(ask, q) => ToCome(ask', q)
    BY <2>1
  <2>. QED
    BY <2>1, <2>2, <2>3 DEF Blocks
<1>2. CASE Request
  <2>1. PICK a : /\ Opened(a, got') /\ ask'.path = a.path
                 /\ \A q : ToCome(a, q) => ToCome(ask', q)
    BY <1>2, Coming
  <2>2. \A s \in Span : got'.pk[s] # 0 =>
          /\ got'.block[s] = 0
          /\ a.path \in WithProjections => \A k \in ProjectedKind : ToCome(a, <<"block", k>>)
    BY <2>1 DEF Opened, WithProjections
  <2>. QED
    BY <2>1, <2>2 DEF Blocks
<1>3. CASE Query
  <2>. DEFINE q == Head(ask.todo)
  <2>1. /\ UNCHANGED <<store, seen>> /\ ask'.path = ask.path /\ got'.pk = got.pk /\ BlockPart(q)
        /\ \A p : ToCome(ask, p) /\ p # q => ToCome(ask', p)
    BY <1>3, Answering, AnswerParts
  <2>2. ask # NoAsk /\ UNCHANGED torn
    BY <1>3, <2>1 DEF Query, NoAsk, store, vars
  <2>. HIDE DEF q
  <2>3. CASE got'.block = got.block /\ \A k : q # <<"block", k>>
    BY <2>1, <2>2, <2>3 DEF Blocks, Torn
  <2>4. ASSUME NEW k \in ProjectedKind, q = <<"block", k>>, got'.block = WithBlocks(k)
        PROVE  Blocks'
    <3>1. ASSUME NEW s \in Span, got.pk[s] # 0
          PROVE  /\ got'.block[s] = IF /\ got.pk[s] = pk[s] /\ filed[s] # NoRow
                                       /\ Kind[s] = k THEN pk[s] ELSE got.block[s]
                 /\ got.block[s] \in {0, got.pk[s]}
      BY <2>2, <2>4, <3>1 DEF WithBlocks, Same, Blocks
    <3>2. ASSUME NEW s \in Span, got.pk[s] # 0, ask.path \in WithProjections,
                 Kind[s] \in ProjectedKind, s \in seen.projected \ seen.gone
          PROVE  got'.block[s] # 0 \/ Torn(s) \/ ToCome(ask', <<"block", Kind[s]>>)
      <4>1. CASE Kind[s] = k
        BY <2>2, <3>1, <3>2, <4>1 DEF Kept
      <4>2. CASE Kind[s] # k
        <5>1. <<"block", Kind[s]>> # q
          BY <2>4, <4>2
        <5>. QED
          BY <2>1, <2>2, <3>1, <3>2, <5>1 DEF Blocks
      <4>. QED
        BY <4>1, <4>2
    <3>. QED
      BY <2>1, <2>2, <3>1, <3>2 DEF Blocks, Torn
  <2>. QED
    BY <2>1, <2>3, <2>4 DEF BlockPart
<1>4. CASE Reply
  BY <1>4, Replying DEF Blocks
<1>5. CASE UNCHANGED all
  <2>1. UNCHANGED <<ask, got, seen, torn>>
    BY <1>5 DEF all, store, vars
  <2>. QED
    BY <2>1 DEF Blocks, Torn, ToCome, Among
<1>. QED
  BY <1>1, <1>2, <1>3, <1>4, <1>5 DEF ReadNext

-----------------------------------------------------------------------------
(* Events, and the row above a span.                                       *)

EventsGiven == ask # NoAsk /\ ask.path \in {"span", "export"} =>
  \A s \in seen.settled \ (seen.touched \cup seen.gone) : got.pk[s] # 0 =>
    got.events[s] = FirstEvents(Total(s)) \/ ToCome(ask, <<"events", s>>)

ParentGiven == ask # NoAsk /\ ask.path = "span" =>
  (ask.of \in seen.settled /\ Parent(ask.of) # None /\ Stayed(TraceOf[ask.of]) =>
     got.parent = Parent(ask.of) \/ ToCome(ask, <<"parent", ask.of>>))

LEMMA NextEventsGiven ==
  ASSUME Sound, Forms, Kept, EventsGiven, [ReadNext]_all
  PROVE  EventsGiven'
<1>1. CASE Write
  <2>. SUFFICES ASSUME ask # NoAsk
                PROVE  EventsGiven'
    BY <1>1, Writing DEF EventsGiven
  <2>1. /\ UNCHANGED <<ask, got, seen.settled>> /\ seen.gone \subseteq seen'.gone
        /\ seen.touched \subseteq seen'.touched
    BY <1>1, Writing
  <2>2. \A q : ToCome(ask, q) => ToCome(ask', q)
    BY <2>1
  <2>. QED
    BY <2>1, <2>2 DEF EventsGiven
<1>2. CASE Request
  <2>1. PICK a : /\ Opened(a, got') /\ ask'.path = a.path
                 /\ \A q : ToCome(a, q) => ToCome(ask', q)
    BY <1>2, Coming
  <2>2. a.path \in {"span", "export"} =>
          \A s \in Span : got'.pk[s] # 0 => ToCome(a, <<"events", s>>)
    BY <2>1 DEF Opened
  <2>3. seen'.settled \subseteq Span
    BY <1>2, RealPresent, Coming
  <2>. QED
    BY <2>1, <2>2, <2>3 DEF EventsGiven
<1>3. CASE Query
  <2>. DEFINE q == Head(ask.todo)
  <2>1. /\ UNCHANGED <<store, seen>> /\ ask'.path = ask.path /\ got'.pk = got.pk /\ EventPart(q)
        /\ \A p : ToCome(ask, p) /\ p # q => ToCome(ask', p)
    BY <1>3, Answering, AnswerParts
  <2>2. ask # NoAsk
    BY <1>3 DEF Query, NoAsk
  <2>. HIDE DEF q
  <2>3. CASE got'.events = got.events /\ \A s : q # <<"events", s>>
    BY <2>1, <2>2, <2>3 DEF EventsGiven
  <2>4. ASSUME NEW x \in Span, q = <<"events", x>>,
               got'.events = [got.events EXCEPT ![x] = EventsOf(x)]
        PROVE  EventsGiven'
    <3>1. Fcn(got.events, Span)
      BY DEF Forms, Shaped
    <3>2. \A s \in Span : got'.events[s] = IF s = x THEN EventsOf(x) ELSE got.events[s]
      BY <2>4, <3>1 DEF Fcn
    <3>3. ASSUME NEW s \in seen.settled \ (seen.touched \cup seen.gone), got.pk[s] # 0,
                 ask.path \in {"span", "export"}
          PROVE  got'.events[s] = FirstEvents(Total(s)) \/ ToCome(ask', <<"events", s>>)
      <4>1. s \in Span /\ pk[s] = got.pk[s] /\ eventRows[s] = FirstEvents(Total(s))
        BY <2>2, <3>3 DEF Kept
      <4>2. CASE s = x
        BY <3>2, <3>3, <4>1, <4>2 DEF EventsOf, Same
      <4>3. CASE s # x
        <5>1. <<"events", s>> # q
          BY <2>4, <4>3
        <5>. QED
          BY <2>1, <2>2, <3>2, <3>3, <4>1, <4>3, <5>1 DEF EventsGiven
      <4>. QED
        BY <4>2, <4>3
    <3>. QED
      BY <2>1, <2>2, <3>3 DEF EventsGiven
  <2>. QED
    BY <2>1, <2>3, <2>4 DEF EventPart
<1>4. CASE Reply
  BY <1>4, Replying DEF EventsGiven
<1>5. CASE UNCHANGED all
  <2>1. UNCHANGED <<ask, got, seen>>
    BY <1>5 DEF all
  <2>. QED
    BY <2>1 DEF EventsGiven, ToCome, Among
<1>. QED
  BY <1>1, <1>2, <1>3, <1>4, <1>5 DEF ReadNext

LEMMA NextParentGiven ==
  ASSUME Sound, Forms, Kept, ParentGiven, [ReadNext]_all
  PROVE  ParentGiven'
<1>1. CASE Write
  <2>. SUFFICES ASSUME ask # NoAsk
                PROVE  ParentGiven'
    BY <1>1, Writing DEF ParentGiven
  <2>1. /\ UNCHANGED <<ask, got, seen.settled>> /\ seen.gone \subseteq seen'.gone
    BY <1>1, Writing
  <2>2. \A q : ToCome(ask, q) => ToCome(ask', q)
    BY <2>1
  <2>3. \A t : Stayed(t)' => Stayed(t)
    BY <2>1 DEF Stayed
  <2>. QED
    BY <2>1, <2>2, <2>3 DEF ParentGiven
<1>2. CASE Request
  <2>1. PICK a : /\ Opened(a, got') /\ ask'.path = a.path /\ ask'.of = a.of
                 /\ \A q : ToCome(a, q) => ToCome(ask', q)
    BY <1>2, Coming
  <2>2. (a.path = "span" /\ a.of \in real /\ Parent(a.of) # None) => ToCome(a, <<"parent", a.of>>)
    BY <2>1 DEF Opened
  <2>3. seen'.settled \subseteq real
    BY <1>2, Coming
  <2>. QED
    BY <2>1, <2>2, <2>3 DEF ParentGiven
<1>3. CASE Query
  <2>. DEFINE q == Head(ask.todo)
  <2>1. /\ UNCHANGED <<store, seen>> /\ ask'.path = ask.path /\ ask'.of = ask.of /\ ParentPart(q)
        /\ \A p : ToCome(ask, p) /\ p # q => ToCome(ask', p)
    BY <1>3, Answering, AnswerParts
  <2>2. ask # NoAsk
    BY <1>3 DEF Query, NoAsk
  <2>. HIDE DEF q
  <2>3. CASE got'.parent = got.parent /\ \A s : q # <<"parent", s>>
    BY <2>1, <2>2, <2>3 DEF ParentGiven, Stayed
  <2>4. ASSUME NEW x \in Span, q = <<"parent", x>>, got'.parent = ParentOf(x)
        PROVE  ParentGiven'
    <3>1. CASE ask.of = x
      <4>1. x \in seen.settled /\ Parent(x) # None /\ Stayed(TraceOf[x]) =>
              pk[Parent(x)] # 0 /\ Parent(x) \in Span
        BY <2>2, ParentType DEF Kept
      <4>. QED
        BY <2>1, <2>2, <2>4, <3>1, <4>1 DEF ParentGiven, ParentOf, Present, Stayed
    <3>2. CASE ask.path = "span"
      <4>1. OneParent(ask.path, ask.of, ask.todo) /\ \E S : ask.todo \in Seq(S)
        BY DEF Forms, Asks, AskOK, Asking
      <4>2. ask.todo # <<>>
        BY <1>3 DEF Query
      <4>3. Among(q, ask.todo)
        BY <4>1, <4>2 DEF q, Among
      <4>. QED
        BY <2>4, <3>1, <3>2, <4>1, <4>3 DEF OneParent
    <3>3. CASE ask.path # "span"
      BY <2>1, <3>3 DEF ParentGiven
    <3>. QED
      BY <3>2, <3>3
  <2>. QED
    BY <2>1, <2>3, <2>4 DEF ParentPart
<1>4. CASE Reply
  BY <1>4, Replying DEF ParentGiven
<1>5. CASE UNCHANGED all
  <2>1. UNCHANGED <<ask, got, seen>>
    BY <1>5 DEF all
  <2>. QED
    BY <2>1 DEF ParentGiven, ToCome, Among, Stayed
<1>. QED
  BY <1>1, <1>2, <1>3, <1>4, <1>5 DEF ReadNext

-----------------------------------------------------------------------------
(* Where the text of a search was found.                                   *)

Fragment == {"tool", "agent", "event"}

FragmentIn(s, f) ==
  /\ f \in Text[s]
  /\ f = "tool" => Kind[s] = "execute_tool" /\ filed[s] # NoRow
  /\ f = "agent" => Kind[s] = "invoke_agent" /\ filed[s] # NoRow
  /\ f = "event" => eventRows[s] # <<>>

Fragments == \A s \in Span :
  /\ FoundIn(s) \subseteq Field /\ FoundIn(s) \subseteq Text[s]
  /\ \A f \in Fragment : f \in FoundIn(s) <=> FragmentIn(s, f)

LEMMA WhereText == Fragments
<1>. SUFFICES ASSUME NEW s \in Span
              PROVE  /\ FoundIn(s) \subseteq Field /\ FoundIn(s) \subseteq Text[s]
                     /\ \A f \in Fragment : f \in FoundIn(s) <=> FragmentIn(s, f)
  BY DEF Fragments
<1>1. FoundIn(s) \subseteq Text[s] /\ Text[s] \subseteq Field
  BY ReadAssumption DEF FoundIn, Held
<1>2. "tool" \in FoundIn(s) <=> FragmentIn(s, "tool")
  BY DEF FoundIn, Held, FragmentIn
<1>3. "agent" \in FoundIn(s) <=> FragmentIn(s, "agent")
  BY DEF FoundIn, Held, FragmentIn
<1>4. "event" \in FoundIn(s) <=> FragmentIn(s, "event")
  BY DEF FoundIn, Held, FragmentIn
<1>. QED
  BY <1>1, <1>2, <1>3, <1>4 DEF Fragment

Hit(s) == \E m \in got.match : m[1] = s

Awaited(s) == \E f \in Fragment : f \in FoundIn(s) /\ ToCome(ask, <<f, s>>)

HitsGiven == ask # NoAsk /\ ask.path = "search" =>
  \A s \in Span : got.pk[s] # 0 =>
    \/ Hit(s) \/ ~(Liked[s] \subseteq Text[s]) \/ s \in seen.touched \cup seen.gone \/ Torn(s)
    \/ Awaited(s)

LEMMA NextHitsGiven ==
  ASSUME Sound, Forms, Kept, HitsGiven, [ReadNext]_all
  PROVE  HitsGiven'
<1>1. CASE Write
  <2>. SUFFICES ASSUME ask # NoAsk
                PROVE  HitsGiven'
    BY <1>1, Writing DEF HitsGiven
  <2>1. /\ UNCHANGED <<ask, got>> /\ seen.gone \subseteq seen'.gone
        /\ seen.touched \subseteq seen'.touched /\ torn \subseteq torn'
        /\ \A s \in Span : eventRows'[s] = eventRows[s] \/ s \in seen'.touched
        /\ \A s \in Span : filed[s] # NoRow =>
             filed'[s] # NoRow \/ s \in seen'.gone \/ Torn(s)
    BY <1>1, Writing
  <2>2. \A s : (Torn(s) => Torn(s)') /\ (Hit(s) => Hit(s)')
    BY <2>1 DEF Torn, Hit
  <2>3. \A q : ToCome(ask, q) => ToCome(ask, q)'
    BY <2>1 DEF ToCome, Among
  <2>4. ASSUME NEW s \in Span, s \notin seen'.touched \cup seen'.gone, ~Torn(s),
               NEW f \in Fragment, f \in FoundIn(s)
        PROVE  f \in FoundIn(s)'
    <3>1. Fragments'
      BY WhereText, PTL
    <3>2. FragmentIn(s, f)
      BY <2>4, WhereText DEF Fragments
    <3>3. FragmentIn(s, f)'
      BY <2>1, <2>4, <3>2 DEF FragmentIn
    <3>. QED
      BY <2>4, <3>1, <3>3 DEF Fragments
  <2>5. ASSUME NEW s \in Span, s \notin seen'.touched \cup seen'.gone, ~Torn(s), Awaited(s)
        PROVE  Awaited(s)'
    BY <2>3, <2>4, <2>5 DEF Awaited
  <2>. QED
    BY <2>1, <2>2, <2>5 DEF HitsGiven
<1>2. CASE Request
  <2>1. PICK a : /\ Opened(a, got') /\ ask'.path = a.path
                 /\ \A q : ToCome(a, q) => ToCome(ask', q)
    BY <1>2, Coming
  <2>2. UNCHANGED <<filed, eventRows, real>>
    BY <1>2, Coming DEF store, vars, rows
  <2>3. ASSUME NEW s \in Span, got'.pk[s] # 0, a.path = "search"
        PROVE  Hit(s)' \/ ~(Liked[s] \subseteq Text[s]) \/ Awaited(s)'
    <3>1. /\ LikeIn(s) # {}
          /\ \A f \in Fragment : ToCome(a, <<f, s>>)
          /\ \A f \in {"name", "attributes"} \cap FoundIn(s) : <<s, f>> \in got'.match
      BY <2>1, <2>3 DEF Opened, Fragment
    <3>2. PICK f \in LikeIn(s) : TRUE
      BY <3>1
    <3>3. CASE ~(Liked[s] \subseteq Text[s])
      BY <3>3
    <3>. SUFFICES ASSUME Liked[s] \subseteq Text[s]
                  PROVE  Hit(s)' \/ Awaited(s)'
      BY <3>3
    <3>6. f \in FoundIn(s) /\ f \in Field
      BY <3>2, WhereText DEF Fragments, LikeIn, FoundIn, Held
    <3>4. CASE f \in {"name", "attributes"}
      <4>1. <<s, f>> \in got'.match /\ <<s, f>>[1] = s
        BY <3>1, <3>4, <3>6
      <4>. QED
        BY <4>1 DEF Hit
    <3>5. CASE f \in Fragment
      <4>1. f \in FoundIn(s)' /\ ToCome(ask, <<f, s>>)'
        BY <2>1, <2>2, <3>1, <3>5, <3>6 DEF FoundIn, Held, ToCome, Among
      <4>. QED
        BY <3>5, <4>1 DEF Awaited
    <3>. QED
      BY <3>4, <3>5, <3>6 DEF Field, Fragment
  <2>. QED
    BY <2>1, <2>3 DEF HitsGiven
<1>3. CASE Query
  <2>. DEFINE q == Head(ask.todo)
  <2>1. /\ UNCHANGED <<store, seen>> /\ ask'.path = ask.path /\ got'.pk = got.pk /\ MatchPart(q)
        /\ \A p : ToCome(ask, p) /\ p # q => ToCome(ask', p)
    BY <1>3, Answering, AnswerParts
  <2>2. ask # NoAsk
    BY <1>3 DEF Query, NoAsk
  <2>3. UNCHANGED <<filed, eventRows, real, torn, pk>>
    BY <2>1 DEF store, vars, rows
  <2>. HIDE DEF q
  <2>4. \A s : Torn(s)' = Torn(s)
    BY <2>3 DEF Torn
  <2>5. \A s : (Hit(s) => Hit(s)') /\ FoundIn(s)' = FoundIn(s)
    <3>1. got.match \subseteq got'.match
      BY <2>1 DEF MatchPart
    <3>. QED
      BY <2>3, <3>1 DEF Hit, FoundIn, Held
  <2>6. ASSUME NEW s \in Span, got.pk[s] # 0, s \notin seen.gone,
               NEW f \in Fragment, f \in FoundIn(s), ToCome(ask, <<f, s>>)
        PROVE  Hit(s)' \/ Awaited(s)'
    <3>1. CASE q # <<f, s>>
      <4>1. ToCome(ask', <<f, s>>)
        BY <2>1, <2>6, <3>1
      <4>2. ToCome(ask, <<f, s>>)' /\ f \in FoundIn(s)'
        BY <2>5, <2>6, <4>1 DEF ToCome, Among
      <4>. QED
        BY <4>2 DEF Awaited
    <3>2. CASE q = <<f, s>>
      <4>1. got'.match = got.match \cup Matching(s, f)
        <5>1. PICK t \in Span : \E g \in Fragment :
                q = <<g, t>> /\ got'.match = got.match \cup Matching(t, g)
          BY <2>1, <3>2 DEF MatchPart, Fragment
        <5>. QED
          BY <3>2, <5>1
      <4>2. Matching(s, f) = {<<s, f>>}
        BY <2>2, <2>6 DEF Matching, Same, Kept
      <4>3. <<s, f>> \in got'.match /\ <<s, f>>[1] = s
        BY <4>1, <4>2
      <4>. QED
        BY <4>3 DEF Hit
    <3>. QED
      BY <3>1, <3>2
  <2>7. ASSUME NEW s \in Span, got.pk[s] # 0, s \notin seen.gone, Awaited(s)
        PROVE  Hit(s)' \/ Awaited(s)'
    BY <2>6, <2>7 DEF Awaited
  <2>. QED
    BY <2>1, <2>2, <2>4, <2>5, <2>7 DEF HitsGiven
<1>4. CASE Reply
  BY <1>4, Replying DEF HitsGiven
<1>5. CASE UNCHANGED all
  <2>1. UNCHANGED <<ask, got, seen, torn, filed, eventRows, real>>
    BY <1>5 DEF all, store, vars, rows
  <2>2. \A s : Torn(s)' = Torn(s) /\ (Hit(s) => Hit(s)') /\ FoundIn(s)' = FoundIn(s)
    BY <2>1 DEF Torn, Hit, FoundIn, Held
  <2>3. \A q : ToCome(ask, q) => ToCome(ask, q)'
    BY <2>1 DEF ToCome, Among
  <2>4. \A s : Awaited(s) => Awaited(s)'
    BY <2>2, <2>3 DEF Awaited
  <2>. QED
    BY <2>1, <2>2, <2>4 DEF HitsGiven
<1>. QED
  BY <1>1, <1>2, <1>3, <1>4, <1>5 DEF ReadNext

-----------------------------------------------------------------------------
(* A trace has a root.                                                     *)

Tops(t) == {s \in InTrace(t) : s \notin real \/ Parent(s) = None \/ Parent(s) \notin Present}

Ahead(a, b) == EndOf(a) < EndOf(b) \/ (EndOf(a) = EndOf(b) /\ pk[a] < pk[b])

(* Who has the shortest lineage of those there has no parent there.        *)
LEMMA TopThere ==
  ASSUME NEW t, InTrace(t) # {}
  PROVE  Tops(t) # {}
<1>. DEFINE D == {Len(Lineage[s]) : s \in InTrace(t)}
<1>1. InTrace(t) \subseteq Span
  BY DEF InTrace, Present
<1>2. \A s \in Span : Len(Lineage[s]) \in Nat
  BY StoreAssumption
<1>3. D \in SUBSET Nat /\ D # {}
  BY <1>1, <1>2
<1>4. PICK n \in D : \A m \in D : n <= m
  BY <1>3, LeastNatural
<1>5. PICK s \in InTrace(t) : n = Len(Lineage[s])
  BY <1>4
<1>6. ASSUME Parent(s) # None, Parent(s) \in Present
      PROVE  FALSE
  <2>1. /\ s \in Span /\ TraceOf[s] = t /\ Lineage[s] \in Seq(Span) /\ Lineage[s] # <<>>
        /\ Parent(s) = Lineage[s][1]
    BY <1>1, <1>6, StoreAssumption DEF InTrace, Parent
  <2>2. 1 \in 1 .. Len(Lineage[s]) /\ Len(Lineage[s]) \in Nat
    BY <2>1
  <2>3. /\ TraceOf[Parent(s)] = t
        /\ Lineage[Parent(s)] = SubSeq(Lineage[s], 2, Len(Lineage[s]))
    BY <2>1, <2>2, StoreAssumption
  <2>4. Len(Lineage[Parent(s)]) = Len(Lineage[s]) - 1
    BY <2>1, <2>2, <2>3
  <2>5. Parent(s) \in InTrace(t)
    BY <1>6, <2>3 DEF InTrace
  <2>6. Len(Lineage[Parent(s)]) \in D
    BY <2>5
  <2>7. n <= Len(Lineage[Parent(s)])
    BY <1>4, <2>6
  <2>. QED
    BY <1>5, <2>2, <2>4, <2>7
<1>. QED
  BY <1>5, <1>6 DEF Tops

(* By end and row, one is the first.                                       *)
LEMMA FirstThere ==
  ASSUME Sound, NEW S \in SUBSET Present, S # {}
  PROVE  \E s \in S : \A o \in S \ {s} : Ahead(s, o)
<1>. DEFINE D == {EndOf(s) : s \in S}
<1>1. /\ S \subseteq Span /\ pk \in [Span -> Nat] /\ \A s \in S : pk[s] # 0
      /\ \A a \in Span, b \in Span : pk[a] = pk[b] /\ pk[a] # 0 => a = b
  BY DEF Present, Sound, Exact, Owned, Shapes, Identified, Numbered
<1>2. \A s \in S : EndOf(s) \in Nat
  BY <1>1, ReadAssumption DEF EndOf
<1>3. PICK e \in D : \A x \in D : e <= x
  <2>1. D \in SUBSET Nat /\ D # {}
    BY <1>2
  <2>. QED
    BY <2>1, LeastNatural
<1>. DEFINE F == {s \in S : EndOf(s) = e}
            P == {pk[s] : s \in F}
<1>4. PICK k \in P : \A x \in P : k <= x
  <2>1. P \in SUBSET Nat /\ P # {}
    BY <1>1, <1>3
  <2>. QED
    BY <2>1, LeastNatural
<1>5. PICK s \in F : pk[s] = k
  BY <1>4
<1>6. ASSUME NEW o \in S \ {s}
      PROVE  Ahead(s, o)
  <2>1. e \in Nat /\ EndOf(o) \in Nat /\ e <= EndOf(o) /\ EndOf(s) = e
    BY <1>2, <1>3, <1>5
  <2>2. CASE EndOf(o) # e
    BY <2>1, <2>2 DEF Ahead
  <2>3. CASE EndOf(o) = e
    <3>1. pk[o] \in P /\ pk[s] \in Nat /\ pk[o] \in Nat /\ pk[s] # pk[o]
      BY <1>1, <1>5, <2>3
    <3>2. pk[s] <= pk[o]
      BY <1>4, <1>5, <3>1
    <3>. QED
      BY <2>1, <2>3, <3>1, <3>2 DEF Ahead
  <2>. QED
    BY <2>2, <2>3
<1>. QED
  BY <1>5, <1>6

LEMMA RootThere ==
  ASSUME Sound, NEW t, InTrace(t) # {}
  PROVE  RootOf(t) # None
<1>1. Tops(t) # {} /\ Tops(t) \in SUBSET Present
  BY TopThere DEF Tops, InTrace
<1>2. PICK s \in Tops(t) : \A o \in Tops(t) \ {s} : Ahead(s, o)
  BY <1>1, FirstThere
<1>3. RootOf(t) = CHOOSE x \in Tops(t) : \A o \in Tops(t) \ {x} : Ahead(x, o)
  BY <1>1 DEF RootOf, Tops, Ahead
<1>4. RootOf(t) \in Tops(t)
  BY <1>2, <1>3
<1>. QED
  BY <1>1, <1>4, StoreAssumption DEF Present

-----------------------------------------------------------------------------
(* The rows of list_traces.                                                *)

LEMMA TraceSize ==
  ASSUME NEW t
  PROVE  /\ IsFiniteSet(InTrace(t)) /\ Cardinality(InTrace(t)) \in Nat
         /\ InTrace(t) # {} => Cardinality(InTrace(t)) # 0
         /\ Cardinality(InTrace(t) \ real) \in 0 .. Cardinality(InTrace(t))
<1>1. InTrace(t) \subseteq Span
  BY DEF InTrace, Present
<1>2. IsFiniteSet(InTrace(t))
  BY <1>1, StoreAssumption, FS_Subset
<1>3. /\ Cardinality(InTrace(t)) \in Nat
      /\ InTrace(t) # {} => Cardinality(InTrace(t)) # 0
  BY <1>2, FS_CardinalityType, FS_EmptySet
<1>4. /\ IsFiniteSet(InTrace(t) \ real)
      /\ Cardinality(InTrace(t) \ real) <= Cardinality(InTrace(t))
  BY <1>2, FS_Subset
<1>5. Cardinality(InTrace(t) \ real) \in Nat
  BY <1>4, FS_CardinalityType
<1>. QED
  BY <1>2, <1>3, <1>4, <1>5

NumbersOf(r) == r.count \in Nat /\ r.count # 0 /\ r.kinds \in Nat /\ r.placeholders \in 0 .. r.count

RowGiven(r, t) ==
  /\ NumbersOf(r)
  /\ Stayed(t) =>
       /\ r.count <= Cardinality(InTrace(t))
       /\ r.carriers \subseteq ConversationsIn(t)
       /\ r.count <= r.kinds \/ ToCome(ask, <<"kinds", t>>)
       /\ r.root # None \/ ToCome(ask, <<"root", t>>)
       /\ r.carriers # {} => r.conv # None \/ ToCome(ask, <<"conversation", t>>)

TracesGiven == ask # NoAsk =>
  \A t \in DOMAIN got.trace : ask.path = "traces" /\ RowGiven(got.trace[t], t)

(* As long as nothing of it is deleted, a trace only grows.                *)
LEMMA TraceGrows ==
  ASSUME Sound, Forms, Write, ask # NoAsk, NEW t, Stayed(t)'
  PROVE  /\ Stayed(t)
         /\ Cardinality(InTrace(t)) <= Cardinality(InTrace(t)')
         /\ ConversationsIn(t) \subseteq ConversationsIn(t)'
<1>1. /\ seen.gone \subseteq seen'.gone
      /\ \A s \in Span : pk[s] # 0 => pk'[s] = pk[s] \/ s \in seen'.gone
      /\ \A s \in real : s \in real' \/ s \in seen'.gone
  BY Writing
<1>2. Stayed(t)
  BY <1>1 DEF Stayed
<1>3. InTrace(t) \subseteq InTrace(t)' /\ InTrace(t)' \subseteq Span
  BY <1>1 DEF Stayed, InTrace, Present
<1>4. InTrace(t) \cap real \subseteq (InTrace(t) \cap real)'
  BY <1>1, <1>3 DEF Stayed, InTrace
<1>5. ConversationsIn(t) \subseteq ConversationsIn(t)'
  BY <1>4 DEF ConversationsIn
<1>6. IsFiniteSet(InTrace(t)')
  BY <1>3, StoreAssumption, FS_Subset
<1>7. Cardinality(InTrace(t)) <= Cardinality(InTrace(t)')
  BY <1>3, <1>6, FS_Subset
<1>. QED
  BY <1>2, <1>5, <1>7

LEMMA NextTracesGiven ==
  ASSUME Sound, Forms, TracesGiven, [ReadNext]_all
  PROVE  TracesGiven'
<1>1. CASE Write
  <2>. SUFFICES ASSUME ask # NoAsk
                PROVE  TracesGiven'
    BY <1>1, Writing DEF TracesGiven
  <2>1. UNCHANGED <<ask, got>>
    BY <1>1, Writing
  <2>2. \A q : ToCome(ask, q) => ToCome(ask, q)'
    BY <2>1 DEF ToCome, Among
  <2>3. ASSUME NEW t \in DOMAIN got.trace
        PROVE  ask.path = "traces" /\ RowGiven(got.trace[t], t)'
    <3>1. PICK r : r = got.trace[t]
      OBVIOUS
    <3>2. ask.path = "traces" /\ RowGiven(r, t) /\ got'.trace[t] = r
      BY <2>1, <3>1 DEF TracesGiven
    <3>3. NumbersOf(r)
      BY <3>2 DEF RowGiven
    <3>4. Cardinality(InTrace(t)) \in Nat
      BY TraceSize
    <3>5. Stayed(t)' => Cardinality(InTrace(t)') \in Nat
      <4>1. InTrace(t)' \subseteq Span
        BY DEF InTrace, Present
      <4>. QED
        BY <4>1, StoreAssumption, FS_Subset, FS_CardinalityType
    <3>6. Stayed(t)' => /\ r.count <= Cardinality(InTrace(t)')
                        /\ r.carriers \subseteq ConversationsIn(t)'
      <4>. SUFFICES ASSUME Stayed(t)'
                    PROVE  /\ r.count <= Cardinality(InTrace(t)')
                           /\ r.carriers \subseteq ConversationsIn(t)'
        OBVIOUS
      <4>1. /\ Stayed(t) /\ Cardinality(InTrace(t)) <= Cardinality(InTrace(t)')
            /\ ConversationsIn(t) \subseteq ConversationsIn(t)'
        BY <1>1, TraceGrows
      <4>2. r.count <= Cardinality(InTrace(t)) /\ r.carriers \subseteq ConversationsIn(t)
        BY <3>2, <4>1 DEF RowGiven
      <4>. QED
        BY <3>3, <3>4, <3>5, <4>1, <4>2 DEF NumbersOf
    <3>7. Stayed(t)' => Stayed(t)
      BY <1>1, TraceGrows
    <3>8. RowGiven(r, t)'
      BY <2>2, <3>2, <3>6, <3>7 DEF RowGiven, NumbersOf
    <3>. QED
      BY <3>2, <3>8 DEF RowGiven, NumbersOf
  <2>. QED
    BY <2>1, <2>3 DEF TracesGiven
<1>2. CASE Request
  <2>1. PICK a : /\ Opened(a, got') /\ ask'.path = a.path
                 /\ \A q : ToCome(a, q) => ToCome(ask', q)
    BY <1>2, Coming
  <2>2. UNCHANGED <<pk, real>>
    BY <1>2, Coming DEF store, vars, rows
  <2>3. \A q : ToCome(a, q) => ToCome(ask, q)'
    BY <2>1 DEF ToCome, Among
  <2>4. ASSUME NEW t \in DOMAIN got'.trace
        PROVE  a.path = "traces" /\ RowGiven(got.trace[t], t)'
    <3>1. PICK r : r = got'.trace[t]
      OBVIOUS
    <3>2. /\ a.path = "traces" /\ InTrace(t) # {}
          /\ r = FirstRow(t)
          /\ \A x \in {"kinds", "root", "conversation"} : ToCome(a, <<x, t>>)
      BY <2>1, <3>1 DEF Opened, InTrace
    <3>3. /\ r.count = Cardinality(InTrace(t)) /\ r.kinds = 0
          /\ r.placeholders = Cardinality(InTrace(t) \ real) /\ r.carriers = ConversationsIn(t)
      BY <3>2 DEF FirstRow
    <3>4. NumbersOf(r) /\ r.count <= Cardinality(InTrace(t)) /\ r.carriers \subseteq ConversationsIn(t)
      BY <3>2, <3>3, TraceSize DEF NumbersOf
    <3>5. InTrace(t)' = InTrace(t) /\ ConversationsIn(t)' = ConversationsIn(t)
      BY <2>2 DEF InTrace, Present, ConversationsIn
    <3>6. RowGiven(r, t)'
      BY <2>3, <3>2, <3>4, <3>5 DEF RowGiven, NumbersOf
    <3>. QED
      BY <3>1, <3>2, <3>6 DEF RowGiven, NumbersOf
  <2>. QED
    BY <2>1, <2>4 DEF TracesGiven
<1>3. CASE Query
  <2>. DEFINE q == Head(ask.todo)
  <2>1. /\ UNCHANGED <<store, seen>> /\ ask'.path = ask.path /\ TracePart(q)
        /\ \A p : ToCome(ask, p) /\ p # q => ToCome(ask', p)
    BY <1>3, Answering, AnswerParts
  <2>2. ask # NoAsk
    BY <1>3 DEF Query, NoAsk
  <2>3. UNCHANGED <<pk, real, seen>>
    BY <2>1 DEF store, vars, rows
  <2>4. \A p : ToCome(ask', p) => ToCome(ask, p)'
    BY DEF ToCome, Among
  <2>. HIDE DEF q
  <2>5. \A t : InTrace(t)' = InTrace(t) /\ ConversationsIn(t)' = ConversationsIn(t)
               /\ Stayed(t)' = Stayed(t)
    BY <2>3 DEF InTrace, Present, ConversationsIn, Stayed
  <2>6. CASE got'.trace = got.trace /\ \A t : \A x \in {"kinds", "root", "conversation"} : q # <<x, t>>
    <3>1. ASSUME NEW t \in DOMAIN got.trace
          PROVE  ask.path = "traces" /\ RowGiven(got.trace[t], t)'
      <4>1. PICK r : r = got.trace[t]
        OBVIOUS
      <4>2. ask.path = "traces" /\ RowGiven(r, t) /\ got'.trace[t] = r
        BY <2>2, <2>6, <4>1 DEF TracesGiven
      <4>3. RowGiven(r, t)'
        BY <2>1, <2>4, <2>5, <2>6, <4>2 DEF RowGiven, NumbersOf
      <4>. QED
        BY <4>2, <4>3 DEF RowGiven, NumbersOf
    <3>. QED
      BY <2>1, <2>6, <3>1 DEF TracesGiven
  <2>7. ASSUME NEW u \in Traces, NEW x \in {"kinds", "root", "conversation"},
               q = <<x, u>>, TraceAnswered(x, u)
        PROVE  TracesGiven'
    <3>1. DOMAIN got'.trace = DOMAIN got.trace
      BY <2>7 DEF TraceAnswered
    <3>2. ASSUME NEW t \in DOMAIN got.trace
          PROVE  ask.path = "traces" /\ RowGiven(got.trace[t], t)'
      <4>1. PICK r, p : r = got.trace[t] /\ p = got'.trace[t]
        OBVIOUS
      <4>2. ask.path = "traces" /\ RowGiven(r, t)
        BY <2>2, <4>1 DEF TracesGiven
      <4>3. /\ p.count = r.count /\ p.placeholders = r.placeholders /\ p.carriers = r.carriers
            /\ p.kinds = IF t = u /\ x = "kinds" THEN Cardinality(InTrace(t)) ELSE r.kinds
            /\ p.root = IF t = u /\ x = "root" THEN RootOf(t) ELSE r.root
            /\ \/ p.conv = r.conv /\ ~(t = u /\ x = "conversation" /\ ConversationsIn(t) # {})
               \/ t = u /\ x = "conversation" /\ p.conv \in ConversationsIn(t)
        BY <2>7, <4>1, <4>2 DEF TraceAnswered
      <4>4. NumbersOf(r) /\ NumbersOf(p)
        BY <4>2, <4>3, TraceSize DEF RowGiven, NumbersOf
      <4>5. ASSUME NEW y \in {"kinds", "root", "conversation"}, ~(t = u /\ x = y),
                   ToCome(ask, <<y, t>>)
            PROVE  ToCome(ask, <<y, t>>)'
        <5>1. <<y, t>> # q
          BY <2>7, <4>5
        <5>. QED
          BY <2>1, <2>4, <4>5, <5>1
      <4>6. ASSUME Stayed(t)
            PROVE  /\ p.count <= Cardinality(InTrace(t))
                   /\ p.carriers \subseteq ConversationsIn(t)
                   /\ p.count <= p.kinds \/ ToCome(ask, <<"kinds", t>>)'
                   /\ p.root # None \/ ToCome(ask, <<"root", t>>)'
                   /\ p.carriers # {} => p.conv # None \/ ToCome(ask, <<"conversation", t>>)'
        <5>1. /\ r.count <= Cardinality(InTrace(t)) /\ r.carriers \subseteq ConversationsIn(t)
              /\ r.count <= r.kinds \/ ToCome(ask, <<"kinds", t>>)
              /\ r.root # None \/ ToCome(ask, <<"root", t>>)
              /\ r.carriers # {} => r.conv # None \/ ToCome(ask, <<"conversation", t>>)
          BY <4>2, <4>6 DEF RowGiven
        <5>2. p.count <= p.kinds \/ ToCome(ask, <<"kinds", t>>)'
          BY <4>3, <4>5, <5>1
        <5>3. InTrace(t) # {}
          BY <4>4, <5>1, FS_EmptySet DEF NumbersOf
        <5>4. p.root # None \/ ToCome(ask, <<"root", t>>)'
          BY <4>3, <4>5, <5>1, <5>3, RootThere
        <5>5. None \notin ConversationsIn(t)
          BY DEF ConversationsIn
        <5>6. p.carriers # {} => p.conv # None \/ ToCome(ask, <<"conversation", t>>)'
          BY <4>3, <4>5, <5>1, <5>5
        <5>. QED
          BY <4>3, <5>1, <5>2, <5>4, <5>6
      <4>7. RowGiven(p, t)'
        BY <2>5, <4>4, <4>6 DEF RowGiven, NumbersOf
      <4>. QED
        BY <4>1, <4>2, <4>7 DEF RowGiven, NumbersOf
    <3>. QED
      BY <2>1, <3>1, <3>2 DEF TracesGiven
  <2>. QED
    BY <2>1, <2>6, <2>7 DEF TracePart
<1>4. CASE Reply
  BY <1>4, Replying DEF TracesGiven
<1>5. CASE UNCHANGED all
  <2>1. UNCHANGED <<ask, got, seen, pk, real>>
    BY <1>5 DEF all, store, vars, rows
  <2>2. \A t : InTrace(t)' = InTrace(t) /\ ConversationsIn(t)' = ConversationsIn(t)
               /\ Stayed(t)' = Stayed(t)
    BY <2>1 DEF InTrace, Present, ConversationsIn, Stayed
  <2>3. \A p : ToCome(ask, p) => ToCome(ask, p)'
    BY <2>1 DEF ToCome, Among
  <2>4. \A t \in DOMAIN got.trace : RowGiven(got.trace[t], t) => RowGiven(got.trace[t], t)'
    BY <2>1, <2>2, <2>3 DEF RowGiven, NumbersOf
  <2>. QED
    BY <2>1, <2>4 DEF TracesGiven
<1>. QED
  BY <1>1, <1>2, <1>3, <1>4, <1>5 DEF ReadNext

-----------------------------------------------------------------------------
(***************************************************************************)
(* The invariant: of everything that an answer owes, what is not there yet *)
(* is to come.  When nothing is left to ask, the answer fits together.     *)
(***************************************************************************)
Owing ==
  /\ Sound /\ Forms /\ Kept
  /\ Blocks /\ EventsGiven /\ ParentGiven /\ HitsGiven /\ TracesGiven

LEMMA InitOwing == ReadInit => Owing
<1>. SUFFICES ASSUME ReadInit
              PROVE  Owing
  OBVIOUS
<1>1. Sound /\ Forms /\ ask = NoAsk
  BY InitSound, RestingForms DEF ReadInit, Resting
<1>. QED
  BY <1>1 DEF Owing, Kept, Blocks, EventsGiven, ParentGiven, HitsGiven, TracesGiven

LEMMA NextOwing == Owing /\ [ReadNext]_all => Owing'
<1>. SUFFICES ASSUME Owing, [ReadNext]_all
              PROVE  Owing'
  OBVIOUS
<1>. USE DEF Owing
<1>1. Sound'
  BY ReadersOnlyRead, NextSound DEF store
<1>2. Forms' /\ Kept' /\ Blocks'
  BY NextForms, NextKept, NextBlocks
<1>3. EventsGiven' /\ ParentGiven' /\ HitsGiven' /\ TracesGiven'
  BY NextEventsGiven, NextParentGiven, NextHitsGiven, NextTracesGiven
<1>. QED
  BY <1>1, <1>2, <1>3

LEMMA NothingToCome ==
  ASSUME Owing, Complete
  PROVE  \A q : ~ToCome(ask, q)
<1>1. ask.todo = <<>> /\ ask.rest = {}
  BY DEF Complete, Owing, Forms, Asks
<1>. QED
  BY <1>1 DEF ToCome, Among

LEMMA OwingFits == Owing => AnswersFit
<1>. SUFFICES ASSUME Owing
              PROVE  AnswersFit
  OBVIOUS
<1>. USE NothingToCome DEF Owing
<1>1. TracesAddUp
  <2>. SUFFICES ASSUME Complete, NEW t \in DOMAIN got.trace
                PROVE  LET r == got.trace[t] IN
                       /\ r.placeholders <= r.count
                       /\ Stayed(t) => /\ 1 <= r.count /\ r.count <= r.kinds
                                       /\ r.root # None
                                       /\ r.carriers # {} => r.conv # None
    BY DEF TracesAddUp
  <2>1. RowGiven(got.trace[t], t)
    BY DEF TracesGiven, Complete
  <2>. QED
    BY <2>1 DEF RowGiven, NumbersOf
<1>2. BlocksBelong
  <2>. SUFFICES ASSUME Complete, ask.path \in WithProjections, NEW s \in Listed
                PROVE  /\ got.block[s] \in {0, got.pk[s]}
                       /\ s \in seen.projected \ seen.gone /\ Kind[s] # "other" =>
                            got.block[s] # 0 \/ Torn(s)
    BY DEF BlocksBelong, WithProjections
  <2>1. Kind[s] # "other" => Kind[s] \in ProjectedKind
    BY ReadAssumption DEF Listed, KindClass, ProjectedKind
  <2>. QED
    BY <2>1 DEF Blocks, Complete, Listed
<1>3. AnswersWhole
  BY DEF AnswersWhole, EventsGiven, Complete, Listed, FirstEvents, Total
<1>4. ParentShown
  BY DEF ParentShown, ParentGiven, Complete
<1>5. HitsExplained
  BY DEF HitsExplained, HitsGiven, Complete, Listed, Hit, Awaited
<1>. QED
  BY <1>1, <1>2, <1>3, <1>4, <1>5 DEF AnswersFit

(* Whatever the writers do between the queries of a request, what its      *)
(* answer is put together from fits together.                              *)
THEOREM AnswersAlwaysFit == ReadSpec => []AnswersFit
<1>1. ReadSpec => []Owing
  BY InitOwing, NextOwing, PTL DEF ReadSpec
<1>. QED
  BY <1>1, OwingFits, PTL
=============================================================================

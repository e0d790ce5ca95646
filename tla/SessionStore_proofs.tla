------------------------- MODULE SessionStore_proofs -------------------------
(***************************************************************************)
(* Whatever spans, calls and deletions there are: no row outlives its      *)
(* span, deliveries leave exactly the events of a span, calls that are     *)
(* over have left everything they derive, and a deletion takes all there   *)
(* is of a session and nothing else.                                       *)
(***************************************************************************)
EXTENDS SessionStore, SequenceTheorems, FiniteSetTheorems, TLAPS

-----------------------------------------------------------------------------
(* Rows and their spans.                                                   *)

(* What most steps need to know of the constants.                          *)
LEMMA Plain ==
  /\ None \notin Span /\ NoRow # None
  /\ Events \in [Span -> Seq(EventName \X (Hook \cup {None}))]
BY StoreAssumption

LEMMA ParentType == \A s \in Span : Parent(s) \in Span \cup {None}
BY StoreAssumption DEF Parent

(* A call's local variables, whatever conversation it found.               *)
Fields(r) == r \in [span : Span \cup {None}, pk : Nat, at : Nat \ {0}, conv : {r.conv}]

Shapes ==
  /\ lastPk \in Nat /\ pk \in [Span -> Nat] /\ real \subseteq {s \in Span : pk[s] # 0}
  /\ DOMAIN eventRows = Span /\ DOMAIN filed = Span /\ DOMAIN skill = Span /\ DOMAIN hook = Hook
  /\ DOMAIN pc = Worker /\ DOMAIN job = Worker

(* A call under way has the span_pk of a row that exists or existed.       *)
Busy(r) == r.span \in Span /\ r.pk # 0

JobOK(w) ==
  /\ Fields(job[w])
  /\ pc[w] # "idle" => Busy(job[w])

Jobs == \A w \in Worker : JobOK(w)

(* A hook's row names the span that inserted it, which has a row.          *)
HookSpans ==
  \A h \in Hook : hook[h] # NoRow =>
    "span" \in DOMAIN hook[h] /\ hook[h].span \in Span /\ pk[hook[h].span] # 0

SpanRows ==
  \A s \in Span : pk[s] = 0 => eventRows[s] = <<>> /\ filed[s] = NoRow /\ skill[s] = NoRow

Owned == Shapes /\ Jobs /\ HookSpans /\ SpanRows

LEMMA InitOwned == Init => Owned
BY StoreAssumption DEF Init, Owned, Shapes, Jobs, JobOK, Busy, Fields, HookSpans, SpanRows, NoJob

LEMMA Advanced ==
  ASSUME NEW r, Fields(r), Busy(r), NEW q, q = [r EXCEPT !.at = r.at + 1]
  PROVE  Fields(q) /\ Busy(q)
<1>1. q \in [span : Span \cup {None}, pk : Nat, at : Nat \ {0}, conv : {r.conv}]
  BY DEF Fields
<1>2. q.span = r.span /\ q.pk = r.pk /\ q.conv = r.conv
  BY DEF Fields
<1>. QED
  BY <1>1, <1>2 DEF Fields, Busy

LEMMA Found ==
  ASSUME NEW r, Fields(r), Busy(r), NEW c, NEW q, q = [r EXCEPT !.conv = c, !.at = 1]
  PROVE  Fields(q) /\ Busy(q)
<1>. DEFINE C == {c, r.conv}
            R == [span : Span \cup {None}, pk : Nat, at : Nat \ {0}, conv : C]
<1>1. r \in R /\ c \in C
  BY DEF Fields
<1>. HIDE DEF C
<1>2. r = [span |-> r.span, pk |-> r.pk, at |-> r.at, conv |-> r.conv]
  BY <1>1
<1>3. q = [span |-> r.span, pk |-> r.pk, at |-> 1, conv |-> c]
  BY <1>2
<1>. QED
  BY <1>1, <1>3 DEF Fields, Busy

(* What an insert starts from names its span, whatever its flags.          *)
LEMMA NewRow ==
  ASSUME NEW n, NEW s, NEW c, NEW no, NEW q,
         n = [span |-> None, conv |-> None, start |-> no, end |-> no, duration |-> no],
         q = [n EXCEPT !.span = s, !.conv = c]
  PROVE  q.span = s /\ "span" \in DOMAIN q
<1>1. q = [span |-> s, conv |-> c, start |-> no, end |-> no, duration |-> no]
  OBVIOUS
<1>. QED
  BY <1>1

(* A step of call w leaves the others alone.                               *)
LEMMA OneJob ==
  ASSUME Shapes, Jobs, NEW w \in Worker,
         \A v \in Worker : v # w => job'[v] = job[v] /\ pc'[v] = pc[v],
         Fields(job'[w]), pc'[w] # "idle" => Busy(job'[w])
  PROVE  Jobs'
<1>1. ASSUME NEW v \in Worker
      PROVE  JobOK(v)'
  <2>1. CASE v = w
    BY <2>1 DEF JobOK
  <2>2. CASE v # w
    BY <2>2 DEF JobOK, Jobs
  <2>. QED
    BY <2>1, <2>2
<1>. QED
  BY <1>1 DEF Jobs

LEMMA NextOwned ==
  ASSUME Owned, [Next]_vars
  PROVE  Owned'
<1>. USE Plain, ParentType DEF Owned
<1>1. ASSUME NEW w \in Worker, NEW s \in Span, Upsert(w, s)
      PROVE  Owned'
  <2>1. Shapes'
    BY <1>1 DEF Shapes, Upsert, Goto, NoJob
  <2>2. Jobs'
    <3>1. /\ \A v \in Worker : v # w => job'[v] = job[v] /\ pc'[v] = pc[v]
          /\ job'[w] = [span |-> s, pk |-> pk'[s], at |-> 1, conv |-> None]
      BY <1>1 DEF Upsert, Goto, NoJob, Shapes
    <3>2. pk'[s] \in Nat \ {0}
      BY <1>1 DEF Upsert, Shapes
    <3>3. Fields(job'[w]) /\ Busy(job'[w])
      BY <3>1, <3>2 DEF Fields, Busy
    <3>. QED
      BY <3>1, <3>3, OneJob
  <2>3. HookSpans'
    BY <1>1 DEF Shapes, Jobs, JobOK, Busy, HookSpans, Upsert, Goto, NoJob
  <2>4. SpanRows'
    BY <1>1 DEF Shapes, Jobs, JobOK, Busy, SpanRows, Upsert, Goto, NoJob
  <2>. QED
    BY <2>1, <2>2, <2>3, <2>4
<1>2. ASSUME NEW w \in Worker, ClearEvents(w)
      PROVE  Owned'
  <2>1. Shapes'
    BY <1>2 DEF Shapes, ClearEvents, Goto, Living
  <2>2. Jobs'
    BY <1>2 DEF Shapes, Jobs, JobOK, ClearEvents, Goto
  <2>3. HookSpans'
    BY <1>2 DEF Shapes, Jobs, JobOK, Busy, HookSpans, ClearEvents, Goto, Living
  <2>4. SpanRows'
    BY <1>2 DEF Shapes, Jobs, JobOK, Busy, SpanRows, ClearEvents, Goto, Living
  <2>. QED
    BY <2>1, <2>2, <2>3, <2>4
<1>3. ASSUME NEW w \in Worker, InsertEvent(w)
      PROVE  Owned'
  <2>1. Shapes'
    BY <1>3 DEF Shapes, InsertEvent, Living
  <2>2. Jobs'
    <3>1. Fields(job[w]) /\ Busy(job[w])
      BY <1>3 DEF Jobs, JobOK, InsertEvent
    <3>2. /\ \A v \in Worker : v # w => job'[v] = job[v] /\ pc'[v] = pc[v]
          /\ job'[w] = [job[w] EXCEPT !.at = job[w].at + 1]
      BY <1>3 DEF InsertEvent, Shapes
    <3>3. Fields(job'[w]) /\ Busy(job'[w])
      BY <3>1, <3>2, Advanced
    <3>. QED
      BY <3>2, <3>3, OneJob
  <2>3. HookSpans'
    BY <1>3 DEF Shapes, Jobs, JobOK, Busy, HookSpans, InsertEvent, Living
  <2>4. SpanRows'
    BY <1>3 DEF Shapes, Jobs, JobOK, Busy, SpanRows, InsertEvent, Living
  <2>. QED
    BY <2>1, <2>2, <2>3, <2>4
<1>4. ASSUME NEW w \in Worker, EnsurePlaceholder(w)
      PROVE  Owned'
  <2>1. Shapes'
    <3>. DEFINE s == job[w].span
    <3>1. s \in Span /\ lastPk \in Nat
      BY <1>4 DEF Shapes, Jobs, JobOK, Busy, EnsurePlaceholder
    <3>2. CASE Parent(s) # None /\ pk[Parent(s)] = 0
      <4>. DEFINE p == Parent(s)
                  n == lastPk + 1
      <4>1. lastPk' = n /\ pk' = [pk EXCEPT ![p] = n]
        BY <1>4, <3>2 DEF EnsurePlaceholder
      <4>2. n \in Nat /\ n # 0
        BY <3>1
      <4>. HIDE DEF p, n
      <4>3. pk' = [t \in Span |-> IF t = p THEN n ELSE pk[t]]
        BY <4>1 DEF Shapes
      <4>4. /\ pk' \in [Span -> Nat] /\ lastPk' \in Nat
            /\ \A t \in Span : pk[t] # 0 => pk'[t] # 0
        <5>1. pk \in [Span -> Nat]
          BY DEF Shapes
        <5>2. \A t \in Span : pk'[t] \in Nat
          BY <4>2, <4>3, <5>1
        <5>3. pk' \in [Span -> Nat]
          BY <4>3, <5>2
        <5>4. \A t \in Span : pk[t] # 0 => pk'[t] # 0
          BY <4>2, <4>3
        <5>. QED
          BY <4>1, <4>2, <5>3, <5>4
      <4>. QED
        BY <1>4, <4>4 DEF Shapes, EnsurePlaceholder, Goto
    <3>3. CASE ~ (Parent(s) # None /\ pk[Parent(s)] = 0)
      BY <1>4, <3>3 DEF Shapes, EnsurePlaceholder, Goto
    <3>. QED
      BY <3>2, <3>3
  <2>2. Jobs'
    BY <1>4 DEF Shapes, Jobs, JobOK, EnsurePlaceholder, Goto
  <2>3. HookSpans'
    BY <1>4 DEF Shapes, Jobs, JobOK, Busy, HookSpans, EnsurePlaceholder, Goto
  <2>4. SpanRows'
    BY <1>4 DEF Shapes, Jobs, JobOK, Busy, SpanRows, EnsurePlaceholder, Goto
  <2>. QED
    BY <2>1, <2>2, <2>3, <2>4
<1>5. ASSUME NEW w \in Worker, Project(w)
      PROVE  Owned'
  <2>1. Shapes'
    BY <1>5 DEF Shapes, Project, Goto, Living
  <2>2. Jobs'
    BY <1>5 DEF Shapes, Jobs, JobOK, Project, Goto
  <2>3. HookSpans'
    BY <1>5 DEF Shapes, Jobs, JobOK, Busy, HookSpans, Project, Goto, Living
  <2>4. SpanRows'
    BY <1>5 DEF Shapes, Jobs, JobOK, Busy, SpanRows, Project, Goto, Living
  <2>. QED
    BY <2>1, <2>2, <2>3, <2>4
<1>6. ASSUME NEW w \in Worker, Resolve(w)
      PROVE  Owned'
  <2>1. Shapes'
    BY <1>6 DEF Shapes, Resolve, Goto, Refile
  <2>2. Jobs'
    <3>1. Fields(job[w]) /\ Busy(job[w])
      BY <1>6 DEF Jobs, JobOK, Resolve
    <3>. DEFINE c == IF Living(w) THEN Nearest(job[w].span) ELSE None
    <3>2. /\ \A v \in Worker : v # w => job'[v] = job[v] /\ pc'[v] = pc[v]
          /\ job'[w] = [job[w] EXCEPT !.conv = c, !.at = 1]
      BY <1>6 DEF Resolve, Goto, Shapes
    <3>. HIDE DEF c
    <3>3. Fields(job'[w]) /\ Busy(job'[w])
      BY <3>1, <3>2, Found
    <3>. QED
      BY <3>2, <3>3, OneJob
  <2>3. HookSpans'
    BY <1>6 DEF Shapes, Jobs, JobOK, Busy, HookSpans, Resolve, Goto, Refile
  <2>4. SpanRows'
    BY <1>6 DEF Shapes, Jobs, JobOK, Busy, SpanRows, Resolve, Goto, Refile
  <2>. QED
    BY <2>1, <2>2, <2>3, <2>4
<1>7. ASSUME NEW w \in Worker, UpsertSession(w)
      PROVE  Owned'
  <2>1. Shapes'
    BY <1>7 DEF Shapes, UpsertSession, Goto
  <2>2. Jobs'
    BY <1>7 DEF Shapes, Jobs, JobOK, UpsertSession, Goto
  <2>3. HookSpans'
    BY <1>7 DEF Shapes, Jobs, JobOK, Busy, HookSpans, UpsertSession, Goto
  <2>4. SpanRows'
    BY <1>7 DEF Shapes, Jobs, JobOK, Busy, SpanRows, UpsertSession, Goto
  <2>. QED
    BY <2>1, <2>2, <2>3, <2>4
<1>8. ASSUME NEW w \in Worker, RecountSession(w)
      PROVE  Owned'
  <2>1. Shapes'
    BY <1>8 DEF Shapes, RecountSession, Goto
  <2>2. Jobs'
    BY <1>8 DEF Shapes, Jobs, JobOK, RecountSession, Goto
  <2>3. HookSpans'
    BY <1>8 DEF Shapes, Jobs, JobOK, Busy, HookSpans, RecountSession, Goto
  <2>4. SpanRows'
    BY <1>8, Zenon DEF Shapes, Jobs, JobOK, Busy, SpanRows, RecountSession, Goto
  <2>. QED
    BY <2>1, <2>2, <2>3, <2>4
<1>9. ASSUME NEW w \in Worker, DeriveHook(w)
      PROVE  Owned'
  <2>1. Shapes'
    BY <1>9 DEF Shapes, DeriveHook, HookRow, HookStart, HookEnd, NoHook, Living
  <2>2. Jobs'
    <3>1. Fields(job[w]) /\ Busy(job[w])
      BY <1>9 DEF Jobs, JobOK, DeriveHook
    <3>2. /\ \A v \in Worker : v # w => job'[v] = job[v] /\ pc'[v] = pc[v]
          /\ job'[w] = [job[w] EXCEPT !.at = job[w].at + 1]
      BY <1>9 DEF DeriveHook, Shapes
    <3>3. Fields(job'[w]) /\ Busy(job'[w])
      BY <3>1, <3>2, Advanced
    <3>. QED
      BY <3>2, <3>3, OneJob
  <2>3. HookSpans'
    <3>. DEFINE s == job[w].span
                g == Events[s][job[w].at][2]
                c == job[w].conv
                row == HookRow(g, s, c)
    <3>1. s \in Span /\ job[w].pk # 0
      BY <1>9 DEF Jobs, JobOK, Busy, DeriveHook
    <3>2. hook[g] = NoRow => pk[s] # 0
      BY <1>9, <3>1 DEF DeriveHook, Living
    <3>3. g \in Hook => row.span = (IF hook[g] = NoRow THEN s ELSE hook[g].span)
                       /\ "span" \in DOMAIN row
      <4>. DEFINE no == FALSE
      <4>1. NoHook = [span |-> None, conv |-> None, start |-> no, end |-> no, duration |-> no]
        BY DEF NoHook
      <4>2. g \in Hook /\ hook[g] # NoRow => "span" \in DOMAIN hook[g]
        BY DEF HookSpans
      <4>. HIDE DEF no, s, c, g
      <4>3. hook[g] = NoRow => row = [NoHook EXCEPT !.span = s, !.conv = c]
        BY DEF HookRow
      <4>4. hook[g] # NoRow => row = hook[g]
        BY DEF HookRow
      <4>. HIDE DEF row
      <4>. QED
        BY <4>1, <4>2, <4>3, <4>4, NewRow
    <3>. DEFINE new == IF Events[s][job[w].at][1] = "start" THEN HookStart(row, s, c)
                                                            ELSE HookEnd(row, s, c)
    <3>4. g \in Hook => new.span = row.span /\ "span" \in DOMAIN new
      BY <3>3 DEF HookStart, HookEnd
    <3>5. hook' = [hook EXCEPT ![g] = new] /\ pk' = pk
      BY <1>9 DEF DeriveHook
    <3>. HIDE DEF new, row, c
    <3>6. ASSUME NEW h \in Hook, hook'[h] # NoRow
          PROVE  "span" \in DOMAIN hook'[h] /\ hook'[h].span \in Span /\ pk'[hook'[h].span] # 0
      <4>1. CASE h = g
        <5>1. hook'[h] = new
          BY <3>5, <4>1 DEF Shapes
        <5>2. new.span \in Span /\ pk[new.span] # 0
          BY <3>1, <3>2, <3>3, <3>4, <4>1 DEF HookSpans
        <5>. QED
          BY <3>4, <3>5, <3>6, <4>1, <5>1, <5>2
      <4>2. CASE h # g
        BY <3>5, <3>6, <4>2 DEF Shapes, HookSpans
      <4>. QED
        BY <4>1, <4>2
    <3>. QED
      BY <3>6 DEF HookSpans
  <2>4. SpanRows'
    BY <1>9 DEF Shapes, Jobs, JobOK, Busy, SpanRows, DeriveHook, Living
  <2>. QED
    BY <2>1, <2>2, <2>3, <2>4
<1>10. ASSUME NEW w \in Worker, DeriveOther(w)
      PROVE  Owned'
  <2>1. Shapes'
    BY <1>10 DEF Shapes, DeriveOther, Living
  <2>2. Jobs'
    <3>1. Fields(job[w]) /\ Busy(job[w])
      BY <1>10 DEF Jobs, JobOK, DeriveOther
    <3>2. /\ \A v \in Worker : v # w => job'[v] = job[v] /\ pc'[v] = pc[v]
          /\ job'[w] = [job[w] EXCEPT !.at = job[w].at + 1]
      BY <1>10 DEF DeriveOther, Shapes
    <3>3. Fields(job'[w]) /\ Busy(job'[w])
      BY <3>1, <3>2, Advanced
    <3>. QED
      BY <3>2, <3>3, OneJob
  <2>3. HookSpans'
    BY <1>10 DEF Shapes, Jobs, JobOK, Busy, HookSpans, DeriveOther, Living
  <2>4. SpanRows'
    BY <1>10 DEF Shapes, Jobs, JobOK, Busy, SpanRows, DeriveOther, Living
  <2>. QED
    BY <2>1, <2>2, <2>3, <2>4
<1>11. ASSUME NEW w \in Worker, Finish(w)
      PROVE  Owned'
  <2>1. Shapes'
    BY <1>11 DEF Shapes, Finish, Goto, Refile, NoJob
  <2>2. Jobs'
    <3>1. /\ \A v \in Worker : v # w => job'[v] = job[v] /\ pc'[v] = pc[v]
          /\ job'[w] = NoJob /\ pc'[w] = "idle"
      BY <1>11 DEF Finish, Goto, Shapes
    <3>2. Fields(NoJob)
      BY DEF Fields, NoJob
    <3>. QED
      BY <3>1, <3>2, OneJob
  <2>3. HookSpans'
    BY <1>11 DEF Shapes, Jobs, JobOK, Busy, HookSpans, Finish, Goto, Refile, NoJob
  <2>4. SpanRows'
    BY <1>11 DEF Shapes, Jobs, JobOK, Busy, SpanRows, Finish, Goto, Refile, NoJob
  <2>. QED
    BY <2>1, <2>2, <2>3, <2>4
<1>12. ASSUME NEW w \in Worker, Fail(w)
      PROVE  Owned'
  <2>1. Shapes'
    BY <1>12 DEF Shapes, Fail, Goto, NoJob, rows
  <2>2. Jobs'
    <3>1. /\ \A v \in Worker : v # w => job'[v] = job[v] /\ pc'[v] = pc[v]
          /\ job'[w] = NoJob /\ pc'[w] = "idle"
      BY <1>12 DEF Fail, Goto, Shapes
    <3>2. Fields(NoJob)
      BY DEF Fields, NoJob
    <3>. QED
      BY <3>1, <3>2, OneJob
  <2>3. HookSpans'
    BY <1>12 DEF Shapes, Jobs, JobOK, Busy, HookSpans, Fail, Goto, NoJob, rows
  <2>4. SpanRows'
    BY <1>12 DEF Shapes, Jobs, JobOK, Busy, SpanRows, Fail, Goto, NoJob, rows
  <2>. QED
    BY <2>1, <2>2, <2>3, <2>4
<1>13. ASSUME NEW d \in Deleter, NEW c \in Conversation, CheckExists(d, c)
      PROVE  Owned'
  BY <1>13 DEF CheckExists, rows, Shapes, Jobs, JobOK, HookSpans, SpanRows
<1>14. ASSUME NEW d \in Deleter, CollectTraces(d)
      PROVE  Owned'
  BY <1>14 DEF CollectTraces, rows, Shapes, Jobs, JobOK, HookSpans, SpanRows
<1>15. ASSUME NEW d \in Deleter, Purge(d)
      PROVE  Owned'
  <2>1. Shapes'
    BY <1>15 DEF Shapes, Purge
  <2>2. Jobs'
    BY <1>15 DEF Shapes, Jobs, JobOK, Purge
  <2>3. HookSpans'
    BY <1>15 DEF Shapes, HookSpans, Purge
  <2>4. SpanRows'
    BY <1>15 DEF Shapes, SpanRows, Purge
  <2>. QED
    BY <2>1, <2>2, <2>3, <2>4
<1>16. CASE UNCHANGED vars
  BY <1>16 DEF vars, rows, Shapes, Jobs, JobOK, HookSpans, SpanRows
<1>. QED
  BY <1>1, <1>2, <1>3, <1>4, <1>5, <1>6, <1>7, <1>8, <1>9, <1>10,
     <1>11, <1>12, <1>13, <1>14, <1>15, <1>16 DEF Next, Step

-----------------------------------------------------------------------------
(***************************************************************************)
(* The events of a span.  Only a call on the span itself writes them, and  *)
(* a span that never had two calls at once nor one that failed has at most *)
(* one; so the events are complete, or the one call has written as many as *)
(* its place in the list says.                                             *)
(***************************************************************************)
FirstEvents(n) == [i \in 1 .. n |-> i]

Total(s) == Len(Events[s])

Written(w) ==
  LET s == job[w].span IN
  /\ pk[s] = job[w].pk
  /\ pc[w] = "event" => job[w].at <= Total(s) + 1 /\ eventRows[s] = FirstEvents(job[w].at - 1)
  /\ pc[w] \notin {"clear", "event"} => eventRows[s] = FirstEvents(Total(s))

Steps == \A w \in Worker :
  /\ pc[w] = "idle" => job[w].span = None
  /\ pc[w] = "clear" => job[w].at = 1

Alone == \A v \in Worker, w \in Worker :
  job[v].span \in Span \ shared /\ job[v].span = job[w].span => v = w

Filled ==
  \A s \in real \ shared :
    /\ \A w \in Worker : job[w].span = s => Written(w)
    /\ (\A w \in Worker : job[w].span # s) => eventRows[s] = FirstEvents(Total(s))

Exact == Owned /\ Steps /\ Alone /\ Filled

LEMMA InitExact == Init => Exact
BY InitOwned, StoreAssumption DEF Init, Exact, Steps, Alone, Filled, NoJob

LEMMA FirstAppend ==
  ASSUME NEW n \in Nat \ {0}
  PROVE  Append(FirstEvents(n - 1), n) = FirstEvents(n)
<1>1. FirstEvents(n - 1) \in Seq(Nat) /\ Len(FirstEvents(n - 1)) = n - 1
  BY IsASeq DEF FirstEvents
<1>. QED
  BY <1>1 DEF FirstEvents

LEMMA LastOne ==
  ASSUME NEW a \in Nat, NEW t \in Nat, a > t, a <= t + 1
  PROVE  a - 1 = t
OBVIOUS

(* A step of a call past its events.                                       *)
LEMMA Onward ==
  ASSUME Exact, NEW w \in Worker,
         UNCHANGED <<real, shared, eventRows>>, \A s \in real : pk'[s] = pk[s],
         \A v \in Worker : job'[v].span = job[v].span /\ job'[v].pk = job[v].pk,
         \A v \in Worker : v # w => pc'[v] = pc[v] /\ job'[v] = job[v],
         pc[w] # "idle", pc'[w] \notin {"idle", "clear", "event"},
         job[w].span \in real \ shared => eventRows[job[w].span] = FirstEvents(Total(job[w].span))
  PROVE  Steps' /\ Alone' /\ Filled'
<1>1. Steps'
  BY DEF Exact, Steps
<1>2. Alone'
  BY DEF Exact, Alone
<1>3. ASSUME NEW s \in real \ shared, NEW v \in Worker, job[v].span = s
      PROVE  Written(v)'
  <2>1. Written(v)
    BY <1>3 DEF Exact, Filled
  <2>2. CASE v = w
    BY <1>3, <2>1, <2>2 DEF Written
  <2>3. CASE v # w
    BY <1>3, <2>1, <2>3 DEF Written
  <2>. QED
    BY <2>2, <2>3
<1>4. Filled'
  BY <1>3 DEF Exact, Filled
<1>. QED
  BY <1>1, <1>2, <1>4

LEMMA NextExact ==
  ASSUME Exact, [Next]_vars
  PROVE  Exact'
<1>. DEFINE Goal == Steps /\ Alone /\ Filled
<1>. USE Plain, ParentType DEF Exact, Owned
<1>1. ASSUME NEW w \in Worker, NEW s \in Span, Upsert(w, s)
      PROVE  Goal'
  <2>1. /\ \A v \in Worker : v # w => job'[v] = job[v] /\ pc'[v] = pc[v]
        /\ job'[w].span = s /\ job'[w].pk = pk'[s] /\ job'[w].at = 1 /\ pc'[w] = "clear"
    BY <1>1 DEF Upsert, Goto, NoJob, Shapes
  <2>2. job[w].span = None
    BY <1>1 DEF Upsert, Steps
  <2>3. s \notin shared' => \A v \in Worker : job[v].span # s
    BY <1>1 DEF Upsert
  <2>4. shared \subseteq shared' /\ real' = real \cup {s} /\ eventRows' = eventRows
    BY <1>1 DEF Upsert
  <2>5. \A t \in Span : t # s => pk'[t] = pk[t]
    BY <1>1 DEF Upsert, Shapes
  <2>6. Steps'
    BY <2>1 DEF Steps
  <2>7. ASSUME NEW u \in Worker, NEW v \in Worker,
               job'[u].span \in Span \ shared', job'[u].span = job'[v].span
        PROVE  u = v
    <3>1. CASE u = w \/ v = w
      <4>1. s \notin shared' /\ \A x \in Worker : job[x].span # s
        BY <2>1, <2>3, <2>7, <3>1
      <4>. QED
        BY <2>1, <2>7, <3>1, <4>1
    <3>2. CASE u # w /\ v # w
      <4>1. job'[u] = job[u] /\ job'[v] = job[v] /\ job[u].span \in Span \ shared
        BY <2>1, <2>4, <2>7, <3>2
      <4>. QED
        BY <2>7, <4>1 DEF Alone
    <3>. QED
      BY <3>1, <3>2
  <2>8. ASSUME NEW t \in real' \ shared', NEW v \in Worker, job'[v].span = t
        PROVE  Written(v)'
    <3>1. CASE t = s
      <4>1. v = w
        BY <2>1, <2>3, <2>8, <3>1
      <4>. QED
        BY <2>1, <4>1 DEF Written
    <3>2. CASE t # s
      <4>1. v # w /\ t \in real \ shared /\ t \in Span
        BY <2>1, <2>4, <2>8, <3>2 DEF Shapes
      <4>2. Written(v)
        BY <2>1, <2>8, <4>1 DEF Filled
      <4>. QED
        BY <2>1, <2>4, <2>5, <2>8, <3>2, <4>1, <4>2 DEF Written
    <3>. QED
      BY <3>1, <3>2
  <2>9. ASSUME NEW t \in real' \ shared', \A v \in Worker : job'[v].span # t
        PROVE  eventRows'[t] = FirstEvents(Total(t))
    <3>1. t # s /\ t \in real \ shared
      BY <2>1, <2>4, <2>9
    <3>2. \A v \in Worker : job[v].span # t
      BY <2>1, <2>2, <2>9, <3>1 DEF Shapes
    <3>. QED
      BY <2>4, <3>1, <3>2 DEF Filled
  <2>. QED
    BY <2>6, <2>7, <2>8, <2>9 DEF Alone, Filled
<1>2. ASSUME NEW w \in Worker, ClearEvents(w)
      PROVE  Goal'
  <2>. DEFINE s == job[w].span
  <2>1. Fields(job[w]) /\ s \in Span
    BY <1>2 DEF Jobs, JobOK, Busy, ClearEvents
  <2>2. /\ UNCHANGED <<pk, real, shared>> /\ pc'[w] = "event" /\ pc[w] # "idle"
        /\ \A v \in Worker : v # w => job'[v] = job[v] /\ pc'[v] = pc[v]
        /\ job'[w].span = s /\ job'[w].pk = job[w].pk
        /\ \A t \in Span : t # s => eventRows'[t] = eventRows[t]
    BY <1>2, <2>1 DEF ClearEvents, Goto, Shapes, Fields
  <2>3. Steps' /\ Alone'
    <3>1. \A v \in Worker : job'[v].span = job[v].span
      BY <2>2
    <3>. QED
      BY <2>2, <3>1 DEF Steps, Alone
  <2>4. s \in real \ shared => Written(w)'
    <3>. SUFFICES ASSUME s \in real \ shared
                  PROVE  Written(w)'
      OBVIOUS
    <3>0. s \in Span
      BY <2>1
    <3>1. Written(w)
      BY DEF Filled
    <3>2. eventRows'[s] = FirstEvents(job'[w].at - 1) /\ job'[w].at = 1
      <4>1. eventRows'[s] = <<>> /\ job'[w].at = 1
        BY <1>2, <3>0, <3>1 DEF ClearEvents, Living, Written, Steps, Shapes
      <4>. QED
        BY <4>1 DEF FirstEvents
    <3>3. Total(s) + 1 >= job'[w].at
      BY <3>0, <3>2 DEF Total
    <3>. QED
      BY <2>2, <3>1, <3>2, <3>3 DEF Written
  <2>5. ASSUME NEW t \in real \ shared, t # s
        PROVE  /\ \A v \in Worker : job'[v].span = t => Written(v)'
               /\ (\A v \in Worker : job'[v].span # t) => eventRows'[t] = FirstEvents(Total(t))
    <3>1. eventRows'[t] = eventRows[t] /\ pk'[t] = pk[t]
      BY <2>2, <2>5 DEF Shapes
    <3>2. ASSUME NEW v \in Worker, job'[v].span = t
          PROVE  Written(v)'
      <4>1. v # w /\ job'[v] = job[v] /\ pc'[v] = pc[v]
        BY <2>2, <2>5, <3>2
      <4>. QED
        BY <3>1, <3>2, <4>1 DEF Filled, Written
    <3>3. (\A v \in Worker : job'[v].span # t) => \A v \in Worker : job[v].span # t
      BY <2>2, <2>5
    <3>. QED
      BY <3>1, <3>2, <3>3 DEF Filled
  <2>6. ASSUME NEW v \in Worker, job'[v].span = s, s \in real \ shared
        PROVE  v = w
    BY <2>1, <2>2, <2>6 DEF Alone
  <2>. QED
    BY <2>2, <2>3, <2>4, <2>5, <2>6 DEF Filled
<1>3. ASSUME NEW w \in Worker, InsertEvent(w)
      PROVE  Goal'
  <2>. DEFINE s == job[w].span
  <2>1. Fields(job[w]) /\ s \in Span
    BY <1>3 DEF Jobs, JobOK, Busy, InsertEvent
  <2>2. /\ UNCHANGED <<pk, real, shared>> /\ pc'[w] = "event" /\ pc[w] # "idle"
        /\ \A v \in Worker : v # w => job'[v] = job[v] /\ pc'[v] = pc[v]
        /\ job'[w].span = s /\ job'[w].pk = job[w].pk
        /\ \A t \in Span : t # s => eventRows'[t] = eventRows[t]
    BY <1>3, <2>1 DEF InsertEvent, Goto, Shapes, Fields
  <2>3. Steps' /\ Alone'
    <3>1. \A v \in Worker : job'[v].span = job[v].span
      BY <2>2
    <3>. QED
      BY <2>2, <3>1 DEF Steps, Alone
  <2>4. s \in real \ shared => Written(w)'
    <3>. SUFFICES ASSUME s \in real \ shared
                  PROVE  Written(w)'
      OBVIOUS
    <3>0. s \in Span
      BY <2>1
    <3>1. Written(w)
      BY DEF Filled
    <3>2. eventRows'[s] = FirstEvents(job'[w].at - 1)
      <4>1. eventRows[s] = FirstEvents(job[w].at - 1) /\ job'[w].at = job[w].at + 1
        BY <1>3, <2>1, <3>0, <3>1 DEF InsertEvent, Written, Shapes, Fields
      <4>2. eventRows'[s] = Append(eventRows[s], job[w].at)
        BY <1>3, <3>0 DEF InsertEvent, Shapes
      <4>3. job[w].at \in Nat \ {0} /\ job'[w].at - 1 = job[w].at
        BY <2>1, <4>1 DEF Fields
      <4>. QED
        BY <4>1, <4>2, <4>3, FirstAppend
    <3>3. Total(s) + 1 >= job'[w].at
      BY <1>3, <2>1, <2>2, <3>0 DEF InsertEvent, Total, Fields
    <3>. QED
      BY <2>2, <3>1, <3>2, <3>3 DEF Written
  <2>5. ASSUME NEW t \in real \ shared, t # s
        PROVE  /\ \A v \in Worker : job'[v].span = t => Written(v)'
               /\ (\A v \in Worker : job'[v].span # t) => eventRows'[t] = FirstEvents(Total(t))
    <3>1. eventRows'[t] = eventRows[t] /\ pk'[t] = pk[t]
      BY <2>2, <2>5 DEF Shapes
    <3>2. ASSUME NEW v \in Worker, job'[v].span = t
          PROVE  Written(v)'
      <4>1. v # w /\ job'[v] = job[v] /\ pc'[v] = pc[v]
        BY <2>2, <2>5, <3>2
      <4>. QED
        BY <3>1, <3>2, <4>1 DEF Filled, Written
    <3>3. (\A v \in Worker : job'[v].span # t) => \A v \in Worker : job[v].span # t
      BY <2>2, <2>5
    <3>. QED
      BY <3>1, <3>2, <3>3 DEF Filled
  <2>6. ASSUME NEW v \in Worker, job'[v].span = s, s \in real \ shared
        PROVE  v = w
    BY <2>1, <2>2, <2>6 DEF Alone
  <2>. QED
    BY <2>2, <2>3, <2>4, <2>5, <2>6 DEF Filled
<1>4. ASSUME NEW w \in Worker, EnsurePlaceholder(w)
      PROVE  Goal'
  <2>1. UNCHANGED <<real, shared, eventRows>> /\ \A s \in real : pk'[s] = pk[s]
    BY <1>4 DEF EnsurePlaceholder, Shapes
  <2>2. \A v \in Worker : v # w => pc'[v] = pc[v] /\ job'[v] = job[v]
    BY <1>4 DEF EnsurePlaceholder, Goto, Shapes
  <2>3. pc[w] \notin {"idle", "clear"} /\ pc'[w] \notin {"idle", "clear", "event"}
    BY <1>4 DEF EnsurePlaceholder, Goto, Shapes
  <2>4. job'[w].span = job[w].span /\ job'[w].pk = job[w].pk
    BY <1>4 DEF EnsurePlaceholder, Shapes, Jobs, JobOK, Fields
  <2>5. job[w].span \in real \ shared => eventRows[job[w].span] = FirstEvents(Total(job[w].span))
    <3>1. Fields(job[w]) /\ job[w].span \in Span
      BY <1>4 DEF Jobs, JobOK, Busy, EnsurePlaceholder
    <3>2. Total(job[w].span) \in Nat /\ job[w].at \in Nat
      BY <3>1 DEF Total, Fields
    <3>3. job[w].at > Total(job[w].span)
      BY <1>4 DEF EnsurePlaceholder, Total
    <3>4. ASSUME job[w].span \in real \ shared
          PROVE  job[w].at <= Total(job[w].span) + 1
                 /\ eventRows[job[w].span] = FirstEvents(job[w].at - 1)
      BY <1>4, <3>4 DEF EnsurePlaceholder, Filled, Written
    <3>5. job[w].span \in real \ shared => job[w].at - 1 = Total(job[w].span)
      <4>. SUFFICES ASSUME job[w].span \in real \ shared
                    PROVE  job[w].at - 1 = Total(job[w].span)
        OBVIOUS
      <4>1. job[w].at <= Total(job[w].span) + 1
        BY <3>4
      <4>. QED
        BY <3>2, <3>3, <4>1, LastOne
    <3>. QED
      BY <3>4, <3>5
  <2>. QED
    BY <2>1, <2>2, <2>3, <2>4, <2>5, Onward DEF Exact
<1>5. ASSUME NEW w \in Worker, Project(w)
      PROVE  Goal'
  <2>1. UNCHANGED <<real, shared, eventRows>> /\ \A s \in real : pk'[s] = pk[s]
    BY <1>5 DEF Project, Shapes
  <2>2. \A v \in Worker : v # w => pc'[v] = pc[v] /\ job'[v] = job[v]
    BY <1>5 DEF Project, Goto, Shapes
  <2>3. pc[w] \notin {"idle", "clear"} /\ pc'[w] \notin {"idle", "clear", "event"}
    BY <1>5 DEF Project, Goto, Shapes
  <2>4. job'[w].span = job[w].span /\ job'[w].pk = job[w].pk
    BY <1>5 DEF Project, Shapes, Jobs, JobOK, Fields
  <2>5. job[w].span \in real \ shared => eventRows[job[w].span] = FirstEvents(Total(job[w].span))
    BY <1>5, <2>3 DEF Project, Filled, Written
  <2>. QED
    BY <2>1, <2>2, <2>3, <2>4, <2>5, Onward DEF Exact
<1>6. ASSUME NEW w \in Worker, Resolve(w)
      PROVE  Goal'
  <2>1. UNCHANGED <<real, shared, eventRows>> /\ \A s \in real : pk'[s] = pk[s]
    BY <1>6 DEF Resolve, Shapes
  <2>2. \A v \in Worker : v # w => pc'[v] = pc[v] /\ job'[v] = job[v]
    BY <1>6 DEF Resolve, Goto, Shapes
  <2>3. pc[w] \notin {"idle", "clear"} /\ pc'[w] \notin {"idle", "clear", "event"}
    BY <1>6 DEF Resolve, Goto, Shapes
  <2>4. job'[w].span = job[w].span /\ job'[w].pk = job[w].pk
    BY <1>6 DEF Resolve, Shapes, Jobs, JobOK, Fields
  <2>5. job[w].span \in real \ shared => eventRows[job[w].span] = FirstEvents(Total(job[w].span))
    BY <1>6, <2>3 DEF Resolve, Filled, Written
  <2>. QED
    BY <2>1, <2>2, <2>3, <2>4, <2>5, Onward DEF Exact
<1>7. ASSUME NEW w \in Worker, UpsertSession(w)
      PROVE  Goal'
  <2>1. UNCHANGED <<real, shared, eventRows>> /\ \A s \in real : pk'[s] = pk[s]
    BY <1>7 DEF UpsertSession, Shapes
  <2>2. \A v \in Worker : v # w => pc'[v] = pc[v] /\ job'[v] = job[v]
    BY <1>7 DEF UpsertSession, Goto, Shapes
  <2>3. pc[w] \notin {"idle", "clear"} /\ pc'[w] \notin {"idle", "clear", "event"}
    BY <1>7 DEF UpsertSession, Goto, Shapes
  <2>4. job'[w].span = job[w].span /\ job'[w].pk = job[w].pk
    BY <1>7 DEF UpsertSession, Shapes, Jobs, JobOK, Fields
  <2>5. job[w].span \in real \ shared => eventRows[job[w].span] = FirstEvents(Total(job[w].span))
    BY <1>7, <2>3 DEF UpsertSession, Filled, Written
  <2>. QED
    BY <2>1, <2>2, <2>3, <2>4, <2>5, Onward DEF Exact
<1>8. ASSUME NEW w \in Worker, RecountSession(w)
      PROVE  Goal'
  <2>1. UNCHANGED <<real, shared, eventRows>> /\ \A s \in real : pk'[s] = pk[s]
    BY <1>8 DEF RecountSession, Shapes
  <2>2. \A v \in Worker : v # w => pc'[v] = pc[v] /\ job'[v] = job[v]
    BY <1>8 DEF RecountSession, Goto, Shapes
  <2>3. pc[w] \notin {"idle", "clear"} /\ pc'[w] \notin {"idle", "clear", "event"}
    BY <1>8 DEF RecountSession, Goto, Shapes
  <2>4. job'[w].span = job[w].span /\ job'[w].pk = job[w].pk
    BY <1>8 DEF RecountSession, Shapes, Jobs, JobOK, Fields
  <2>5. job[w].span \in real \ shared => eventRows[job[w].span] = FirstEvents(Total(job[w].span))
    BY <1>8, <2>3 DEF RecountSession, Filled, Written
  <2>. QED
    BY <2>1, <2>2, <2>3, <2>4, <2>5, Onward DEF Exact
<1>9. ASSUME NEW w \in Worker, DeriveHook(w)
      PROVE  Goal'
  <2>1. UNCHANGED <<real, shared, eventRows>> /\ \A s \in real : pk'[s] = pk[s]
    BY <1>9 DEF DeriveHook, Shapes
  <2>2. \A v \in Worker : v # w => pc'[v] = pc[v] /\ job'[v] = job[v]
    BY <1>9 DEF DeriveHook, Goto, Shapes
  <2>3. pc[w] \notin {"idle", "clear"} /\ pc'[w] \notin {"idle", "clear", "event"}
    BY <1>9 DEF DeriveHook, Goto, Shapes
  <2>4. job'[w].span = job[w].span /\ job'[w].pk = job[w].pk
    BY <1>9 DEF DeriveHook, Shapes, Jobs, JobOK, Fields
  <2>5. job[w].span \in real \ shared => eventRows[job[w].span] = FirstEvents(Total(job[w].span))
    BY <1>9, <2>3 DEF DeriveHook, Filled, Written
  <2>. QED
    BY <2>1, <2>2, <2>3, <2>4, <2>5, Onward DEF Exact
<1>10. ASSUME NEW w \in Worker, DeriveOther(w)
      PROVE  Goal'
  <2>1. UNCHANGED <<real, shared, eventRows>> /\ \A s \in real : pk'[s] = pk[s]
    BY <1>10 DEF DeriveOther, Shapes
  <2>2. \A v \in Worker : v # w => pc'[v] = pc[v] /\ job'[v] = job[v]
    BY <1>10 DEF DeriveOther, Goto, Shapes
  <2>3. pc[w] \notin {"idle", "clear"} /\ pc'[w] \notin {"idle", "clear", "event"}
    BY <1>10 DEF DeriveOther, Goto, Shapes
  <2>4. job'[w].span = job[w].span /\ job'[w].pk = job[w].pk
    BY <1>10 DEF DeriveOther, Shapes, Jobs, JobOK, Fields
  <2>5. job[w].span \in real \ shared => eventRows[job[w].span] = FirstEvents(Total(job[w].span))
    BY <1>10, <2>3 DEF DeriveOther, Filled, Written
  <2>. QED
    BY <2>1, <2>2, <2>3, <2>4, <2>5, Onward DEF Exact
<1>11. ASSUME NEW w \in Worker, Finish(w)
      PROVE  Goal'
  <2>. DEFINE s == job[w].span
  <2>1. s \in Span /\ None \notin Span
    BY <1>11 DEF Jobs, JobOK, Busy, Finish
  <2>2. /\ UNCHANGED <<pk, real, shared, eventRows>> /\ pc'[w] = "idle"
        /\ \A v \in Worker : v # w => job'[v] = job[v] /\ pc'[v] = pc[v]
        /\ job'[w].span = None /\ pc[w] = "derive"
    BY <1>11 DEF Finish, Goto, NoJob, Shapes
  <2>3. Steps' /\ Alone'
    <3>1. \A v \in Worker : job'[v].span \in Span => v # w /\ job'[v] = job[v]
      BY <2>1, <2>2
    <3>2. ASSUME NEW u \in Worker, NEW v \in Worker,
                 job'[u].span \in Span \ shared', job'[u].span = job'[v].span
          PROVE  u = v
      <4>1. job'[u] = job[u] /\ job'[v] = job[v]
        BY <3>1, <3>2
      <4>. QED
        BY <2>2, <3>2, <4>1 DEF Alone
    <3>. QED
      BY <2>1, <2>2, <3>2 DEF Alone, Steps
  <2>4. s \in real \ shared => eventRows[s] = FirstEvents(Total(s))
    BY <2>2 DEF Filled, Written
  <2>5. ASSUME NEW t \in real \ shared, NEW v \in Worker, job'[v].span = t
        PROVE  Written(v)'
    <3>1. v # w
      BY <2>1, <2>2, <2>5 DEF Shapes
    <3>. QED
      BY <2>2, <2>5, <3>1 DEF Filled, Written
  <2>6. ASSUME NEW t \in real \ shared, \A v \in Worker : job'[v].span # t
        PROVE  eventRows[t] = FirstEvents(Total(t))
    BY <2>2, <2>4, <2>6 DEF Filled
  <2>. QED
    BY <2>2, <2>3, <2>5, <2>6 DEF Filled
<1>12. ASSUME NEW w \in Worker, Fail(w)
      PROVE  Goal'
  <2>1. /\ UNCHANGED <<pk, real, eventRows>> /\ pc'[w] = "idle"
        /\ \A v \in Worker : v # w => job'[v] = job[v] /\ pc'[v] = pc[v]
        /\ job'[w].span = None /\ shared' = shared \cup {job[w].span}
    BY <1>12 DEF Fail, rows, Goto, NoJob, Shapes
  <2>2. Steps' /\ Alone'
    <3>1. \A v \in Worker : job'[v].span \in Span => v # w /\ job'[v] = job[v]
      BY <2>1
    <3>2. Alone'
      BY <2>1, <3>1 DEF Alone
    <3>. QED
      BY <2>1, <3>2 DEF Steps
  <2>3. ASSUME NEW t \in real' \ shared', NEW v \in Worker, job'[v].span = t
        PROVE  Written(v)'
    <3>1. v # w /\ t \in real \ shared
      BY <2>1, <2>3 DEF Shapes
    <3>. QED
      BY <2>1, <2>3, <3>1 DEF Filled, Written
  <2>4. ASSUME NEW t \in real' \ shared', \A v \in Worker : job'[v].span # t
        PROVE  eventRows'[t] = FirstEvents(Total(t))
    BY <2>1, <2>4 DEF Filled
  <2>. QED
    BY <2>2, <2>3, <2>4 DEF Filled
<1>13. ASSUME NEW d \in Deleter, NEW c \in Conversation, CheckExists(d, c)
      PROVE  Goal'
  BY <1>13 DEF CheckExists, rows, Steps, Alone, Filled, Written
<1>14. ASSUME NEW d \in Deleter, CollectTraces(d)
      PROVE  Goal'
  BY <1>14 DEF CollectTraces, rows, Steps, Alone, Filled, Written
<1>15. ASSUME NEW d \in Deleter, Purge(d)
      PROVE  Goal'
  <2>1. Steps' /\ Alone'
    BY <1>15 DEF Purge, Steps, Alone
  <2>2. \A s \in real' \ shared' :
          s \in real \ shared /\ pk'[s] = pk[s] /\ eventRows'[s] = eventRows[s]
    BY <1>15 DEF Purge, Shapes
  <2>3. UNCHANGED <<pc, job>>
    BY <1>15 DEF Purge
  <2>4. Filled'
    BY <2>2, <2>3 DEF Filled, Written
  <2>. QED
    BY <2>1, <2>4
<1>16. ASSUME UNCHANGED vars
       PROVE  Goal'
  <2>1. UNCHANGED <<real, pk, eventRows, shared, pc, job>>
    BY <1>16 DEF vars, rows
  <2>2. Steps' /\ Alone'
    BY <2>1 DEF Steps, Alone
  <2>3. Filled'
    BY <2>1 DEF Filled, Written
  <2>. QED
    BY <2>2, <2>3
<1>17. Owned'
  BY NextOwned
<1>. QED
  BY <1>1, <1>2, <1>3, <1>4, <1>5, <1>6, <1>7, <1>8, <1>9, <1>10,
     <1>11, <1>12, <1>13, <1>14, <1>15, <1>16, <1>17 DEF Next, Step

(* Deliveries of one span leave exactly its events, however often it is    *)
(* delivered and deleted, unless two calls on it overlap or one fails.     *)
THEOREM EventsStayExact == Spec => []EventsOnce
<1>1. Exact => EventsOnce
  BY DEF Exact, Filled, EventsOnce, FirstEvents, Total
<1>. QED
  BY InitExact, NextExact, <1>1, PTL DEF Spec

(* No row outlives its span, whatever is deleted while calls that write    *)
(* such rows are under way.                                                *)
THEOREM NothingOutlives == Spec => []NoOrphans
<1>1. Owned => NoOrphans
  BY DEF Owned, HookSpans, SpanRows, NoOrphans
<1>. QED
  BY InitOwned, NextOwned, <1>1, PTL DEF Spec

-----------------------------------------------------------------------------
(* Ancestors and the conversations they carry.                             *)

LEMMA AtType == \A s \in Span : \A i \in Heights(s) :
                  At(s, i) \in Span /\ TraceOf[At(s, i)] = TraceOf[s]
BY StoreAssumption DEF Heights, At

Carried(s, c) == \E t \in real : TraceOf[t] = TraceOf[s] /\ ConvAttr[t] = c

LEMMA ConvAttrType == ConvAttr \in [Span -> Conversation \cup {None}]
BY StoreAssumption

(* The conversation that a walk finds is carried by a span of the trace.   *)
LEMMA NearestCarried == \A s \in Span :
  Nearest(s) # None => Nearest(s) \in Conversation /\ Carried(s, Nearest(s))
<1>. SUFFICES ASSUME NEW s \in Span, Nearest(s) # None
              PROVE  Nearest(s) \in Conversation /\ Carried(s, Nearest(s))
  OBVIOUS
<1>1. PICK i \in Least(Carriers(s)) : Nearest(s) = ConvAttr[At(s, i)]
  BY DEF Nearest
<1>2. i \in Heights(s) /\ At(s, i) \in real
  BY <1>1 DEF Least, Carriers, Heights
<1>3. At(s, i) \in Span /\ TraceOf[At(s, i)] = TraceOf[s]
  BY <1>2, AtType
<1>. QED
  BY <1>1, <1>2, <1>3, ConvAttrType DEF Carried

(* A real span that has the attribute is its own nearest carrier.          *)
LEMMA NearestSelf == \A s \in Span :
  s \in real /\ ConvAttr[s] # None => Nearest(s) = ConvAttr[s]
<1>. SUFFICES ASSUME NEW s \in Span, s \in real, ConvAttr[s] # None
              PROVE  Nearest(s) = ConvAttr[s]
  OBVIOUS
<1>1. Len(Lineage[s]) \in Nat /\ At(s, 0) = s
  BY StoreAssumption DEF At
<1>2. 0 \in Carriers(s)
  BY <1>1 DEF Carriers, Heights
<1>3. Carriers(s) \subseteq Nat
  BY <1>1 DEF Carriers, Heights
<1>4. Least(Carriers(s)) = {0}
  BY <1>2, <1>3 DEF Least
<1>. QED
  BY <1>1, <1>4 DEF Nearest

-----------------------------------------------------------------------------
(* Identities.                                                             *)

Numbered ==
  /\ \A s \in Span : pk[s] <= lastPk
  /\ \A s \in Span, t \in Span : pk[s] = pk[t] /\ pk[s] # 0 => s = t
  /\ \A w \in Worker : job[w].pk <= lastPk

(* A call whose row is there works on a real span.                         *)
Alive == \A w \in Worker : pc[w] # "idle" /\ Living(w) => job[w].span \in real

Identified == Numbered /\ Alive

LEMMA InitIdentified == Init => Identified
BY DEF Init, Identified, Numbered, Alive, NoJob

LEMMA NextIdentified ==
  ASSUME Owned, Identified, [Next]_vars
  PROVE  Identified'
<1>. USE DEF Owned, Identified
<1>0. lastPk \in Nat /\ pk \in [Span -> Nat] /\ \A w \in Worker : job[w].pk \in Nat
  BY DEF Shapes, Jobs, JobOK, Fields
<1>1. ASSUME NEW w \in Worker, NEW s \in Span, Upsert(w, s)
      PROVE  Identified'
  <2>1. CASE pk[s] # 0
    <3>1. /\ UNCHANGED <<pk, lastPk>> /\ real' = real \cup {s}
          /\ \A v \in Worker : v # w => job'[v] = job[v] /\ pc'[v] = pc[v]
          /\ job'[w].span = s /\ job'[w].pk = pk[s]
      BY <1>1, <2>1 DEF Upsert, Goto, NoJob, Shapes
    <3>. QED
      BY <1>0, <3>1 DEF Numbered, Alive, Living
  <2>2. CASE pk[s] = 0
    <3>1. /\ lastPk' = lastPk + 1 /\ pk' = [pk EXCEPT ![s] = lastPk + 1] /\ real' = real \cup {s}
          /\ \A v \in Worker : v # w => job'[v] = job[v] /\ pc'[v] = pc[v]
          /\ job'[w].span = s /\ job'[w].pk = lastPk + 1
      BY <1>1, <2>2 DEF Upsert, Goto, NoJob, Shapes
    <3>2. Numbered'
      BY <1>0, <3>1 DEF Numbered
    <3>3. Alive'
      BY <1>0, <3>1 DEF Numbered, Alive, Living, Jobs, JobOK, Busy
    <3>. QED
      BY <3>2, <3>3
  <2>. QED
    BY <2>1, <2>2
<1>2. ASSUME NEW w \in Worker, EnsurePlaceholder(w)
      PROVE  Identified'
  <2>. DEFINE p == Parent(job[w].span)
  <2>1. /\ UNCHANGED real
        /\ \A v \in Worker : job'[v] = job[v] /\ (pc'[v] # "idle" => pc[v] # "idle")
    BY <1>2 DEF EnsurePlaceholder, Goto, Shapes
  <2>2. CASE UNCHANGED <<pk, lastPk>>
    BY <2>1, <2>2 DEF Numbered, Alive, Living
  <2>3. CASE /\ p # None /\ pk[p] = 0
             /\ lastPk' = lastPk + 1 /\ pk' = [pk EXCEPT ![p] = lastPk + 1]
    <3>. HIDE DEF p
    <3>1. \A s \in Span : pk'[s] = pk[s] \/ (s = p /\ pk'[s] = lastPk')
      BY <1>0, <2>3
    <3>2. lastPk' = lastPk + 1
      BY <2>3
    <3>3. Numbered'
      BY <1>0, <2>1, <3>1, <3>2 DEF Numbered
    <3>4. Alive'
      BY <1>0, <2>1, <3>1, <3>2 DEF Numbered, Alive, Living, Jobs, JobOK, Busy
    <3>. QED
      BY <3>3, <3>4
  <2>. QED
    BY <1>2, <2>2, <2>3 DEF EnsurePlaceholder
<1>3. ASSUME NEW w \in Worker, Finish(w) \/ Fail(w)
      PROVE  Identified'
  <2>1. /\ UNCHANGED <<pk, lastPk, real>> /\ pc'[w] = "idle" /\ job'[w].pk = 0
        /\ \A v \in Worker : v # w => job'[v] = job[v] /\ pc'[v] = pc[v]
    BY <1>3 DEF Finish, Fail, Goto, NoJob, Shapes, rows
  <2>. QED
    BY <1>0, <2>1 DEF Numbered, Alive, Living
<1>4. ASSUME NEW d \in Deleter, Purge(d)
      PROVE  Identified'
  <2>1. /\ UNCHANGED <<lastPk, pc, job>>
        /\ \A s \in Span : pk'[s] = 0 \/ (pk'[s] = pk[s] /\ (s \in real => s \in real'))
    BY <1>4 DEF Purge, Shapes
  <2>2. Numbered'
    BY <1>0, <2>1 DEF Numbered
  <2>3. Alive'
    BY <1>0, <2>1 DEF Alive, Living, Jobs, JobOK, Busy
  <2>. QED
    BY <2>2, <2>3
<1>5. ASSUME NEW w \in Worker,
             \/ ClearEvents(w) \/ InsertEvent(w) \/ Project(w) \/ Resolve(w)
             \/ UpsertSession(w) \/ RecountSession(w) \/ DeriveHook(w) \/ DeriveOther(w)
      PROVE  Identified'
  <2>1. UNCHANGED <<pk, lastPk, real>>
    BY <1>5 DEF ClearEvents, InsertEvent, Project, Resolve, UpsertSession, RecountSession,
                DeriveHook, DeriveOther
  <2>2. pc[w] # "idle"
    BY <1>5 DEF ClearEvents, InsertEvent, Project, Resolve, UpsertSession, RecountSession,
                DeriveHook, DeriveOther
  <2>3. \A v \in Worker : v # w => pc'[v] = pc[v] /\ job'[v] = job[v]
    BY <1>5 DEF ClearEvents, InsertEvent, Project, Resolve, UpsertSession, RecountSession,
                DeriveHook, DeriveOther, Goto, Shapes
  <2>4. job'[w].span = job[w].span /\ job'[w].pk = job[w].pk
    <3>1. w \in DOMAIN job /\ Fields(job[w])
      BY <1>0 DEF Shapes, Jobs, JobOK
    <3>2. CASE UNCHANGED job
      BY <3>2
    <3>3. CASE job' = [job EXCEPT ![w].at = @ + 1]
      BY <3>1, <3>3 DEF Fields
    <3>4. CASE Resolve(w)
      <4>1. PICK c : job' = [job EXCEPT ![w] = [@ EXCEPT !.conv = c, !.at = 1]]
        BY <3>1, <3>4, Zenon DEF Resolve
      <4>. QED
        BY <3>1, <4>1 DEF Fields
    <3>5. CASE UNCHANGED job \/ job' = [job EXCEPT ![w].at = @ + 1]
      BY <3>2, <3>3, <3>5
    <3>6. Resolve(w) \/ UNCHANGED job \/ job' = [job EXCEPT ![w].at = @ + 1]
      BY <1>5, Zenon DEF ClearEvents, InsertEvent, Project, UpsertSession, RecountSession,
                         DeriveHook, DeriveOther
    <3>. QED
      BY <3>4, <3>5, <3>6
  <2>. QED
    BY <2>1, <2>2, <2>3, <2>4, Zenon DEF Numbered, Alive, Living
<1>6. ASSUME UNCHANGED <<pk, lastPk, real, pc, job>>
      PROVE  Identified'
  BY <1>6 DEF Numbered, Alive, Living
<1>7. ASSUME NEW d \in Deleter,
             (\E c \in Conversation : CheckExists(d, c)) \/ CollectTraces(d)
      PROVE  Identified'
  <2>1. UNCHANGED <<pk, lastPk, real, pc, job>>
    BY <1>7 DEF CheckExists, CollectTraces, rows
  <2>. QED
    BY <1>6, <2>1
<1>8. CASE UNCHANGED vars
  BY <1>6, <1>8 DEF vars, rows
<1>. QED
  BY <1>1, <1>2, <1>3, <1>4, <1>5, <1>7, <1>8 DEF Next, Step

-----------------------------------------------------------------------------
(* Types.                                                                  *)

Conv == Conversation \cup {None}

UsageRecord == [span : Span \cup {None}, conv : Conv]

Deletions ==
  [at : {"idle", "collect", "purge"}, conv : Conv, traces : SUBSET {TraceOf[s] : s \in Span}]

Tables ==
  /\ filed \in [Span -> OrNoRow(Conv)] /\ skill \in [Span -> OrNoRow(Conv)]
  /\ hook \in [Hook -> OrNoRow(HookRecord)]
  /\ usage \subseteq UsageRecord
  /\ session \in [Conversation -> OrNoRow(0 .. Cardinality(Span))]

Calls ==
  /\ \A w \in Worker : job[w].conv \in Conv
  /\ \A w \in Worker : pc[w] \in {"session", "count"} =>
       job[w].conv \in Conversation /\ job[w].at = 1
  /\ del \in [Deleter -> Deletions]
  /\ \A d \in Deleter : del[d].at # "idle" => del[d].conv \in Conversation

Typed == Tables /\ Calls

LEMMA NoneIsNone ==
  /\ None \notin Conversation /\ NoRow \notin Conversation /\ NoRow \notin HookRecord
BY StoreAssumption

LEMMA NearestType == \A s \in Span : Nearest(s) \in Conv
BY NearestCarried DEF Conv

LEMMA InitTyped == Init => Typed
<1>. SUFFICES ASSUME Init PROVE Typed
  OBVIOUS
<1>1. Tables
  BY DEF Init, Tables, OrNoRow
<1>2. Calls
  BY DEF Init, Calls, NoJob, NoDeletion, Deletions, Conv
<1>. QED
  BY <1>1, <1>2 DEF Typed

(* A record whose conversation is replaced keeps its type.                 *)
LEMMA RefiledHook ==
  ASSUME NEW r \in HookRecord, NEW c \in Conv
  PROVE  [r EXCEPT !.conv = c] \in HookRecord
BY DEF HookRecord, Conv

LEMMA RefiledUsage ==
  ASSUME NEW r \in UsageRecord, NEW c \in Conv
  PROVE  [r EXCEPT !.conv = c] \in UsageRecord
BY DEF UsageRecord

(* The conversation that resolve_projection_pointers leaves in a row.      *)
Tag(S, s, c) == IF s \in S /\ c = None THEN Nearest(s) ELSE c

LEMMA TagType ==
  ASSUME NEW S \in SUBSET Span, NEW s, NEW c
  PROVE  /\ c \in Conv => Tag(S, s, c) \in Conv
         /\ c \in OrNoRow(Conv) => Tag(S, s, c) \in OrNoRow(Conv)
         /\ c # None => Tag(S, s, c) = c
         /\ Tag(S, s, c) = c \/ (s \in S /\ c = None /\ Tag(S, s, c) = Nearest(s))
BY NearestType DEF Tag, OrNoRow

LEMMA RefileTags ==
  ASSUME NEW S \in SUBSET Span, Refile(S)
  PROVE  /\ filed' = [s \in Span |-> Tag(S, s, filed[s])]
         /\ skill' = [s \in Span |-> Tag(S, s, skill[s])]
         /\ hook' = [h \in Hook |-> IF hook[h] = NoRow THEN NoRow
                       ELSE [hook[h] EXCEPT !.conv = Tag(S, hook[h].span, hook[h].conv)]]
         /\ usage' = {[u EXCEPT !.conv = Tag(S, u.span, u.conv)] : u \in usage}
BY DEF Refile, Tag

LEMMA RefileTyped ==
  ASSUME Tables, NEW S \in SUBSET Span, Refile(S), UNCHANGED session
  PROVE  Tables'
<1>. USE RefileTags DEF Tables
<1>1. filed' \in [Span -> OrNoRow(Conv)]
  BY TagType
<1>2. skill' \in [Span -> OrNoRow(Conv)]
  BY TagType
<1>3. hook' \in [Hook -> OrNoRow(HookRecord)]
  <2>1. ASSUME NEW h \in Hook, hook[h] # NoRow
        PROVE  [hook[h] EXCEPT !.conv = Tag(S, hook[h].span, hook[h].conv)] \in HookRecord
    <3>1. hook[h] \in HookRecord
      BY <2>1 DEF OrNoRow
    <3>2. Tag(S, hook[h].span, hook[h].conv) \in Conv
      BY <3>1, TagType DEF HookRecord, Conv
    <3>. QED
      BY <3>1, <3>2, RefiledHook
  <2>. QED
    BY <2>1 DEF OrNoRow
<1>4. usage' \subseteq UsageRecord
  <2>1. ASSUME NEW u \in usage
        PROVE  [u EXCEPT !.conv = Tag(S, u.span, u.conv)] \in UsageRecord
    <3>1. u \in UsageRecord /\ u.conv \in Conv
      BY DEF UsageRecord
    <3>. QED
      BY <3>1, TagType, RefiledUsage
  <2>. QED
    BY <2>1
<1>. QED
  BY <1>1, <1>2, <1>3, <1>4

LEMMA BelowType == \A s \in Span : Below(s) \in SUBSET Span
BY DEF Below

LEMMA CountedType == \A c : Counted(c) \in 0 .. Cardinality(Span)
<1>. SUFFICES ASSUME NEW c PROVE Counted(c) \in 0 .. Cardinality(Span)
  OBVIOUS
<1>. DEFINE S == {s \in Span : filed[s] = c}
<1>1. IsFiniteSet(Span) /\ S \in SUBSET Span
  BY StoreAssumption
<1>2. Cardinality(S) \in Nat /\ Cardinality(Span) \in Nat /\ Cardinality(S) <= Cardinality(Span)
  BY <1>1, FS_Subset, FS_CardinalityType
<1>. QED
  BY <1>2 DEF Counted

LEMMA NewHook ==
  ASSUME NEW n, NEW s, NEW c, NEW no, NEW q,
         n = [span |-> None, conv |-> None, start |-> no, end |-> no, duration |-> no],
         q = [n EXCEPT !.span = s, !.conv = c]
  PROVE  q = [span |-> s, conv |-> c, start |-> no, end |-> no, duration |-> no]
OBVIOUS

(* The row that a hook event starts from, and what the event makes of it.  *)
LEMMA HookRowType ==
  ASSUME Tables, NEW h \in Hook, NEW s \in Span, NEW c \in Conv
  PROVE  /\ HookRow(h, s, c) \in HookRecord
         /\ HookStart(HookRow(h, s, c), s, c) \in HookRecord
         /\ HookEnd(HookRow(h, s, c), s, c) \in HookRecord
<1>1. hook[h] # NoRow => hook[h] \in HookRecord
  BY DEF Tables, OrNoRow
<1>. DEFINE no == FALSE
<1>0. PICK n : n = [NoHook EXCEPT !.span = s, !.conv = c]
  OBVIOUS
<1>2. n = [span |-> s, conv |-> c, start |-> no, end |-> no, duration |-> no]
  <2>1. NoHook = [span |-> None, conv |-> None, start |-> no, end |-> no, duration |-> no]
    BY DEF NoHook
  <2>. HIDE DEF no
  <2>. QED
    BY <1>0, <2>1, NewHook
<1>3. n \in HookRecord
  <2>1. no \in BOOLEAN
    OBVIOUS
  <2>. HIDE DEF no
  <2>. QED
    BY <1>2, <2>1 DEF HookRecord, Conv
<1>4. HookRow(h, s, c) \in HookRecord
  BY <1>0, <1>1, <1>3 DEF HookRow
<1>5. ASSUME NEW r \in HookRecord
      PROVE  HookStart(r, s, c) \in HookRecord /\ HookEnd(r, s, c) \in HookRecord
  <2>1. Coalesce(r.conv, c) \in Conv
    BY DEF HookRecord, Conv, Coalesce
  <2>2. HookStart(r, s, c) = [r EXCEPT !.conv = Coalesce(r.conv, c), !.start = TRUE]
    BY DEF HookStart
  <2>3. HookEnd(r, s, c) =
          [r EXCEPT !.conv = Coalesce(r.conv, c), !.end = TRUE, !.duration = r.start]
    BY DEF HookEnd
  <2>4. HookStart(r, s, c) \in HookRecord
    BY <2>1, <2>2 DEF HookRecord, Conv
  <2>5. HookEnd(r, s, c) \in HookRecord
    BY <2>1, <2>3 DEF HookRecord, Conv
  <2>. QED
    BY <2>4, <2>5
<1>. QED
  BY <1>4, <1>5

(* A call keeps its type if its conversation and its place are right.      *)
LEMMA CallsStep ==
  ASSUME Calls, NEW w \in Worker, UNCHANGED del,
         \A v \in Worker : v # w => pc'[v] = pc[v] /\ job'[v] = job[v],
         job'[w].conv \in Conv,
         pc'[w] \in {"session", "count"} => job'[w].conv \in Conversation /\ job'[w].at = 1
  PROVE  Calls'
<1>1. ASSUME NEW v \in Worker
      PROVE  /\ job'[v].conv \in Conv
             /\ pc'[v] \in {"session", "count"} => job'[v].conv \in Conversation /\ job'[v].at = 1
  <2>1. CASE v = w
    BY <2>1
  <2>2. CASE v # w
    BY <2>2 DEF Calls
  <2>. QED
    BY <2>1, <2>2
<1>. QED
  BY <1>1 DEF Calls

LEMMA NextTyped ==
  ASSUME Owned, Typed, [Next]_vars
  PROVE  Typed'
<1>. USE DEF Typed, Owned
<1>1. ASSUME NEW w \in Worker, NEW s \in Span, Upsert(w, s)
      PROVE  Typed'
  <2>1. UNCHANGED <<filed, skill, hook, usage, session, del>>
    BY <1>1 DEF Upsert
  <2>2. job'[w].conv = None /\ pc'[w] = "clear"
    BY <1>1 DEF Upsert, Goto, NoJob, Shapes
  <2>3. \A v \in Worker : v # w => pc'[v] = pc[v] /\ job'[v] = job[v]
    BY <1>1 DEF Upsert, Goto, Shapes
  <2>4. Calls'
    BY <2>1, <2>2, <2>3, CallsStep DEF Conv
  <2>. QED
    BY <2>1, <2>4 DEF Tables
<1>2. ASSUME NEW w \in Worker, ClearEvents(w) \/ InsertEvent(w) \/ EnsurePlaceholder(w)
      PROVE  Typed'
  <2>1. UNCHANGED <<filed, skill, hook, usage, session, del>>
    BY <1>2 DEF ClearEvents, InsertEvent, EnsurePlaceholder
  <2>2. job'[w].conv = job[w].conv /\ pc'[w] \notin {"session", "count"}
    BY <1>2 DEF ClearEvents, InsertEvent, EnsurePlaceholder, Goto, Shapes, Jobs, JobOK, Fields
  <2>3. \A v \in Worker : v # w => pc'[v] = pc[v] /\ job'[v] = job[v]
    BY <1>2 DEF ClearEvents, InsertEvent, EnsurePlaceholder, Goto, Shapes
  <2>4. Calls'
    BY <2>1, <2>2, <2>3, CallsStep DEF Calls
  <2>. QED
    BY <2>1, <2>4 DEF Tables
<1>3. ASSUME NEW w \in Worker, Project(w)
      PROVE  Typed'
  <2>1. UNCHANGED <<skill, hook, usage, session, del, job>>
    BY <1>3 DEF Project
  <2>2. filed' \in [Span -> OrNoRow(Conv)]
    BY <1>3, ConvAttrType DEF Project, Tables, Conv, OrNoRow
  <2>3. pc'[w] = "resolve" /\ \A v \in Worker : v # w => pc'[v] = pc[v]
    BY <1>3 DEF Project, Goto, Shapes
  <2>4. Calls'
    BY <2>1, <2>3, CallsStep DEF Calls
  <2>. QED
    BY <2>1, <2>2, <2>4 DEF Tables
<1>4. ASSUME NEW w \in Worker, Resolve(w)
      PROVE  Typed'
  <2>. DEFINE s == job[w].span
              S == IF Living(w) THEN Below(s) ELSE {}
              c == IF Living(w) THEN Nearest(s) ELSE None
  <2>1. s \in Span
    BY <1>4 DEF Jobs, JobOK, Busy, Resolve
  <2>2. Refile(S) /\ S \in SUBSET Span /\ UNCHANGED <<session, del>>
    BY <1>4, <2>1, BelowType DEF Resolve
  <2>3. c \in Conv
    BY <2>1, NearestType DEF Conv
  <2>4. /\ job' = [job EXCEPT ![w].conv = c, ![w].at = 1]
        /\ pc' = [pc EXCEPT ![w] = IF job'[w].conv = None THEN "derive" ELSE "session"]
    BY <1>4 DEF Resolve, Goto
  <2>. HIDE DEF s, S, c
  <2>5. Tables'
    BY <2>2, RefileTyped
  <2>6. job'[w].conv = c /\ job'[w].at = 1
    BY <1>4, <2>4 DEF Shapes, Jobs, JobOK, Fields
  <2>7. \A v \in Worker : v # w => pc'[v] = pc[v] /\ job'[v] = job[v]
    BY <2>4 DEF Shapes
  <2>8. pc'[w] \in {"session", "count"} => c # None
    BY <2>4, <2>6 DEF Shapes
  <2>9. Calls'
    BY <2>2, <2>3, <2>6, <2>7, <2>8, CallsStep DEF Conv
  <2>. QED
    BY <2>5, <2>9
<1>5. ASSUME NEW w \in Worker, UpsertSession(w) \/ RecountSession(w)
      PROVE  Typed'
  <2>1. UNCHANGED <<filed, skill, hook, usage, job, del>>
    BY <1>5 DEF UpsertSession, RecountSession
  <2>2. \A v \in Worker : v # w => pc'[v] = pc[v]
    BY <1>5 DEF UpsertSession, RecountSession, Goto, Shapes
  <2>3. pc[w] \in {"session", "count"}
    BY <1>5 DEF UpsertSession, RecountSession
  <2>4. Calls'
    BY <2>1, <2>2, <2>3, CallsStep DEF Calls
  <2>5. 0 \in 0 .. Cardinality(Span) /\ Counted(job[w].conv) \in 0 .. Cardinality(Span)
    BY CountedType, FS_CardinalityType, StoreAssumption
  <2>6. session' \in [Conversation -> OrNoRow(0 .. Cardinality(Span))]
    BY <1>5, <2>5 DEF UpsertSession, RecountSession, Tables, OrNoRow
  <2>. QED
    BY <2>1, <2>4, <2>6 DEF Tables
<1>6. ASSUME NEW w \in Worker, DeriveHook(w)
      PROVE  Typed'
  <2>. DEFINE s == job[w].span
              g == Events[s][job[w].at][2]
              c == job[w].conv
              r == HookRow(g, s, c)
              new == IF Events[s][job[w].at][1] = "start" THEN HookStart(r, s, c)
                                                          ELSE HookEnd(r, s, c)
  <2>1. s \in Span /\ c \in Conv
    BY <1>6 DEF Jobs, JobOK, Busy, DeriveHook, Calls
  <2>2. hook' = [hook EXCEPT ![g] = new]
    BY <1>6 DEF DeriveHook
  <2>3. g \in Hook => new \in HookRecord
    BY <2>1, HookRowType
  <2>4. UNCHANGED <<filed, skill, usage, session, del, pc>>
    BY <1>6 DEF DeriveHook
  <2>5. job'[w].conv = job[w].conv /\ pc[w] = "derive"
    BY <1>6 DEF DeriveHook, Shapes, Jobs, JobOK, Fields
  <2>6. \A v \in Worker : v # w => job'[v] = job[v]
    BY <1>6 DEF DeriveHook, Shapes
  <2>7. Calls'
    BY <2>4, <2>5, <2>6, CallsStep DEF Calls
  <2>. HIDE DEF s, g, c, r, new
  <2>8. hook' \in [Hook -> OrNoRow(HookRecord)]
    BY <2>2, <2>3 DEF Tables, OrNoRow
  <2>. QED
    BY <2>4, <2>7, <2>8 DEF Tables
<1>7. ASSUME NEW w \in Worker, DeriveOther(w)
      PROVE  Typed'
  <2>. DEFINE s == job[w].span
              c == job[w].conv
  <2>1. s \in Span /\ c \in Conv
    BY <1>7 DEF Jobs, JobOK, Busy, DeriveOther, Calls
  <2>2. UNCHANGED <<filed, hook, session, del, pc>>
    BY <1>7 DEF DeriveOther
  <2>3. job'[w].conv = job[w].conv /\ pc[w] = "derive"
    BY <1>7 DEF DeriveOther, Shapes, Jobs, JobOK, Fields
  <2>4. \A v \in Worker : v # w => job'[v] = job[v]
    BY <1>7 DEF DeriveOther, Shapes
  <2>5. Calls'
    BY <2>2, <2>3, <2>4, CallsStep DEF Calls
  <2>6. [span |-> s, conv |-> c] \in UsageRecord
    BY <2>1 DEF UsageRecord
  <2>7. skill' \in [Span -> OrNoRow(Conv)] /\ usage' \subseteq UsageRecord
    BY <1>7, <2>1, <2>6 DEF DeriveOther, Tables, OrNoRow
  <2>. QED
    BY <2>2, <2>5, <2>7 DEF Tables
<1>8. ASSUME NEW w \in Worker, Finish(w)
      PROVE  Typed'
  <2>. DEFINE s == job[w].span
              S == IF Living(w) /\ Events[s] # <<>> THEN {s} ELSE {}
  <2>1. s \in Span
    BY <1>8 DEF Jobs, JobOK, Busy, Finish
  <2>2. Refile(S) /\ S \in SUBSET Span /\ UNCHANGED <<session, del>>
    BY <1>8, <2>1 DEF Finish
  <2>3. /\ pc'[w] = "idle" /\ job'[w].conv = None
        /\ \A v \in Worker : v # w => pc'[v] = pc[v] /\ job'[v] = job[v]
    BY <1>8 DEF Finish, Goto, NoJob, Shapes
  <2>. HIDE DEF S
  <2>4. Tables'
    BY <2>2, RefileTyped
  <2>5. Calls'
    BY <2>2, <2>3, CallsStep DEF Conv
  <2>. QED
    BY <2>4, <2>5
<1>9. ASSUME NEW w \in Worker, Fail(w)
      PROVE  Typed'
  <2>1. UNCHANGED <<filed, skill, hook, usage, session, del>>
    BY <1>9 DEF Fail, rows
  <2>2. /\ pc'[w] = "idle" /\ job'[w].conv = None
        /\ \A v \in Worker : v # w => pc'[v] = pc[v] /\ job'[v] = job[v]
    BY <1>9 DEF Fail, Goto, NoJob, Shapes
  <2>3. Calls'
    BY <2>1, <2>2, CallsStep DEF Conv
  <2>. QED
    BY <2>1, <2>3 DEF Tables
<1>10. ASSUME NEW d \in Deleter, NEW c \in Conversation, CheckExists(d, c)
       PROVE  Typed'
  <2>1. UNCHANGED <<filed, skill, hook, usage, session, pc, job>>
    BY <1>10 DEF CheckExists, rows
  <2>2. del' = [del EXCEPT ![d] = [at |-> "collect", conv |-> c, traces |-> {}]]
    BY <1>10 DEF CheckExists
  <2>3. Calls'
    BY <2>1, <2>2 DEF Calls, Deletions, Conv
  <2>. QED
    BY <2>1, <2>3 DEF Tables
<1>11. ASSUME NEW d \in Deleter, CollectTraces(d)
       PROVE  Typed'
  <2>1. UNCHANGED <<filed, skill, hook, usage, session, pc, job>>
    BY <1>11 DEF CollectTraces, rows
  <2>2. /\ del' = [del EXCEPT ![d].at = "purge", ![d].traces = TracesOf(del[d].conv)]
        /\ del[d].at = "collect"
    BY <1>11 DEF CollectTraces
  <2>3. TracesOf(del[d].conv) \in SUBSET {TraceOf[s] : s \in Span}
    BY DEF TracesOf
  <2>4. Calls'
    BY <2>1, <2>2, <2>3 DEF Calls, Deletions
  <2>. QED
    BY <2>1, <2>4 DEF Tables
<1>12. ASSUME NEW d \in Deleter, Purge(d)
       PROVE  Typed'
  <2>1. UNCHANGED <<pc, job>> /\ del' = [del EXCEPT ![d] = NoDeletion]
    BY <1>12 DEF Purge
  <2>2. Calls'
    BY <2>1 DEF Calls, NoDeletion, Deletions, Conv
  <2>3. filed' \in [Span -> OrNoRow(Conv)] /\ skill' \in [Span -> OrNoRow(Conv)]
    BY <1>12 DEF Purge, Tables, OrNoRow
  <2>4. hook' \in [Hook -> OrNoRow(HookRecord)]
    BY <1>12 DEF Purge, Tables, OrNoRow
  <2>5. usage' \subseteq UsageRecord
    BY <1>12 DEF Purge, SurvivingUsage, Tables, UsageRecord
  <2>6. session' \in [Conversation -> OrNoRow(0 .. Cardinality(Span))]
    BY <1>12 DEF Purge, Tables, OrNoRow
  <2>. QED
    BY <2>2, <2>3, <2>4, <2>5, <2>6 DEF Tables
<1>13. CASE UNCHANGED vars
  <2>1. UNCHANGED <<filed, skill, hook, usage, session, pc, job, del>>
    BY <1>13 DEF vars, rows
  <2>. QED
    BY <2>1 DEF Tables, Calls
<1>. QED
  BY <1>1, <1>2, <1>3, <1>4, <1>5, <1>6, <1>7, <1>8, <1>9, <1>10, <1>11, <1>12, <1>13
     DEF Next, Step

-----------------------------------------------------------------------------
(***************************************************************************)
(* Where a conversation in a row comes from: some real span of the trace   *)
(* carries it.  A deletion takes whole traces, so as long as a span stays, *)
(* the one that its rows have their conversation from stays too.           *)
(***************************************************************************)
FiledFrom == \A s \in Span : filed[s] \in Conversation => Carried(s, filed[s])

CallFrom == \A w \in Worker :
  pc[w] # "idle" /\ Living(w) /\ job[w].conv \in Conversation =>
    Carried(job[w].span, job[w].conv)

Mentions(s, h) == \E i \in 1 .. Len(Events[s]) : Events[s][i][2] = h

HookOwned == \A h \in Hook : hook[h] # NoRow =>
  hook[h].span \in real /\ Mentions(hook[h].span, h)

HookFrom == \A h \in Hook :
  Paired(h) /\ hook[h] # NoRow /\ hook[h].span \notin shared /\ hook[h].conv \in Conversation =>
    Carried(hook[h].span, hook[h].conv)

(* What a deletion is about to take, and what it has missed.               *)
Foreseen == \A d \in Deleter : del[d].at = "purge" =>
  /\ \A t \in real : ConvAttr[t] = del[d].conv => TraceOf[t] \in del[d].traces \/ t \in torn
  /\ \A x \in del[d].traces : \E t \in Span : TraceOf[t] = x /\ ConvAttr[t] = del[d].conv

Grounded == FiledFrom /\ CallFrom /\ HookOwned /\ HookFrom /\ Foreseen

LEMMA InitGrounded == Init => Grounded
BY NoneIsNone DEF Init, Grounded, FiledFrom, CallFrom, HookOwned, HookFrom, Foreseen, NoDeletion

LEMMA OneOwner ==
  ASSUME NEW h \in Hook, Paired(h), NEW s \in Span, NEW t \in Span, Mentions(s, h), Mentions(t, h)
  PROVE  s = t
BY DEF Paired, Mentions

LEMMA Growing ==
  ASSUME real \subseteq real'
  PROVE  \A s, c : Carried(s, c) => Carried(s, c)'
BY DEF Carried

(* What a purge leaves of a trace that it was not about.                   *)
LEMMA Surviving ==
  ASSUME Owned, NEW d \in Deleter, Purge(d), NEW s \in Span, TraceOf[s] \notin del[d].traces
  PROVE  /\ pk'[s] = pk[s] /\ (s \in real <=> s \in real')
         /\ \A c : Carried(s, c) => Carried(s, c)'
<1>1. pk'[s] = pk[s] /\ (s \in real <=> s \in real')
  BY DEF Purge, Gone
<1>2. ASSUME NEW c, Carried(s, c)
      PROVE  Carried(s, c)'
  <2>1. PICK t \in real : TraceOf[t] = TraceOf[s] /\ ConvAttr[t] = c
    BY <1>2 DEF Carried
  <2>2. t \in real'
    BY <2>1 DEF Purge, Gone, Owned, Shapes
  <2>. QED
    BY <2>1, <2>2 DEF Carried
<1>. QED
  BY <1>1, <1>2

(* The one call on a span that is not shared has the row that is there.    *)
LEMMA OnlyCallLives ==
  ASSUME Exact, NEW w \in Worker, job[w].span \in real \ shared
  PROVE  Living(w)
BY DEF Exact, Filled, Written, Living

(* A row with a new span_pk is not the one a call has.                     *)
LEMMA StillLiving ==
  ASSUME Owned, Identified, NEW v \in Worker, pc[v] # "idle",
         \A s \in Span : pk'[s] = pk[s] \/ pk'[s] = lastPk + 1,
         job'[v] = job[v], Living(v)'
  PROVE  Living(v)
<1>1. /\ job[v].span \in Span /\ job[v].pk <= lastPk
      /\ job[v].pk \in Nat /\ lastPk \in Nat
  BY DEF Owned, Shapes, Jobs, JobOK, Busy, Fields, Identified, Numbered
<1>. QED
  BY <1>1 DEF Living

(* resolve_projection_pointers files rows under what a walk finds now.     *)
LEMMA RefileGrounded ==
  ASSUME Owned, Typed, Grounded, NEW S \in SUBSET Span, Refile(S), UNCHANGED <<real, shared>>
  PROVE  FiledFrom' /\ HookOwned' /\ HookFrom'
<1>. USE RefileTags DEF Grounded
<1>1. \A s, c : Carried(s, c) => Carried(s, c)'
  BY Growing
<1>2. ASSUME NEW s \in Span, NEW c \in Conversation, filed'[s] = c
      PROVE  Carried(s, c)'
  <2>1. filed'[s] = filed[s] \/ filed'[s] = Nearest(s)
    BY <1>2, TagType
  <2>2. CASE filed'[s] = filed[s]
    BY <1>1, <1>2, <2>2 DEF FiledFrom
  <2>3. CASE filed'[s] = Nearest(s)
    BY <1>1, <1>2, <2>3, NearestCarried, NoneIsNone
  <2>. QED
    BY <2>1, <2>2, <2>3
<1>3. ASSUME NEW h \in Hook, hook'[h] # NoRow
      PROVE  /\ hook[h] # NoRow /\ hook'[h].span = hook[h].span
             /\ hook'[h].conv = Tag(S, hook[h].span, hook[h].conv)
             /\ hook[h] \in HookRecord
  <2>1. hook[h] # NoRow /\ hook[h] \in HookRecord
    BY <1>3 DEF Typed, Tables, OrNoRow
  <2>2. hook'[h] = [hook[h] EXCEPT !.conv = Tag(S, hook[h].span, hook[h].conv)]
    BY <2>1
  <2>. QED
    BY <2>1, <2>2 DEF HookRecord, Conv
<1>4. HookOwned'
  BY <1>3 DEF HookOwned
<1>5. ASSUME NEW h \in Hook, Paired(h), hook'[h] # NoRow, hook'[h].span \notin shared',
             NEW c \in Conversation, hook'[h].conv = c, NEW s, s = hook[h].span
      PROVE  Carried(s, c)'
  <2>1. hook'[h].conv = hook[h].conv \/ hook'[h].conv = Nearest(hook[h].span)
    BY <1>3, <1>5, TagType
  <2>2. s \in Span
    BY <1>3, <1>5 DEF HookRecord, Conv
  <2>3. CASE hook'[h].conv = hook[h].conv
    <3>1. Carried(s, c)
      BY <1>3, <1>5, <2>3 DEF HookFrom
    <3>. QED
      BY <1>1, <3>1
  <2>4. CASE hook'[h].conv = Nearest(s)
    <3>1. Carried(s, c)
      BY <1>5, <2>2, <2>4, NearestCarried, NoneIsNone
    <3>. QED
      BY <1>1, <3>1
  <2>. QED
    BY <1>5, <2>1, <2>3, <2>4
<1>6. FiledFrom'
  BY <1>2 DEF FiledFrom, Carried
<1>7. HookFrom'
  BY <1>3, <1>5 DEF HookFrom, Carried
<1>. QED
  BY <1>4, <1>6, <1>7

(* What most steps do: no span goes and no row of these is filed anew.     *)
LEMMA GroundedKept ==
  ASSUME Grounded, Owned, Identified, real \subseteq real', shared \subseteq shared',
         \A s \in Span : pk'[s] = pk[s] \/ pk'[s] = lastPk + 1
  PROVE  /\ UNCHANGED filed => FiledFrom'
         /\ UNCHANGED hook => HookOwned' /\ HookFrom'
         /\ \A v \in Worker :
              /\ pc[v] # "idle" /\ job'[v].span = job[v].span /\ job'[v].pk = job[v].pk
              /\ job'[v].conv = job[v].conv /\ Living(v)' /\ job'[v].conv \in Conversation
              => (Carried(job[v].span, job[v].conv))'
<1>. USE DEF Grounded
<1>1. \A s, c : Carried(s, c) => Carried(s, c)'
  BY Growing
<1>2. UNCHANGED filed => FiledFrom'
  BY DEF FiledFrom, Carried
<1>3. UNCHANGED hook => HookOwned'
  BY DEF HookOwned
<1>4. UNCHANGED hook => HookFrom'
  BY DEF HookFrom, Carried
<1>5. ASSUME NEW v \in Worker, pc[v] # "idle", job'[v].span = job[v].span, job'[v].pk = job[v].pk,
             job'[v].conv = job[v].conv, Living(v)', job'[v].conv \in Conversation
      PROVE  (Carried(job[v].span, job[v].conv))'
  <2>1. /\ job[v].span \in Span /\ job[v].pk <= lastPk
        /\ job[v].pk \in Nat /\ lastPk \in Nat
    BY <1>5 DEF Owned, Shapes, Jobs, JobOK, Busy, Fields, Identified, Numbered
  <2>2. Living(v)
    BY <1>5, <2>1 DEF Living
  <2>3. Carried(job[v].span, job[v].conv)
    BY <1>5, <2>2 DEF CallFrom
  <2>. QED
    BY <1>5, <2>3 DEF Carried
<1>. QED
  BY <1>2, <1>3, <1>4, <1>5

(* A step of one call that files nothing anew.                             *)
LEMMA CallFromStep ==
  ASSUME Grounded, Owned, Identified, real \subseteq real', shared \subseteq shared',
         \A s \in Span : pk'[s] = pk[s] \/ pk'[s] = lastPk + 1,
         NEW w \in Worker,
         \A v \in Worker : v # w => pc'[v] = pc[v] /\ job'[v] = job[v],
         \/ pc'[w] = "idle" \/ job'[w].conv \notin Conversation
         \/ /\ pc[w] # "idle" /\ job'[w].span = job[w].span /\ job'[w].pk = job[w].pk
            /\ job'[w].conv = job[w].conv
         \/ (Carried(job[w].span, job[w].conv))'
  PROVE  CallFrom'
<1>1. ASSUME NEW v \in Worker, pc'[v] # "idle", Living(v)', job'[v].conv \in Conversation
      PROVE  (Carried(job[v].span, job[v].conv))'
  <2>1. CASE v # w
    BY <1>1, <2>1, GroundedKept
  <2>2. CASE v = w
    BY <1>1, <2>2, GroundedKept
  <2>. QED
    BY <2>1, <2>2
<1>. QED
  BY <1>1 DEF CallFrom

LEMMA ForeseenKept ==
  ASSUME Foreseen, UNCHANGED <<real, del>>, torn \subseteq torn'
  PROVE  Foreseen'
BY DEF Foreseen

LEMMA NextGrounded ==
  ASSUME Exact, Identified, Typed, Grounded, [Next]_vars
  PROVE  Grounded'
<1>0. Owned /\ FiledFrom /\ CallFrom /\ HookOwned /\ HookFrom /\ Foreseen
  BY DEF Exact, Grounded
<1>1. ASSUME NEW w \in Worker, NEW s \in Span, Upsert(w, s)
      PROVE  Grounded'
  <2>1. /\ real' = real \cup {s} /\ shared \subseteq shared' /\ UNCHANGED <<filed, hook, del>>
        /\ torn \subseteq torn'
    BY <1>1 DEF Upsert
  <2>2. \A t \in Span : pk'[t] = pk[t] \/ pk'[t] = lastPk + 1
    BY <1>0, <1>1 DEF Upsert, Owned, Shapes
  <2>3. /\ \A v \in Worker : v # w => pc'[v] = pc[v] /\ job'[v] = job[v]
        /\ job'[w].conv = None
    BY <1>0, <1>1 DEF Upsert, Goto, NoJob, Owned, Shapes
  <2>4. FiledFrom' /\ HookOwned' /\ HookFrom' /\ CallFrom'
    BY <1>0, <2>1, <2>2, <2>3, GroundedKept, CallFromStep, NoneIsNone
  <2>5. ASSUME NEW d \in Deleter, del[d].at = "purge", TraceOf[s] \notin del[d].traces
        PROVE  s \in torn'
    BY <1>1, <2>5 DEF Upsert
  <2>6. Foreseen'
    BY <1>0, <2>1, <2>5 DEF Foreseen
  <2>. QED
    BY <2>4, <2>6 DEF Grounded
<1>2. ASSUME NEW w \in Worker,
             ClearEvents(w) \/ InsertEvent(w) \/ EnsurePlaceholder(w) \/ UpsertSession(w)
               \/ RecountSession(w) \/ DeriveOther(w)
      PROVE  Grounded'
  <2>1. UNCHANGED <<real, shared, torn, filed, hook, del>>
    BY <1>2 DEF ClearEvents, InsertEvent, EnsurePlaceholder, UpsertSession, RecountSession,
                DeriveOther
  <2>2. \A t \in Span : pk'[t] = pk[t] \/ pk'[t] = lastPk + 1
    BY <1>0, <1>2 DEF ClearEvents, InsertEvent, EnsurePlaceholder, UpsertSession, RecountSession,
                DeriveOther, Owned, Shapes
  <2>3. \A v \in Worker : v # w => pc'[v] = pc[v] /\ job'[v] = job[v]
    BY <1>0, <1>2 DEF ClearEvents, InsertEvent, EnsurePlaceholder, UpsertSession, RecountSession,
                DeriveOther, Goto, Owned, Shapes
  <2>4. pc[w] # "idle"
    BY <1>2 DEF ClearEvents, InsertEvent, EnsurePlaceholder, UpsertSession, RecountSession,
                DeriveOther
  <2>5. job'[w].span = job[w].span /\ job'[w].pk = job[w].pk /\ job'[w].conv = job[w].conv
    BY <1>0, <1>2, <2>4 DEF ClearEvents, InsertEvent, EnsurePlaceholder, UpsertSession,
                RecountSession, DeriveOther, Owned, Shapes, Jobs, JobOK, Fields
  <2>. QED
    BY <1>0, <2>1, <2>2, <2>3, <2>4, <2>5, GroundedKept, CallFromStep, ForeseenKept DEF Grounded
<1>3. ASSUME NEW w \in Worker, Project(w)
      PROVE  Grounded'
  <2>. DEFINE s == job[w].span
  <2>1. /\ UNCHANGED <<pk, real, shared, torn, hook, del, job>> /\ pc[w] # "idle"
        /\ \A v \in Worker : v # w => pc'[v] = pc[v]
    BY <1>0, <1>3 DEF Project, Goto, Owned, Shapes
  <2>2. s \in Span /\ s \in real
    BY <1>0, <1>3 DEF Project, Owned, Jobs, JobOK, Busy, Identified, Alive
  <2>3. ASSUME NEW t \in Span, NEW c \in Conversation, filed'[t] = c
        PROVE  Carried(t, c)
    <3>1. CASE t = s
      <4>1. c = ConvAttr[s] \/ c = filed[s]
        BY <1>0, <1>3, <2>2, <2>3, <3>1 DEF Project, Owned, Shapes
      <4>. QED
        BY <1>0, <2>2, <3>1, <4>1 DEF Carried, FiledFrom
    <3>2. CASE t # s
      BY <1>0, <1>3, <2>3, <3>2 DEF Project, Owned, Shapes, FiledFrom
    <3>. QED
      BY <3>1, <3>2
  <2>4. FiledFrom'
    BY <2>1, <2>3 DEF FiledFrom, Carried
  <2>. QED
    BY <1>0, <2>1, <2>4, GroundedKept, CallFromStep, ForeseenKept DEF Grounded
<1>4. ASSUME NEW w \in Worker, Resolve(w)
      PROVE  Grounded'
  <2>. DEFINE s == job[w].span
              S == IF Living(w) THEN Below(s) ELSE {}
              c == IF Living(w) THEN Nearest(s) ELSE None
  <2>1. s \in Span
    BY <1>0, <1>4 DEF Resolve, Owned, Jobs, JobOK, Busy
  <2>2. S \in SUBSET Span /\ Refile(S) /\ UNCHANGED <<pk, real, shared, torn, del>>
    BY <1>4, <2>1, BelowType DEF Resolve
  <2>3. job' = [job EXCEPT ![w].conv = c, ![w].at = 1]
    BY <1>4 DEF Resolve
  <2>4. c = None \/ Carried(s, c)
    BY <2>1, NearestCarried
  <2>5. \A v \in Worker : v # w => pc'[v] = pc[v] /\ job'[v] = job[v]
    BY <1>0, <1>4, <2>3 DEF Resolve, Goto, Owned, Shapes
  <2>. HIDE DEF S, c
  <2>6. job'[w].conv = c /\ job'[w].span = s
    BY <1>0, <1>4, <2>3 DEF Resolve, Owned, Shapes, Jobs, JobOK, Fields
  <2>7. c \in Conversation => (Carried(job[w].span, job[w].conv))'
    BY <2>2, <2>4, <2>6, NoneIsNone DEF Carried
  <2>8. CallFrom'
    BY <1>0, <2>2, <2>5, <2>6, <2>7, CallFromStep
  <2>. QED
    BY <1>0, <2>2, <2>8, RefileGrounded, ForeseenKept DEF Grounded
<1>5. ASSUME NEW w \in Worker, DeriveHook(w)
      PROVE  Grounded'
  <2>. DEFINE s == job[w].span
              g == Events[s][job[w].at][2]
              c == job[w].conv
              r == HookRow(g, s, c)
              new == IF Events[s][job[w].at][1] = "start" THEN HookStart(r, s, c)
                                                          ELSE HookEnd(r, s, c)
  <2>1. /\ UNCHANGED <<pk, real, shared, torn, filed, del, pc>> /\ pc[w] # "idle"
        /\ \A v \in Worker : v # w => job'[v] = job[v]
        /\ job'[w].span = s /\ job'[w].pk = job[w].pk /\ job'[w].conv = c
    BY <1>0, <1>5 DEF DeriveHook, Owned, Shapes, Jobs, JobOK, Fields
  <2>2. s \in Span /\ c \in Conv /\ Mentions(s, g)
    <3>1. s \in Span /\ c \in Conv /\ job[w].at \in Nat \ {0} /\ job[w].at <= Len(Events[s])
      BY <1>0, <1>5 DEF DeriveHook, Owned, Jobs, JobOK, Busy, Fields, Typed, Calls
    <3>2. Len(Events[s]) \in Nat
      BY <3>1, Plain
    <3>. QED
      BY <3>1, <3>2 DEF Mentions
  <2>3. hook[g] = NoRow => s \in real /\ Living(w)
    BY <1>0, <1>5, <2>1 DEF DeriveHook, Identified, Alive
  <2>4. hook' = [hook EXCEPT ![g] = new]
    BY <1>5, SMTT(30) DEF DeriveHook
  <2>5. g \in Hook =>
          /\ new.span = (IF hook[g] = NoRow THEN s ELSE hook[g].span)
          /\ new.conv = c \/ (hook[g] # NoRow /\ new.conv = hook[g].conv)
    <3>. SUFFICES ASSUME g \in Hook
                  PROVE  /\ new.span = (IF hook[g] = NoRow THEN s ELSE hook[g].span)
                         /\ new.conv = c \/ (hook[g] # NoRow /\ new.conv = hook[g].conv)
      OBVIOUS
    <3>1. r \in HookRecord
      BY <2>2, HookRowType DEF Typed
    <3>2. new.span = r.span /\ new.conv = Coalesce(r.conv, c)
      <4>. HIDE DEF r
      <4>. QED
        BY <3>1 DEF HookStart, HookEnd, HookRecord, Conv
    <3>3. hook[g] # NoRow => r = hook[g]
      BY DEF HookRow
    <3>4. hook[g] = NoRow => r.span = s /\ r.conv = c
      BY DEF HookRow, NoHook
    <3>. QED
      BY <3>2, <3>3, <3>4, SMTT(30) DEF Coalesce
  <2>. HIDE DEF new, r, g
  <2>6. \A h \in Hook : hook'[h] = IF h = g THEN new ELSE hook[h]
    BY <1>0, <2>4 DEF Owned, Shapes
  <2>7. HookOwned'
    BY <1>0, <2>1, <2>2, <2>3, <2>5, <2>6 DEF HookOwned
  <2>8. ASSUME NEW h \in Hook, Paired(h), hook'[h] # NoRow, hook'[h].span \notin shared,
               NEW x \in Conversation, hook'[h].conv = x
        PROVE  Carried(hook'[h].span, x)
    <3>1. CASE h # g
      BY <1>0, <2>6, <2>8, <3>1 DEF HookFrom
    <3>2. CASE h = g
      <4>1. hook'[h].span = s /\ s \in real
        BY <1>0, <2>2, <2>3, <2>5, <2>6, <2>8, <3>2, OneOwner DEF HookOwned, Owned, Shapes
      <4>2. CASE x = c
        <5>1. Living(w)
          BY <2>1, <2>8, <4>1, OnlyCallLives
        <5>. QED
          BY <1>0, <2>1, <4>1, <4>2, <5>1 DEF CallFrom
      <4>3. CASE hook[g] # NoRow /\ x = hook[g].conv
        BY <1>0, <2>5, <2>6, <2>8, <3>2, <4>3 DEF HookFrom
      <4>. QED
        BY <2>5, <2>6, <2>8, <3>2, <4>2, <4>3
    <3>. QED
      BY <3>1, <3>2
  <2>9. HookFrom'
    BY <2>1, <2>8 DEF HookFrom, Carried
  <2>. QED
    BY <1>0, <2>1, <2>7, <2>9, GroundedKept, CallFromStep, ForeseenKept DEF Grounded
<1>6. ASSUME NEW w \in Worker, Finish(w)
      PROVE  Grounded'
  <2>. DEFINE s == job[w].span
              S == IF Living(w) /\ Events[s] # <<>> THEN {s} ELSE {}
  <2>1. s \in Span
    BY <1>0, <1>6 DEF Finish, Owned, Jobs, JobOK, Busy
  <2>2. S \in SUBSET Span /\ Refile(S) /\ UNCHANGED <<pk, real, shared, torn, del>>
    BY <1>6, <2>1 DEF Finish
  <2>3. pc'[w] = "idle" /\ \A v \in Worker : v # w => pc'[v] = pc[v] /\ job'[v] = job[v]
    BY <1>0, <1>6 DEF Finish, Goto, Owned, Shapes
  <2>. HIDE DEF S
  <2>. QED
    BY <1>0, <2>2, <2>3, RefileGrounded, CallFromStep, ForeseenKept DEF Grounded
<1>7. ASSUME NEW w \in Worker, Fail(w)
      PROVE  Grounded'
  <2>1. /\ UNCHANGED <<pk, real, torn, filed, hook, del>> /\ shared \subseteq shared'
        /\ pc'[w] = "idle" /\ \A v \in Worker : v # w => pc'[v] = pc[v] /\ job'[v] = job[v]
    BY <1>0, <1>7 DEF Fail, Goto, rows, Owned, Shapes
  <2>. QED
    BY <1>0, <2>1, GroundedKept, CallFromStep, ForeseenKept DEF Grounded
<1>8. ASSUME NEW d \in Deleter, NEW c \in Conversation, CheckExists(d, c)
      PROVE  Grounded'
  <2>1. UNCHANGED <<pk, real, torn, shared, filed, hook, pc, job>>
    BY <1>8 DEF CheckExists, rows
  <2>2. \A e \in Deleter : del'[e].at = "purge" => del'[e] = del[e]
    BY <1>8 DEF CheckExists, Typed, Calls
  <2>3. Foreseen'
    BY <1>0, <2>1, <2>2 DEF Foreseen
  <2>. QED
    BY <1>0, <2>1, <2>3 DEF Grounded, FiledFrom, CallFrom, HookOwned, HookFrom, Carried, Living
<1>9. ASSUME NEW d \in Deleter, CollectTraces(d)
      PROVE  Grounded'
  <2>1. UNCHANGED <<pk, real, torn, shared, filed, hook, pc, job>>
    BY <1>9 DEF CollectTraces, rows
  <2>2. /\ \A e \in Deleter : e # d => del'[e] = del[e]
        /\ del'[d].conv = del[d].conv /\ del'[d].traces = TracesOf(del[d].conv)
        /\ del[d].conv \in Conversation
    BY <1>9 DEF CollectTraces, Typed, Calls, Deletions
  <2>. DEFINE c == del[d].conv
  <2>3. \A t \in real : ConvAttr[t] = c => TraceOf[t] \in TracesOf(c)
    BY <1>0 DEF TracesOf, Owned, Shapes
  <2>4. ASSUME NEW x \in TracesOf(c)
        PROVE  \E t \in Span : TraceOf[t] = x /\ ConvAttr[t] = c
    <3>1. PICK s \in Span : x = TraceOf[s] /\ ((s \in real /\ ConvAttr[s] = c) \/ filed[s] = c)
      BY <2>4 DEF TracesOf
    <3>2. CASE filed[s] = c
      BY <1>0, <2>2, <3>1, <3>2 DEF FiledFrom, Carried, Owned, Shapes
    <3>. QED
      BY <3>1, <3>2
  <2>5. Foreseen'
    BY <1>0, <2>1, <2>2, <2>3, <2>4 DEF Foreseen
  <2>. QED
    BY <1>0, <2>1, <2>5 DEF Grounded, FiledFrom, CallFrom, HookOwned, HookFrom, Carried, Living
<1>10. ASSUME NEW d \in Deleter, Purge(d)
       PROVE  Grounded'
  <2>1. UNCHANGED <<pc, job, torn, shared>> /\ del' = [del EXCEPT ![d] = NoDeletion]
    BY <1>10 DEF Purge
  <2>2. /\ \A s \in Span : filed'[s] # NoRow => filed'[s] = filed[s] /\ s \notin Gone(d)
        /\ \A h \in Hook : hook'[h] # NoRow => hook'[h] = hook[h] /\ hook[h].span \notin Gone(d)
        /\ \A s \in Span : s \in Gone(d) => pk'[s] = 0
    BY <1>10 DEF Purge
  <2>3. \A s \in Span : s \notin Gone(d) =>
          /\ pk'[s] = pk[s] /\ (s \in real <=> s \in real')
          /\ \A c : Carried(s, c) => Carried(s, c)'
    BY <1>0, <1>10, Surviving DEF Gone
  <2>4. FiledFrom'
    <3>1. ASSUME NEW s \in Span, NEW c \in Conversation, filed'[s] = c
          PROVE  Carried(s, c)'
      <4>1. Carried(s, c) /\ s \notin Gone(d)
        BY <1>0, <2>2, <3>1, NoneIsNone DEF FiledFrom
      <4>. QED
        BY <2>3, <4>1
    <3>. QED
      BY <3>1 DEF FiledFrom, Carried
  <2>5. CallFrom'
    <3>1. ASSUME NEW v \in Worker, NEW s, s = job[v].span, NEW c \in Conversation, c = job[v].conv,
                 pc[v] # "idle", pk'[s] = job[v].pk
          PROVE  Carried(s, c)'
      <4>1. s \in Span /\ job[v].pk # 0
        BY <1>0, <3>1 DEF Owned, Jobs, JobOK, Busy
      <4>2. s \notin Gone(d) /\ pk[s] = job[v].pk
        BY <2>2, <2>3, <3>1, <4>1
      <4>3. Carried(s, c)
        BY <1>0, <3>1, <4>2 DEF CallFrom, Living
      <4>. QED
        BY <2>3, <4>1, <4>2, <4>3
    <3>. QED
      BY <2>1, <3>1 DEF CallFrom, Carried, Living
  <2>6. HookOwned'
    BY <1>0, <2>2, <2>3 DEF HookOwned, Owned, Shapes
  <2>7. HookFrom'
    <3>1. ASSUME NEW h \in Hook, Paired(h), hook'[h] # NoRow, NEW s, s = hook[h].span,
                 s \notin shared, NEW c \in Conversation, c = hook[h].conv
          PROVE  Carried(s, c)'
      <4>1. s \in Span /\ s \notin Gone(d) /\ hook[h] # NoRow
        BY <1>0, <2>2, <3>1 DEF HookOwned, Owned, Shapes
      <4>2. Carried(s, c)
        BY <1>0, <3>1, <4>1 DEF HookFrom
      <4>. QED
        BY <2>3, <4>1, <4>2
    <3>. QED
      BY <2>1, <2>2, <3>1 DEF HookFrom, Carried
  <2>8. Foreseen'
    <3>1. \A e \in Deleter : del'[e].at = "purge" => del'[e] = del[e]
      BY <2>1 DEF NoDeletion, Typed, Calls
    <3>2. real' \subseteq real
      BY <1>10 DEF Purge
    <3>. QED
      BY <1>0, <2>1, <3>1, <3>2 DEF Foreseen
  <2>. QED
    BY <2>4, <2>5, <2>6, <2>7, <2>8 DEF Grounded
<1>11. CASE UNCHANGED vars
  <2>1. UNCHANGED <<pk, real, torn, shared, filed, hook, pc, job, del>>
    BY <1>11 DEF vars, rows
  <2>. QED
    BY <1>0, <2>1 DEF Grounded, FiledFrom, CallFrom, HookOwned, HookFrom, Foreseen, Carried, Living
<1>. QED
  BY <1>1, <1>2, <1>3, <1>4, <1>5, <1>6, <1>7, <1>8, <1>9, <1>10, <1>11 DEF Next, Step

-----------------------------------------------------------------------------
(***************************************************************************)
(* Projection rows.  A call that is past the projection has made the row;  *)
(* only a deletion takes it away, and where it leaves the span, one of the *)
(* trace had come after the deletion looked.                               *)
(***************************************************************************)
Projected == \A w \in Worker :
  pc[w] \in {"resolve", "session", "count", "derive"} /\ job[w].span \in real \ shared =>
    filed[job[w].span] # NoRow \/ Torn(job[w].span)

Whole == Projected /\ WholeOrTorn

LEMMA InitWhole == Init => Whole
BY DEF Init, Whole, Projected, WholeOrTorn

(* A conversation that is being deleted is in no trace that the deletion   *)
(* leaves, unless that is torn.                                            *)
LEMMA LeftIsTorn ==
  ASSUME Grounded, NEW d \in Deleter, Purge(d), NEW s \in Span, s \notin Gone(d),
         Carried(s, del[d].conv)
  PROVE  Torn(s)
<1>1. PICK t \in real : TraceOf[t] = TraceOf[s] /\ ConvAttr[t] = del[d].conv
  BY DEF Carried
<1>2. del[d].at = "purge" /\ TraceOf[s] \notin del[d].traces
  BY DEF Purge, Gone
<1>. QED
  BY <1>1, <1>2 DEF Grounded, Foreseen, Torn

PastProject == {"resolve", "session", "count", "derive"}

(* A step of a call that takes no row away.                                *)
LEMMA WholeKept ==
  ASSUME Owned, Whole, UNCHANGED real, torn \subseteq torn', shared \subseteq shared',
         \A s \in Span : filed[s] # NoRow => filed'[s] # NoRow,
         NEW w \in Worker, \A v \in Worker : v # w => pc'[v] = pc[v] /\ job'[v] = job[v],
         job'[w].span = job[w].span \/ job[w].span \in shared' \/ pc[w] = "derive",
         pc'[w] \in PastProject =>
           /\ job'[w].span = job[w].span
           /\ pc[w] \in PastProject \/ filed'[job[w].span] # NoRow
  PROVE  Whole'
<1>. USE DEF Whole
<1>1. \A s : Torn(s) => Torn(s)'
  BY DEF Torn
<1>2. ASSUME NEW s \in real, s \notin shared', \A v \in Worker : job'[v].span # s
      PROVE  filed'[s] # NoRow \/ Torn(s)'
  <2>1. s \in Span /\ s \notin shared
    BY <1>2 DEF Owned, Shapes
  <2>2. filed[s] # NoRow \/ Torn(s) \/ job[w].span = s
    BY <1>2, <2>1 DEF WholeOrTorn
  <2>3. CASE job[w].span = s
    BY <1>1, <1>2, <2>1, <2>3 DEF Projected
  <2>. QED
    BY <1>1, <2>1, <2>2, <2>3
<1>3. WholeOrTorn'
  BY <1>2 DEF WholeOrTorn
<1>4. ASSUME NEW v \in Worker, pc'[v] \in PastProject, NEW s, s = job'[v].span,
             s \in real \ shared'
      PROVE  filed'[s] # NoRow \/ Torn(s)'
  <2>1. s \in Span /\ s \notin shared /\ s = job[v].span
    BY <1>4 DEF Owned, Shapes
  <2>2. pc[v] \in PastProject \/ filed'[s] # NoRow
    BY <1>4, <2>1
  <2>. QED
    BY <1>1, <1>4, <2>1, <2>2 DEF Projected, PastProject
<1>5. Projected'
  BY <1>4 DEF Projected, PastProject
<1>. QED
  BY <1>3, <1>5

LEMMA TagRow ==
  ASSUME NEW S \in SUBSET Span, NEW s, NEW c
  PROVE  c # NoRow => Tag(S, s, c) # NoRow
BY NearestType, StoreAssumption DEF Tag, Conv

LEMMA NextWhole ==
  ASSUME Exact, Identified, Typed, Grounded, Whole, [Next]_vars
  PROVE  Whole'
<1>0. Owned
  BY DEF Exact
<1>1. ASSUME NEW w \in Worker, NEW s \in Span, Upsert(w, s)
      PROVE  Whole'
  <2>1. /\ real' = real \cup {s} /\ shared \subseteq shared' /\ torn \subseteq torn'
        /\ UNCHANGED filed
        /\ \A v \in Worker : v # w => pc'[v] = pc[v] /\ job'[v] = job[v]
        /\ job'[w].span = s /\ pc'[w] = "clear" /\ job[w].span \notin Span
        /\ \A v \in Worker : job[v].span = s => s \in shared'
    BY <1>0, <1>1, Plain DEF Upsert, Goto, NoJob, Owned, Shapes, Exact, Steps
  <2>2. \A t : Torn(t) => Torn(t)'
    BY <2>1 DEF Torn
  <2>3. ASSUME NEW t \in real'
        PROVE  \/ filed'[t] # NoRow \/ Torn(t)' \/ t \in shared'
               \/ \E v \in Worker : job'[v].span = t
    <3>1. CASE t = s
      BY <2>1, <3>1
    <3>2. CASE t # s
      <4>1. t \in real /\ t \in Span
        BY <1>0, <2>1, <3>2 DEF Owned, Shapes
      <4>. QED
        BY <2>1, <2>2, <4>1 DEF Whole, WholeOrTorn
    <3>. QED
      BY <3>1, <3>2
  <2>4. ASSUME NEW v \in Worker, pc'[v] \in PastProject, NEW t, t = job'[v].span,
               t \in real' \ shared'
        PROVE  filed'[t] # NoRow \/ Torn(t)'
    <3>1. v # w /\ t = job[v].span /\ pc'[v] = pc[v]
      BY <2>1, <2>4 DEF PastProject
    <3>2. t \in real \ shared
      BY <2>1, <2>4, <3>1
    <3>. QED
      BY <2>1, <2>2, <2>4, <3>1, <3>2 DEF Whole, Projected, PastProject
  <2>5. WholeOrTorn'
    BY <2>3 DEF WholeOrTorn
  <2>6. Projected'
    BY <2>4 DEF Projected, PastProject
  <2>. QED
    BY <2>5, <2>6 DEF Whole
<1>2. ASSUME NEW w \in Worker,
             \/ ClearEvents(w) \/ InsertEvent(w) \/ EnsurePlaceholder(w) \/ UpsertSession(w)
             \/ RecountSession(w) \/ DeriveHook(w) \/ DeriveOther(w)
      PROVE  Whole'
  <2>1. UNCHANGED <<real, torn, shared, filed>>
    BY <1>2 DEF ClearEvents, InsertEvent, EnsurePlaceholder, UpsertSession, RecountSession,
                DeriveHook, DeriveOther
  <2>2. \A v \in Worker : v # w => pc'[v] = pc[v] /\ job'[v] = job[v]
    BY <1>0, <1>2, SMTT(30) DEF ClearEvents, InsertEvent, EnsurePlaceholder, UpsertSession,
                RecountSession, DeriveHook, DeriveOther, Goto, Owned, Shapes
  <2>3. job'[w].span = job[w].span /\ (pc'[w] \in PastProject => pc[w] \in PastProject)
    <3>1. pc[w] # "idle"
      BY <1>2 DEF ClearEvents, InsertEvent, EnsurePlaceholder, UpsertSession, RecountSession,
                  DeriveHook, DeriveOther
    <3>. QED
      BY <1>0, <1>2, <3>1, SMTT(30) DEF ClearEvents, InsertEvent, EnsurePlaceholder, UpsertSession,
                RecountSession, DeriveHook, DeriveOther, Goto, Owned, Shapes, Jobs, JobOK,
                Fields, PastProject
  <2>. QED
    BY <1>0, <2>1, <2>2, <2>3, WholeKept, Zenon
<1>3. ASSUME NEW w \in Worker, Project(w)
      PROVE  Whole'
  <2>1. /\ UNCHANGED <<real, torn, shared, job>> /\ job[w].span \in Span
        /\ \A v \in Worker : v # w => pc'[v] = pc[v]
    BY <1>0, <1>3 DEF Project, Goto, Owned, Shapes, Jobs, JobOK, Busy
  <2>2. filed'[job[w].span] # NoRow /\ \A s \in Span : filed[s] # NoRow => filed'[s] # NoRow
    <3>1. \A s \in Span : ConvAttr[s] # NoRow
      BY StoreAssumption
    <3>. QED
      BY <1>0, <1>3, <2>1, <3>1 DEF Project, Owned, Shapes
  <2>. QED
    BY <1>0, <2>1, <2>2, WholeKept
<1>4. ASSUME NEW w \in Worker, NEW S \in SUBSET Span, Refile(S),
             Resolve(w) \/ Finish(w)
      PROVE  Whole'
  <2>1. UNCHANGED <<real, torn, shared>>
    BY <1>4 DEF Resolve, Finish
  <2>2. \A v \in Worker : v # w => pc'[v] = pc[v] /\ job'[v] = job[v]
    BY <1>0, <1>4 DEF Resolve, Finish, Goto, Owned, Shapes
  <2>3. \A s \in Span : filed[s] # NoRow => filed'[s] # NoRow
    BY <1>4, RefileTags, TagRow
  <2>4. \/ job'[w].span = job[w].span /\ pc[w] \in PastProject
        \/ pc[w] = "derive" /\ pc'[w] \notin PastProject
    BY <1>0, <1>4 DEF Resolve, Finish, Goto, Owned, Shapes, Jobs, JobOK, Fields, PastProject
  <2>. QED
    BY <1>0, <2>1, <2>2, <2>3, <2>4, WholeKept
<1>5. ASSUME NEW w \in Worker, Resolve(w) \/ Finish(w)
      PROVE  Whole'
  <2>1. job[w].span \in Span
    BY <1>0, <1>5 DEF Resolve, Finish, Owned, Jobs, JobOK, Busy
  <2>2. \E S \in SUBSET Span : Refile(S)
    BY <1>5, <2>1, BelowType DEF Resolve, Finish
  <2>. QED
    BY <1>4, <1>5, <2>2
<1>6. ASSUME NEW w \in Worker, Fail(w)
      PROVE  Whole'
  <2>1. /\ UNCHANGED <<real, torn, filed>> /\ shared' = shared \cup {job[w].span}
        /\ pc'[w] = "idle" /\ \A v \in Worker : v # w => pc'[v] = pc[v] /\ job'[v] = job[v]
    BY <1>0, <1>6 DEF Fail, Goto, rows, Owned, Shapes
  <2>. QED
    BY <1>0, <2>1, WholeKept DEF PastProject
<1>7. ASSUME NEW d \in Deleter, Purge(d)
      PROVE  Whole'
  <2>1. UNCHANGED <<pc, job, torn, shared>> /\ real' = real \ Gone(d)
    BY <1>7 DEF Purge
  <2>2. ASSUME NEW s \in real', filed[s] # NoRow, filed'[s] = NoRow
        PROVE  Torn(s)
    <3>1. s \in Span /\ s \notin Gone(d)
      BY <1>0, <2>1 DEF Owned, Shapes
    <3>2. filed[s] = del[d].conv
      BY <1>7, <2>2, <3>1 DEF Purge
    <3>3. del[d].conv \in Conversation
      BY <1>7 DEF Purge, Typed, Calls
    <3>. QED
      BY <1>7, <3>1, <3>2, <3>3, LeftIsTorn DEF Grounded, FiledFrom
  <2>3. WholeOrTorn'
    BY <2>1, <2>2 DEF Whole, WholeOrTorn, Torn
  <2>4. Projected'
    BY <2>1, <2>2 DEF Whole, Projected, Torn
  <2>. QED
    BY <2>3, <2>4 DEF Whole
<1>8. ASSUME UNCHANGED <<real, torn, shared, filed, pc, job>>
      PROVE  Whole'
  BY <1>8 DEF Whole, Projected, WholeOrTorn, Torn
<1>9. ASSUME NEW d \in Deleter,
             (\E c \in Conversation : CheckExists(d, c)) \/ CollectTraces(d)
      PROVE  Whole'
  <2>1. UNCHANGED <<real, torn, shared, filed, pc, job>>
    BY <1>9 DEF CheckExists, CollectTraces, rows
  <2>. QED
    BY <1>8, <2>1
<1>10. CASE UNCHANGED vars
  BY <1>8, <1>10 DEF vars, rows
<1>. QED
  BY <1>1, <1>2, <1>3, <1>5, <1>6, <1>7, <1>9, <1>10 DEF Next, Step

-----------------------------------------------------------------------------
(***************************************************************************)
(* Durations.  A hook's end finds the row that the start has made, or the  *)
(* row has been deleted in between and its span is torn.                   *)
(***************************************************************************)
Closed == \A h \in Hook :
  Paired(h) /\ hook[h] # NoRow /\ hook[h].span \notin shared /\ ~Torn(hook[h].span)
    /\ hook[h].end => hook[h].start /\ hook[h].duration

(* The starts that a call has behind it.                                   *)
Begun == \A w \in Worker :
  LET s == job[w].span IN
  pc[w] = "derive" /\ s \in real \ shared /\ ~Torn(s) =>
    \A h \in Hook : Paired(h) => \A i \in 1 .. Len(Events[s]) :
      i < job[w].at /\ Events[s][i] = <<"start", h>> => hook[h] # NoRow /\ hook[h].start

Timed == Closed /\ Begun

LEMMA InitTimed == Init => Timed
BY DEF Init, Timed, Closed, Begun

LEMMA StartFlags ==
  ASSUME NEW r \in HookRecord, NEW s, NEW c, NEW q, q = HookStart(r, s, c)
  PROVE  q.span = r.span /\ q.start /\ (q.end <=> r.end) /\ (q.duration <=> r.duration)
BY DEF HookStart, HookRecord

LEMMA EndFlags ==
  ASSUME NEW r \in HookRecord, NEW s, NEW c, NEW q, q = HookEnd(r, s, c)
  PROVE  q.span = r.span /\ (q.start <=> r.start) /\ q.end /\ (q.duration <=> r.start)
BY DEF HookEnd, HookRecord

LEMMA RefiledFlags ==
  ASSUME NEW r \in HookRecord, NEW c, NEW q, q = [r EXCEPT !.conv = c]
  PROVE  q.span = r.span /\ (q.start <=> r.start) /\ (q.end <=> r.end)
         /\ (q.duration <=> r.duration)
BY DEF HookRecord

(* A row that an insert starts from has no end yet.                        *)
LEMMA NewFlags ==
  ASSUME NEW h, hook[h] = NoRow, NEW s, NEW c, NEW r, r = HookRow(h, s, c)
  PROVE  r.span = s /\ ~r.end
<1>1. r = [NoHook EXCEPT !.span = s, !.conv = c]
  BY DEF HookRow
<1>. QED
  BY <1>1 DEF NoHook

LEMMA Pairs == \A s \in Span : \A i \in 1 .. Len(Events[s]) :
  Events[s][i] = <<Events[s][i][1], Events[s][i][2]>>
BY Plain

(* A step that leaves the flags of all hooks alone and passes no start.    *)
LEMMA TimedKept ==
  ASSUME Owned, Timed, UNCHANGED real, torn \subseteq torn', shared \subseteq shared',
         \A h \in Hook : hook[h] = NoRow <=> hook'[h] = NoRow,
         \A h \in Hook : hook[h] # NoRow =>
           /\ hook'[h].span = hook[h].span /\ (hook'[h].start <=> hook[h].start)
           /\ (hook'[h].end <=> hook[h].end) /\ (hook'[h].duration <=> hook[h].duration),
         NEW w \in Worker, \A v \in Worker : v # w => pc'[v] = pc[v] /\ job'[v] = job[v],
         pc'[w] = "derive" => job'[w].span = job[w].span,
         pc'[w] = "derive" => \A i \in 1 .. Len(Events[job[w].span]) :
           i < job'[w].at /\ Events[job[w].span][i][1] = "start" =>
             pc[w] = "derive" /\ i < job[w].at
  PROVE  Timed'
<1>. USE DEF Timed
<1>1. \A s : Torn(s) => Torn(s)'
  BY DEF Torn
<1>2. ASSUME NEW h \in Hook, Paired(h), hook'[h] # NoRow, NEW s, s = hook'[h].span,
             s \notin shared', ~Torn(s)', hook'[h].end
      PROVE  hook'[h].start /\ hook'[h].duration
  <2>1. hook[h] # NoRow /\ s = hook[h].span /\ hook[h].end
    BY <1>2
  <2>2. s \notin shared /\ ~Torn(s)
    BY <1>1, <1>2
  <2>. QED
    BY <1>2, <2>1, <2>2 DEF Closed
<1>3. Closed'
  BY <1>2 DEF Closed, Torn
<1>4. ASSUME NEW v \in Worker, pc'[v] = "derive", NEW s, s = job'[v].span, s \in real \ shared',
             ~Torn(s)', NEW h \in Hook, Paired(h), NEW i \in 1 .. Len(Events[s]),
             i < job'[v].at, Events[s][i] = <<"start", h>>
      PROVE  hook'[h] # NoRow /\ hook'[h].start
  <2>1. s = job[v].span /\ s \in real \ shared /\ ~Torn(s)
    BY <1>1, <1>4
  <2>2. pc[v] = "derive" /\ i < job[v].at
    BY <1>4, <2>1
  <2>3. hook[h] # NoRow /\ hook[h].start
    BY <1>4, <2>1, <2>2 DEF Begun
  <2>. QED
    BY <2>3
<1>5. Begun'
  BY <1>4 DEF Begun, Torn
<1>. QED
  BY <1>3, <1>5

LEMMA NextTimed ==
  ASSUME Exact, Identified, Typed, Grounded, Timed, [Next]_vars
  PROVE  Timed'
<1>0. Owned
  BY DEF Exact
<1>1. ASSUME NEW w \in Worker, NEW s \in Span, Upsert(w, s)
      PROVE  Timed'
  <2>1. /\ real' = real \cup {s} /\ shared \subseteq shared' /\ torn \subseteq torn'
        /\ UNCHANGED hook
        /\ \A v \in Worker : v # w => pc'[v] = pc[v] /\ job'[v] = job[v]
        /\ pc'[w] = "clear" /\ \A v \in Worker : job[v].span = s => s \in shared'
    BY <1>0, <1>1 DEF Upsert, Goto, Owned, Shapes
  <2>2. \A t : Torn(t) => Torn(t)'
    BY <2>1 DEF Torn
  <2>3. Closed'
    BY <2>1, <2>2 DEF Timed, Closed, Torn
  <2>4. ASSUME NEW v \in Worker, pc'[v] = "derive", NEW t, t = job'[v].span,
               t \in real' \ shared', ~Torn(t)', NEW h \in Hook, Paired(h),
               NEW i \in 1 .. Len(Events[t]), i < job'[v].at, Events[t][i] = <<"start", h>>
        PROVE  hook[h] # NoRow /\ hook[h].start
    <3>1. pc[v] = "derive" /\ job'[v] = job[v] /\ t \in real \ shared /\ ~Torn(t)
      BY <2>1, <2>2, <2>4
    <3>. QED
      BY <2>4, <3>1 DEF Timed, Begun
  <2>5. Begun'
    BY <2>1, <2>4 DEF Begun, Torn
  <2>. QED
    BY <2>3, <2>5 DEF Timed
<1>2. ASSUME NEW w \in Worker,
             \/ ClearEvents(w) \/ InsertEvent(w) \/ EnsurePlaceholder(w) \/ UpsertSession(w)
             \/ RecountSession(w) \/ Project(w) \/ Fail(w)
      PROVE  Timed'
  <2>1. UNCHANGED <<real, torn, hook>> /\ shared \subseteq shared'
    BY <1>2 DEF ClearEvents, InsertEvent, EnsurePlaceholder, UpsertSession, RecountSession,
                Project, Fail, rows
  <2>2. \A v \in Worker : v # w => pc'[v] = pc[v] /\ job'[v] = job[v]
    BY <1>0, <1>2 DEF ClearEvents, InsertEvent, EnsurePlaceholder, UpsertSession,
                RecountSession, Project, Fail, Goto, Owned, Shapes
  <2>3. pc'[w] = "derive" => job' = job /\ job[w].at = 1
    BY <1>0, <1>2 DEF ClearEvents, InsertEvent, EnsurePlaceholder, UpsertSession, RecountSession,
                Project, Fail, Goto, Owned, Shapes, Typed, Calls
  <2>. QED
    BY <1>0, <2>1, <2>2, <2>3, TimedKept
<1>3. ASSUME NEW w \in Worker, NEW S \in SUBSET Span, Refile(S), Resolve(w) \/ Finish(w)
      PROVE  Timed'
  <2>1. UNCHANGED <<real, torn, shared>>
    BY <1>3 DEF Resolve, Finish
  <2>2. \A v \in Worker : v # w => pc'[v] = pc[v] /\ job'[v] = job[v]
    BY <1>0, <1>3 DEF Resolve, Finish, Goto, Owned, Shapes
  <2>3. pc'[w] = "derive" => job'[w].span = job[w].span /\ job'[w].at = 1
    BY <1>0, <1>3 DEF Resolve, Finish, Goto, Owned, Shapes, Jobs, JobOK, Fields
  <2>4. ASSUME NEW h \in Hook, hook[h] # NoRow
        PROVE  /\ hook'[h] # NoRow
               /\ hook'[h].span = hook[h].span /\ (hook'[h].start <=> hook[h].start)
               /\ (hook'[h].end <=> hook[h].end) /\ (hook'[h].duration <=> hook[h].duration)
    <3>1. hook[h] \in HookRecord
      BY <2>4 DEF Typed, Tables, OrNoRow
    <3>. DEFINE c == Tag(S, hook[h].span, hook[h].conv)
    <3>2. hook'[h] = [hook[h] EXCEPT !.conv = c]
      BY <1>3, <2>4, RefileTags
    <3>3. c \in Conv
      BY <3>1, TagType DEF HookRecord, Conv
    <3>. HIDE DEF c
    <3>. QED
      BY <3>1, <3>2, <3>3, RefiledHook, RefiledFlags, NoneIsNone
  <2>5. \A h \in Hook : hook[h] = NoRow => hook'[h] = NoRow
    BY <1>3, RefileTags
  <2>. QED
    BY <1>0, <2>1, <2>2, <2>3, <2>4, <2>5, TimedKept
<1>4. ASSUME NEW w \in Worker, Resolve(w) \/ Finish(w)
      PROVE  Timed'
  <2>1. job[w].span \in Span
    BY <1>0, <1>4 DEF Resolve, Finish, Owned, Jobs, JobOK, Busy
  <2>2. \E S \in SUBSET Span : Refile(S)
    BY <1>4, <2>1, BelowType DEF Resolve, Finish
  <2>. QED
    BY <1>3, <1>4, <2>2
<1>5. ASSUME NEW w \in Worker, DeriveOther(w)
      PROVE  Timed'
  <2>1. UNCHANGED <<real, torn, shared, hook, pc>> /\ pc[w] = "derive"
        /\ \A v \in Worker : v # w => job'[v] = job[v]
    BY <1>0, <1>5 DEF DeriveOther, Owned, Shapes
  <2>2. /\ job'[w].span = job[w].span /\ job'[w].at = job[w].at + 1 /\ job[w].at \in Nat
        /\ job[w].span \in Span
    BY <1>0, <1>5 DEF DeriveOther, Owned, Shapes, Jobs, JobOK, Fields, Busy
  <2>3. Events[job[w].span][job[w].at][1] # "start"
    BY <1>5 DEF DeriveOther
  <2>4. \A i \in 1 .. Len(Events[job[w].span]) :
          i < job'[w].at /\ Events[job[w].span][i][1] = "start" => i < job[w].at
    <3>1. \A i \in Nat : i < job'[w].at => i < job[w].at \/ i = job[w].at
      BY <2>2
    <3>2. Len(Events[job[w].span]) \in Nat
      BY <2>2, Plain
    <3>. QED
      BY <2>3, <3>1, <3>2
  <2>. QED
    BY <1>0, <2>1, <2>2, <2>4, TimedKept
<1>6. ASSUME NEW w \in Worker, DeriveHook(w)
      PROVE  Timed'
  <2>. DEFINE s == job[w].span
              e == Events[s][job[w].at]
              g == e[2]
              c == job[w].conv
              r == HookRow(g, s, c)
              new == IF e[1] = "start" THEN HookStart(r, s, c) ELSE HookEnd(r, s, c)
  <2>1. /\ UNCHANGED <<pk, real, shared, torn, pc>> /\ pc[w] = "derive"
        /\ \A v \in Worker : v # w => job'[v] = job[v]
        /\ job'[w].span = s /\ job'[w].at = job[w].at + 1
    BY <1>0, <1>6 DEF DeriveHook, Owned, Shapes, Jobs, JobOK, Fields
  <2>2. s \in Span /\ c \in Conv /\ job[w].at \in 1 .. Len(Events[s]) /\ Len(Events[s]) \in Nat
    <3>1. s \in Span /\ c \in Conv /\ job[w].at \in Nat \ {0} /\ job[w].at <= Len(Events[s])
      BY <1>0, <1>6 DEF DeriveHook, Owned, Jobs, JobOK, Busy, Fields, Typed, Calls
    <3>. QED
      BY <3>1, Plain
  <2>3. Mentions(s, g)
    BY <2>2 DEF Mentions
  <2>4. hook[g] = NoRow => s \in real
    BY <1>0, <1>6, <2>1 DEF DeriveHook, Identified, Alive
  <2>5. hook' = [hook EXCEPT ![g] = new] /\ e[1] \in {"start", "end"} /\ e = <<e[1], g>>
    BY <1>6, <2>2, Pairs DEF DeriveHook
  <2>6. ASSUME g \in Hook
        PROVE  /\ r \in HookRecord /\ new \in HookRecord /\ new.span = r.span
               /\ hook[g] # NoRow => r = hook[g]
               /\ hook[g] = NoRow => r.span = s /\ ~r.end
               /\ (r.start => new.start)
               /\ e[1] = "start" => new.start /\ (new.end <=> r.end) /\ (new.duration <=> r.duration)
               /\ e[1] # "start" => (new.start <=> r.start) /\ new.end /\ (new.duration <=> r.start)
    <3>1. r \in HookRecord /\ new \in HookRecord
      BY <2>2, <2>6, HookRowType DEF Typed
    <3>2. hook[g] # NoRow => r = hook[g]
      BY DEF HookRow
    <3>3. hook[g] = NoRow => r.span = s /\ ~r.end
      BY NewFlags
    <3>. HIDE DEF r, s, c, e, g
    <3>4. CASE e[1] = "start"
      BY <3>1, <3>2, <3>3, <3>4, StartFlags
    <3>5. CASE e[1] # "start"
      BY <3>1, <3>2, <3>3, <3>5, EndFlags
    <3>. QED
      BY <3>4, <3>5
  <2>. HIDE DEF new, r, g, e
  <2>7. \A h \in Hook : hook'[h] = IF h = g THEN new ELSE hook[h]
    BY <1>0, <2>5 DEF Owned, Shapes
  <2>8. ASSUME g \in Hook, Paired(g)
        PROVE  new.span = s /\ s \in real
    BY <1>0, <2>2, <2>3, <2>4, <2>6, <2>8, OneOwner DEF Grounded, HookOwned, Owned, Shapes
  <2>9. ASSUME g \in Hook, Paired(g), s \notin shared, ~Torn(s), new.end
        PROVE  new.start /\ new.duration
    <3>1. CASE e[1] = "start"
      <4>1. hook[g] # NoRow /\ r = hook[g] /\ hook[g].end
        BY <2>6, <2>9, <3>1
      <4>2. hook[g].span = s
        BY <2>6, <2>8, <2>9, <4>1
      <4>3. hook[g].duration
        BY <2>9, <4>1, <4>2 DEF Timed, Closed
      <4>. QED
        BY <2>6, <2>9, <3>1, <4>1, <4>3
    <3>2. CASE e[1] # "start"
      <4>1. e = <<"end", g>>
        BY <2>5, <3>2
      <4>2. PICK i \in 1 .. Len(Events[s]) : i < job[w].at /\ Events[s][i] = <<"start", g>>
        <5>1. PICK o \in Span :
                /\ \A t \in Span : \A i \in 1 .. Len(Events[t]) : Events[t][i][2] = g => t = o
                /\ \A j \in 1 .. Len(Events[o]) : Events[o][j] = <<"end", g>> =>
                     \E i \in 1 .. Len(Events[o]) : i < j /\ Events[o][i] = <<"start", g>>
          BY <2>9 DEF Paired
        <5>2. o = s
          BY <2>2, <2>3, <5>1 DEF Mentions
        <5>3. Events[s][job[w].at] = <<"end", g>>
          BY <4>1 DEF e
        <5>. QED
          BY <2>2, <5>1, <5>2, <5>3
      <4>3. hook[g] # NoRow /\ hook[g].start
        BY <2>1, <2>8, <2>9, <4>2 DEF Timed, Begun
      <4>. QED
        BY <2>6, <2>9, <3>2, <4>3
    <3>. QED
      BY <3>1, <3>2
  <2>10. ASSUME NEW h \in Hook, Paired(h), hook'[h] # NoRow, hook'[h].span \notin shared,
                ~Torn(hook'[h].span), hook'[h].end
         PROVE  hook'[h].start /\ hook'[h].duration
    <3>1. CASE h = g
      BY <2>7, <2>8, <2>9, <2>10, <3>1
    <3>2. CASE h # g
      BY <2>7, <2>10, <3>2 DEF Timed, Closed
    <3>. QED
      BY <3>1, <3>2
  <2>11. Closed'
    BY <2>1, <2>10 DEF Closed, Torn
  <2>12. \A h \in Hook : hook[h] # NoRow /\ hook[h].start => hook'[h] # NoRow /\ hook'[h].start
    BY <2>6, <2>7, NoneIsNone
  <2>13. ASSUME NEW v \in Worker, pc[v] = "derive", NEW t, t = job[v].span, t \in real \ shared,
                ~Torn(t), NEW h \in Hook, Paired(h), NEW i \in 1 .. Len(Events[t]),
                i < job'[v].at, Events[t][i] = <<"start", h>>
         PROVE  hook'[h] # NoRow /\ hook'[h].start
    <3>1. CASE i < job[v].at
      <4>1. hook[h] # NoRow /\ hook[h].start
        BY <2>13, <3>1 DEF Timed, Begun
      <4>. QED
        BY <2>12, <4>1
    <3>2. CASE ~(i < job[v].at)
      <4>1. v = w
        BY <2>1, <2>13, <3>2
      <4>2. i = job[w].at
        BY <2>1, <2>2, <2>13, <3>2, <4>1
      <4>3. g = h /\ e[1] = "start"
        BY <2>13, <4>1, <4>2 DEF e, g
      <4>. QED
        BY <2>6, <2>7, <4>3, NoneIsNone
    <3>. QED
      BY <3>1, <3>2
  <2>14. \A v \in Worker : job'[v].span = job[v].span
    BY <2>1
  <2>15. Begun'
    BY <2>1, <2>13, <2>14 DEF Begun, Torn
  <2>. QED
    BY <2>11, <2>15 DEF Timed
<1>7. ASSUME NEW d \in Deleter, Purge(d)
      PROVE  Timed'
  <2>1. UNCHANGED <<pc, job, torn, shared>> /\ real' = real \ Gone(d)
    BY <1>7 DEF Purge
  <2>2. \A h \in Hook : hook'[h] # NoRow => hook'[h] = hook[h]
    BY <1>7 DEF Purge
  <2>3. Closed'
    BY <2>1, <2>2 DEF Timed, Closed, Torn
  <2>4. ASSUME NEW v \in Worker, pc[v] = "derive", NEW s, s = job[v].span, s \in real' \ shared,
               ~Torn(s), NEW h \in Hook, Paired(h), NEW i \in 1 .. Len(Events[s]),
               i < job[v].at, Events[s][i] = <<"start", h>>
        PROVE  hook'[h] # NoRow /\ hook'[h].start
    <3>1. s \in real /\ s \notin Gone(d) /\ s \in Span
      BY <1>0, <2>1, <2>4 DEF Owned, Shapes
    <3>2. hook[h] # NoRow /\ hook[h].start
      BY <2>4, <3>1 DEF Timed, Begun
    <3>3. hook[h].span = s
      <4>1. Mentions(s, h)
        BY <2>4 DEF Mentions
      <4>. QED
        BY <1>0, <2>4, <3>1, <3>2, <4>1, OneOwner DEF Grounded, HookOwned, Owned, Shapes
    <3>4. hook[h].conv # del[d].conv
      <4>1. SUFFICES ASSUME hook[h].conv = del[d].conv PROVE FALSE
        OBVIOUS
      <4>2. del[d].conv \in Conversation
        BY <1>7 DEF Purge, Typed, Calls
      <4>3. Carried(s, del[d].conv)
        BY <2>4, <3>2, <3>3, <4>1, <4>2 DEF Grounded, HookFrom
      <4>. QED
        BY <1>7, <2>4, <3>1, <4>3, LeftIsTorn
    <3>5. hook'[h] = hook[h]
      BY <1>7, <3>1, <3>2, <3>3, <3>4 DEF Purge
    <3>. QED
      BY <3>2, <3>5
  <2>5. Begun'
    BY <2>1, <2>4 DEF Begun, Torn
  <2>. QED
    BY <2>3, <2>5 DEF Timed
<1>8. ASSUME UNCHANGED <<real, torn, shared, hook, pc, job>>
      PROVE  Timed'
  BY <1>8 DEF Timed, Closed, Begun, Torn
<1>9. ASSUME NEW d \in Deleter,
             (\E c \in Conversation : CheckExists(d, c)) \/ CollectTraces(d)
      PROVE  Timed'
  <2>1. UNCHANGED <<real, torn, shared, hook, pc, job>>
    BY <1>9 DEF CheckExists, CollectTraces, rows
  <2>. QED
    BY <1>8, <2>1
<1>10. CASE UNCHANGED vars
  BY <1>8, <1>10 DEF vars, rows
<1>. QED
  BY <1>1, <1>2, <1>4, <1>5, <1>6, <1>7, <1>9, <1>10 DEF Next, Step

-----------------------------------------------------------------------------
(***************************************************************************)
(* The list of sessions.  The call for a span that carries a conversation  *)
(* makes the session's row, unless it is overtaken by another call on the  *)
(* span or by a deletion.                                                  *)
(***************************************************************************)
Due(w, t) ==
  /\ job[w].span = t
  /\ \/ pc[w] \in {"clear", "event", "project", "resolve"}
     \/ pc[w] = "session" /\ job[w].conv = ConvAttr[t]

Listing == \A t \in real \ shared : ConvAttr[t] \in Conversation =>
  session[ConvAttr[t]] # NoRow \/ Torn(t) \/ \E w \in Worker : Due(w, t)

LEMMA InitListing == Init => Listing
BY DEF Init, Listing

(* A step of one call that takes no session away.                          *)
LEMMA ListingKept ==
  ASSUME Listing, torn \subseteq torn', shared \subseteq shared', UNCHANGED real,
         \A c \in Conversation : session[c] # NoRow => session'[c] # NoRow,
         NEW w \in Worker, \A v \in Worker : v # w => pc'[v] = pc[v] /\ job'[v] = job[v],
         \A t \in real \ shared' : Due(w, t) /\ ConvAttr[t] \in Conversation =>
           Due(w, t)' \/ session'[ConvAttr[t]] # NoRow
  PROVE  Listing'
<1>1. \A t : Torn(t) => Torn(t)'
  BY DEF Torn
<1>2. \A v \in Worker : \A t : v # w /\ Due(v, t) => Due(v, t)'
  BY DEF Due
<1>. QED
  BY <1>1, <1>2 DEF Listing

LEMMA NextListing ==
  ASSUME Exact, Identified, Typed, Grounded, Listing, [Next]_vars
  PROVE  Listing'
<1>0. Owned
  BY DEF Exact
<1>1. ASSUME NEW w \in Worker, NEW s \in Span, Upsert(w, s)
      PROVE  Listing'
  <2>1. /\ real' = real \cup {s} /\ shared \subseteq shared' /\ torn \subseteq torn'
        /\ UNCHANGED session
        /\ \A v \in Worker : v # w => pc'[v] = pc[v] /\ job'[v] = job[v]
        /\ job'[w].span = s /\ pc'[w] = "clear" /\ pc[w] = "idle"
    BY <1>0, <1>1 DEF Upsert, Goto, NoJob, Owned, Shapes
  <2>2. \A t : Torn(t) => Torn(t)'
    BY <2>1 DEF Torn
  <2>3. \A v \in Worker : \A t : Due(v, t) => Due(v, t)'
    BY <2>1 DEF Due
  <2>4. Due(w, s)'
    BY <2>1 DEF Due
  <2>. QED
    BY <2>1, <2>2, <2>3, <2>4 DEF Listing
<1>2. ASSUME NEW w \in Worker,
             \/ ClearEvents(w) \/ InsertEvent(w) \/ EnsurePlaceholder(w) \/ Project(w)
             \/ DeriveHook(w) \/ DeriveOther(w) \/ Finish(w) \/ Fail(w)
      PROVE  Listing'
  <2>1. UNCHANGED <<real, torn, session>> /\ shared \subseteq shared'
    BY <1>2 DEF ClearEvents, InsertEvent, EnsurePlaceholder, Project, DeriveHook, DeriveOther,
                Finish, Fail, rows
  <2>2. \A v \in Worker : v # w => pc'[v] = pc[v] /\ job'[v] = job[v]
    BY <1>0, <1>2 DEF ClearEvents, InsertEvent, EnsurePlaceholder, Project, DeriveHook,
                DeriveOther, Finish, Fail, Goto, Owned, Shapes
  <2>3. CASE ClearEvents(w) \/ InsertEvent(w) \/ EnsurePlaceholder(w) \/ Project(w)
    <3>1. pc'[w] \in {"event", "project", "resolve"} /\ job'[w].span = job[w].span
      BY <1>0, <2>3 DEF ClearEvents, InsertEvent, EnsurePlaceholder, Project, Goto, Owned,
                Shapes, Jobs, JobOK, Fields
    <3>. QED
      BY <2>1, <2>2, <3>1, ListingKept DEF Due
  <2>4. CASE DeriveHook(w) \/ DeriveOther(w) \/ Finish(w)
    <3>1. pc[w] = "derive"
      BY <2>4 DEF DeriveHook, DeriveOther, Finish
    <3>. QED
      BY <2>1, <2>2, <3>1, ListingKept, SMTT(30) DEF Due
  <2>5. CASE Fail(w)
    <3>1. job[w].span \in shared'
      BY <2>5 DEF Fail
    <3>. QED
      BY <2>1, <2>2, <3>1, ListingKept DEF Due
  <2>. QED
    BY <1>2, <2>3, <2>4, <2>5, Zenon
<1>3. ASSUME NEW w \in Worker, Resolve(w)
      PROVE  Listing'
  <2>. DEFINE s == job[w].span
              c == IF Living(w) THEN Nearest(s) ELSE None
  <2>1. /\ UNCHANGED <<real, torn, shared, session>> /\ s \in Span
        /\ \A v \in Worker : v # w => pc'[v] = pc[v] /\ job'[v] = job[v]
        /\ job' = [job EXCEPT ![w].conv = c, ![w].at = 1]
        /\ pc' = [pc EXCEPT ![w] = IF job'[w].conv = None THEN "derive" ELSE "session"]
    BY <1>0, <1>3 DEF Resolve, Goto, Owned, Shapes, Jobs, JobOK, Busy
  <2>2. s \in real \ shared /\ ConvAttr[s] \in Conversation => c = ConvAttr[s]
    BY <2>1, OnlyCallLives, NearestSelf, NoneIsNone
  <2>. HIDE DEF c
  <2>3. job'[w].span = s /\ job'[w].conv = c
    BY <1>0, <1>3, <2>1 DEF Resolve, Owned, Shapes, Jobs, JobOK, Fields
  <2>4. c # None => pc'[w] = "session"
    BY <1>0, <2>1, <2>3 DEF Owned, Shapes
  <2>5. \A t \in real \ shared' : Due(w, t) /\ ConvAttr[t] \in Conversation => Due(w, t)'
    BY <2>1, <2>2, <2>3, <2>4, NoneIsNone DEF Due
  <2>. QED
    BY <2>1, <2>5, ListingKept
<1>4. ASSUME NEW w \in Worker, UpsertSession(w) \/ RecountSession(w)
      PROVE  Listing'
  <2>1. UNCHANGED <<real, torn, shared, job>>
        /\ \A v \in Worker : v # w => pc'[v] = pc[v]
    BY <1>0, <1>4 DEF UpsertSession, RecountSession, Goto, Owned, Shapes
  <2>2. 0 # NoRow /\ Counted(job[w].conv) # NoRow
    BY CountedType, StoreAssumption, FS_CardinalityType
  <2>3. \A c \in Conversation : session[c] # NoRow => session'[c] # NoRow
    BY <1>4, <2>2 DEF UpsertSession, RecountSession, Typed, Tables
  <2>4. \A t : Due(w, t) /\ ConvAttr[t] \in Conversation => session'[ConvAttr[t]] # NoRow
    BY <1>4, <2>2 DEF UpsertSession, RecountSession, Due, Typed, Tables
  <2>. QED
    BY <2>1, <2>3, <2>4, ListingKept
<1>5. ASSUME NEW d \in Deleter, Purge(d)
      PROVE  Listing'
  <2>1. UNCHANGED <<pc, job, torn, shared>> /\ real' = real \ Gone(d)
        /\ session' = [session EXCEPT ![del[d].conv] = NoRow]
    BY <1>5 DEF Purge
  <2>2. ASSUME NEW t \in real', ConvAttr[t] = del[d].conv
        PROVE  Torn(t)
    <3>1. t \in Span /\ t \notin Gone(d) /\ Carried(t, del[d].conv)
      BY <1>0, <2>1, <2>2 DEF Owned, Shapes, Carried
    <3>. QED
      BY <1>5, <3>1, LeftIsTorn
  <2>3. ASSUME NEW t \in real' \ shared, ConvAttr[t] \in Conversation, ConvAttr[t] # del[d].conv
        PROVE  session'[ConvAttr[t]] = session[ConvAttr[t]]
    BY <2>1, <2>3 DEF Typed, Tables
  <2>. QED
    BY <2>1, <2>2, <2>3 DEF Listing, Torn, Due
<1>6. ASSUME UNCHANGED <<real, torn, shared, session, pc, job>>
      PROVE  Listing'
  BY <1>6 DEF Listing, Torn, Due
<1>7. ASSUME NEW d \in Deleter,
             (\E c \in Conversation : CheckExists(d, c)) \/ CollectTraces(d)
      PROVE  Listing'
  <2>1. UNCHANGED <<real, torn, shared, session, pc, job>>
    BY <1>7 DEF CheckExists, CollectTraces, rows
  <2>. QED
    BY <1>6, <2>1
<1>8. CASE UNCHANGED vars
  BY <1>6, <1>8 DEF vars, rows
<1>. QED
  BY <1>1, <1>2, <1>3, <1>4, <1>5, <1>7, <1>8 DEF Next, Step

-----------------------------------------------------------------------------
(***************************************************************************)
(* The row above a span.  A call makes a placeholder for the parent of its *)
(* span; a deletion takes both or none, for they are in one trace.         *)
(***************************************************************************)
Parented == \A s \in real \ shared : Parent(s) # None =>
  pk[Parent(s)] # 0 \/ \E w \in Worker : job[w].span = s /\ pc[w] \in {"clear", "event"}

LEMMA ParentTrace == \A s \in Span : Parent(s) # None => TraceOf[Parent(s)] = TraceOf[s]
<1>. SUFFICES ASSUME NEW s \in Span, Parent(s) # None
              PROVE  TraceOf[Parent(s)] = TraceOf[s]
  OBVIOUS
<1>1. Lineage[s] # <<>> /\ Parent(s) = Lineage[s][1] /\ Lineage[s] \in Seq(Span)
  BY StoreAssumption DEF Parent
<1>2. 1 \in 1 .. Len(Lineage[s])
  BY <1>1
<1>. QED
  BY <1>1, <1>2, StoreAssumption

LEMMA StepKeeps ==
  ASSUME NEW w \in Worker, Step(w)
  PROVE  UNCHANGED del /\ (~EnsurePlaceholder(w) => UNCHANGED pk)
<1>1. CASE ClearEvents(w) \/ InsertEvent(w) \/ Project(w) \/ Resolve(w)
  BY <1>1, SMTT(30) DEF ClearEvents, InsertEvent, Project, Resolve
<1>2. CASE UpsertSession(w) \/ RecountSession(w) \/ DeriveHook(w) \/ DeriveOther(w)
  BY <1>2 DEF UpsertSession, RecountSession, DeriveHook, DeriveOther
<1>3. CASE EnsurePlaceholder(w) \/ Finish(w)
  BY <1>3 DEF EnsurePlaceholder, Finish
<1>. QED
  BY <1>1, <1>2, <1>3 DEF Step

LEMMA InitParented == Init => Parented
BY DEF Init, Parented

(* A step that takes no row and lets no call pass the placeholder.         *)
LEMMA ParentedKept ==
  ASSUME Parented, Owned, real' = real, shared \subseteq shared',
         \A s \in Span : pk[s] # 0 => pk'[s] # 0,
         NEW w \in Worker, \A v \in Worker : v # w => pc'[v] = pc[v] /\ job'[v] = job[v],
         pc[w] \in {"clear", "event"} =>
           \/ pc'[w] \in {"clear", "event"} /\ job'[w].span = job[w].span
           \/ job[w].span \in shared'
           \/ Parent(job[w].span) # None => pk'[Parent(job[w].span)] # 0
  PROVE  Parented'
<1>. SUFFICES ASSUME NEW s \in real' \ shared', Parent(s) # None
              PROVE  pk'[Parent(s)] # 0
                     \/ \E v \in Worker : job'[v].span = s /\ pc'[v] \in {"clear", "event"}
  BY DEF Parented
<1>1. s \in real \ shared /\ s \in Span /\ Parent(s) \in Span
  BY ParentType DEF Owned, Shapes
<1>2. CASE pk[Parent(s)] # 0
  BY <1>1, <1>2
<1>3. ASSUME NEW v \in Worker, job[v].span = s, pc[v] \in {"clear", "event"}
      PROVE  pk'[Parent(s)] # 0
             \/ \E u \in Worker : job'[u].span = s /\ pc'[u] \in {"clear", "event"}
  <2>1. CASE v # w
    BY <1>3, <2>1
  <2>2. CASE v = w
    BY <1>1, <1>3, <2>2
  <2>. QED
    BY <2>1, <2>2
<1>. QED
  BY <1>1, <1>2, <1>3 DEF Parented

LEMMA NextParented ==
  ASSUME Owned, Parented, [Next]_vars
  PROVE  Parented'
<1>0. pk \in [Span -> Nat] /\ lastPk \in Nat /\ real \subseteq Span
  BY DEF Owned, Shapes
<1>1. ASSUME NEW w \in Worker, NEW u \in Span, Upsert(w, u)
      PROVE  Parented'
  <2>1. /\ real' = real \cup {u} /\ \A s \in Span : pk[s] # 0 => pk'[s] # 0
        /\ pc[w] = "idle" /\ pc'[w] = "clear" /\ job'[w].span = u
        /\ \A v \in Worker : v # w => pc'[v] = pc[v] /\ job'[v] = job[v]
        /\ shared \subseteq shared'
    BY <1>0, <1>1 DEF Upsert, Goto, NoJob, Owned, Shapes
  <2>2. ASSUME NEW s \in real' \ shared', Parent(s) # None
        PROVE  pk'[Parent(s)] # 0
               \/ \E v \in Worker : job'[v].span = s /\ pc'[v] \in {"clear", "event"}
    <3>1. CASE s = u
      BY <2>1, <3>1
    <3>2. CASE s # u
      <4>1. s \in real \ shared /\ Parent(s) \in Span
        BY <1>0, <2>1, <2>2, <3>2, ParentType
      <4>2. ASSUME NEW v \in Worker, job[v].span = s, pc[v] \in {"clear", "event"}
            PROVE  job'[v].span = s /\ pc'[v] \in {"clear", "event"}
        <5>1. v # w
          BY <2>1, <4>2
        <5>. QED
          BY <2>1, <4>2, <5>1
      <4>. QED
        BY <2>1, <2>2, <4>1, <4>2 DEF Parented
    <3>. QED
      BY <3>1, <3>2
  <2>. QED
    BY <2>2 DEF Parented
<1>2. ASSUME NEW w \in Worker, Step(w) \/ Fail(w)
      PROVE  Parented'
  <2>1. UNCHANGED real /\ shared \subseteq shared'
    <3>1. CASE ClearEvents(w) \/ InsertEvent(w) \/ EnsurePlaceholder(w) \/ Project(w) \/ Resolve(w)
      BY <3>1, SMTT(30) DEF ClearEvents, InsertEvent, EnsurePlaceholder, Project, Resolve
    <3>2. CASE UpsertSession(w) \/ RecountSession(w) \/ DeriveHook(w) \/ DeriveOther(w) \/ Finish(w)
      BY <3>2 DEF UpsertSession, RecountSession, DeriveHook, DeriveOther, Finish
    <3>3. CASE Fail(w)
      BY <3>3 DEF Fail, rows
    <3>. QED
      BY <1>2, <3>1, <3>2, <3>3 DEF Step
  <2>2. \A v \in Worker : v # w => pc'[v] = pc[v] /\ job'[v] = job[v]
    <3>1. CASE ClearEvents(w) \/ InsertEvent(w) \/ EnsurePlaceholder(w) \/ Project(w) \/ Resolve(w)
      BY <3>1, SMTT(30) DEF ClearEvents, InsertEvent, EnsurePlaceholder, Project, Resolve, Goto, Owned, Shapes
    <3>2. CASE UpsertSession(w) \/ RecountSession(w) \/ DeriveHook(w) \/ DeriveOther(w) \/ Finish(w)
      BY <3>2 DEF UpsertSession, RecountSession, DeriveHook, DeriveOther, Finish, Goto, Owned, Shapes
    <3>3. CASE Fail(w)
      BY <3>3 DEF Fail, Goto, Owned, Shapes
    <3>. QED
      BY <1>2, <3>1, <3>2, <3>3 DEF Step
  <2>3. \A s \in Span : pk[s] # 0 => pk'[s] # 0
    <3>1. CASE EnsurePlaceholder(w)
      BY <1>0, <3>1 DEF EnsurePlaceholder
    <3>2. CASE Step(w) /\ ~EnsurePlaceholder(w)
      BY <3>2, StepKeeps
    <3>3. CASE Fail(w)
      BY <3>3 DEF Fail, rows
    <3>. QED
      BY <1>2, <3>1, <3>2, <3>3
  <2>4. pc[w] \in {"clear", "event"} =>
          \/ pc'[w] \in {"clear", "event"} /\ job'[w].span = job[w].span
          \/ job[w].span \in shared'
          \/ Parent(job[w].span) # None => pk'[Parent(job[w].span)] # 0
    <3>1. CASE ClearEvents(w)
      BY <3>1 DEF ClearEvents, Goto, Owned, Shapes
    <3>2. CASE InsertEvent(w)
      BY <3>2 DEF InsertEvent, Owned, Shapes, Jobs, JobOK, Fields
    <3>3. CASE EnsurePlaceholder(w)
      <4>. DEFINE p == Parent(job[w].span)
      <4>1. ASSUME p # None
            PROVE  pk'[p] # 0
        <5>1. job[w].span \in Span
          BY <3>3 DEF EnsurePlaceholder, Owned, Jobs, JobOK, Busy
        <5>2. p \in Span
          BY <4>1, <5>1, ParentType
        <5>3. \/ pk' = pk /\ pk[p] # 0
              \/ pk' = [pk EXCEPT ![p] = lastPk + 1]
          BY <3>3, <4>1 DEF EnsurePlaceholder
        <5>. HIDE DEF p
        <5>. QED
          BY <1>0, <5>2, <5>3
      <4>. QED
        BY <4>1
    <3>4. CASE Fail(w)
      BY <3>4, SMTT(30) DEF Fail
    <3>5. CASE Project(w) \/ Resolve(w) \/ UpsertSession(w) \/ RecountSession(w)
               \/ DeriveHook(w) \/ DeriveOther(w) \/ Finish(w)
      BY <3>5 DEF Project, Resolve, UpsertSession, RecountSession, DeriveHook, DeriveOther, Finish
    <3>. QED
      BY <1>2, <3>1, <3>2, <3>3, <3>4, <3>5 DEF Step
  <2>. QED
    BY <2>1, <2>2, <2>3, <2>4, ParentedKept
<1>3. ASSUME NEW d \in Deleter, Purge(d)
      PROVE  Parented'
  <2>1. /\ UNCHANGED <<pc, job, shared>> /\ real' = real \ Gone(d)
        /\ \A s \in Span : s \notin Gone(d) => pk'[s] = pk[s]
    BY <1>3 DEF Purge
  <2>2. ASSUME NEW s \in real' \ shared', Parent(s) # None
        PROVE  pk'[Parent(s)] # 0
               \/ \E v \in Worker : job'[v].span = s /\ pc'[v] \in {"clear", "event"}
    <3>1. s \in real \ shared /\ s \notin Gone(d) /\ s \in Span /\ Parent(s) \in Span
      BY <1>0, <2>1, <2>2, ParentType
    <3>2. Parent(s) \notin Gone(d)
      BY <2>2, <3>1, ParentTrace DEF Gone
    <3>. QED
      BY <2>1, <2>2, <3>1, <3>2 DEF Parented
  <2>. QED
    BY <2>2 DEF Parented
<1>4. ASSUME UNCHANGED <<real, shared, pk, pc, job>>
      PROVE  Parented'
  BY <1>4 DEF Parented
<1>5. ASSUME NEW d \in Deleter, (\E c \in Conversation : CheckExists(d, c)) \/ CollectTraces(d)
      PROVE  Parented'
  BY <1>4, <1>5 DEF CheckExists, CollectTraces, rows
<1>6. CASE UNCHANGED vars
  BY <1>4, <1>6 DEF vars, rows
<1>. QED
  BY <1>1, <1>2, <1>3, <1>5, <1>6 DEF Next

-----------------------------------------------------------------------------
(* All of it.                                                              *)

Sound == Exact /\ Identified /\ Typed /\ Grounded /\ Whole /\ Timed /\ Listing /\ Parented

LEMMA InitSound == Init => Sound
BY InitExact, InitIdentified, InitTyped, InitGrounded, InitWhole, InitTimed, InitListing,
   InitParented
   DEF Sound

LEMMA NextSound == Sound /\ [Next]_vars => Sound'
BY NextExact, NextIdentified, NextTyped, NextGrounded, NextWhole, NextTimed, NextListing,
   NextParented
   DEF Sound, Exact

LEMMA SoundIsComplete == Sound => LeftComplete
<1>. SUFFICES ASSUME Sound PROVE LeftComplete
  OBVIOUS
<1>1. TypeOK
  <2>1. pk \in [Span -> 0 .. lastPk] /\ lastPk \in Nat
    BY DEF Sound, Exact, Owned, Shapes, Identified, Numbered
  <2>. QED
    BY <2>1 DEF TypeOK, Sound, Typed, Tables, Conv, UsageRecord, Exact, Owned, Shapes
<1>2. EventsOnce
  BY DEF Sound, Exact, Filled, EventsOnce, FirstEvents, Total
<1>3. DurationsExact
  BY DEF Sound, Timed, Closed, DurationsExact
<1>. QED
  BY <1>1, <1>2, <1>3 DEF LeftComplete, Sound, Whole

(* The inductive invariant of the store: rows belong to spans that exist,  *)
(* conversations in rows come from real spans of their trace, and what a   *)
(* call has behind it is there, unless a deletion has torn it.             *)
THEOREM AlwaysSound == Spec => []Sound
BY InitSound, NextSound, PTL DEF Spec

(* What calls that are over have left behind is complete: types, the       *)
(* projection rows, the events and the durations of hooks, whatever was    *)
(* redelivered, interleaved, failed or deleted meanwhile.                  *)
THEOREM AlwaysComplete == Spec => []LeftComplete
BY AlwaysSound, SoundIsComplete, PTL

-----------------------------------------------------------------------------
(* Deletions.                                                              *)

(* Only the transaction ends a deletion, and only its own.                 *)
LEMMA OnlyPurgeEnds ==
  ASSUME Sound, [Next]_vars, NEW d \in Deleter, del[d].at = "purge", del'[d].at = "idle"
  PROVE  Purge(d)
<1>0. del \in [Deleter -> Deletions]
  BY DEF Sound, Typed, Calls
<1>1. ASSUME NEW w \in Worker, (\E s \in Span : Upsert(w, s)) \/ Step(w) \/ Fail(w)
      PROVE  FALSE
  <2>1. (\E s \in Span : Upsert(w, s)) => UNCHANGED del
    BY DEF Upsert
  <2>2. Step(w) => UNCHANGED del
    BY StepKeeps
  <2>3. Fail(w) => UNCHANGED del
    BY DEF Fail
  <2>. QED
    BY <1>1, <2>1, <2>2, <2>3
<1>2. ASSUME NEW e \in Deleter, (\E c \in Conversation : CheckExists(e, c)) \/ CollectTraces(e)
      PROVE  FALSE
  <2>1. e # d => del'[d] = del[d]
    BY <1>0, <1>2 DEF CheckExists, CollectTraces
  <2>2. e = d => del'[d].at # "idle"
    BY <1>0, <1>2 DEF CheckExists, CollectTraces, Deletions
  <2>. QED
    BY <2>1, <2>2
<1>3. ASSUME NEW e \in Deleter, Purge(e), e # d
      PROVE  FALSE
  <2>1. del'[d] = del[d]
    BY <1>0, <1>3 DEF Purge
  <2>. QED
    BY <2>1
<1>4. CASE UNCHANGED vars
  BY <1>4 DEF vars
<1>. QED
  BY <1>1, <1>2, <1>3, <1>4 DEF Next

LEMMA NearestCarriedAfter ==
  (\A s \in Span : Nearest(s) # None => Nearest(s) \in Conversation /\ Carried(s, Nearest(s)))'
BY NearestCarried, PTL

LEMMA PurgeTakesAll ==
  ASSUME Sound, NEW d \in Deleter, Purge(d), NEW c, c = del[d].conv
  PROVE  /\ \A s \in Span : filed'[s] # c /\ skill'[s] # c
         /\ \A u \in usage' : u.conv # c
         /\ \A h \in Hook : hook'[h] # NoRow => hook'[h].conv # c
         /\ session'[c] = NoRow
         /\ \A s \in real' : (Nearest(s))' = c => Torn(s)
<1>1. c \in Conversation /\ c # None /\ c # NoRow
  BY NoneIsNone DEF Purge, Sound, Typed, Calls
<1>2. \A s \in Span : filed'[s] # c /\ skill'[s] # c
  BY <1>1 DEF Purge
<1>3. ASSUME NEW u \in usage'
      PROVE  u.conv # c
  <2>1. PICK v \in usage :
          v.conv # c /\ u = [v EXCEPT !.span = IF v.span \in Gone(d) THEN None ELSE v.span]
    BY <1>3 DEF Purge, SurvivingUsage
  <2>2. v \in UsageRecord
    BY DEF Sound, Typed, Tables
  <2>. QED
    BY <2>1, <2>2 DEF UsageRecord
<1>4. \A h \in Hook : hook'[h] # NoRow => hook'[h].conv # c
  BY DEF Purge
<1>5. session'[c] = NoRow
  BY <1>1 DEF Purge, Sound, Typed, Tables
<1>6. ASSUME NEW s \in real', (Nearest(s))' = c
      PROVE  Torn(s)
  <2>1. s \in Span /\ s \notin Gone(d) /\ real' \subseteq real
    BY DEF Purge, Sound, Exact, Owned, Shapes
  <2>2. (Carried(s, Nearest(s)))'
    BY <1>1, <1>6, <2>1, NearestCarriedAfter
  <2>3. Carried(s, c)
    BY <1>6, <2>1, <2>2 DEF Carried
  <2>. QED
    BY <2>1, <2>3, LeftIsTorn DEF Sound
<1>. QED
  BY <1>2, <1>3, <1>4, <1>5, <1>6

LEMMA StepDeletesAll ==
  ASSUME Sound, [Next]_vars
  PROVE  DeletionTotal
<1>. SUFFICES ASSUME NEW d \in Deleter, del[d].at = "purge", del'[d].at = "idle",
                     NEW c, c = del[d].conv
              PROVE  /\ \A s \in Span : filed'[s] # c /\ skill'[s] # c
                     /\ \A u \in usage' : u.conv # c
                     /\ \A h \in Hook : hook'[h] # NoRow => hook'[h].conv # c
                     /\ session'[c] = NoRow
                     /\ \A s \in real' : (Nearest(s))' = c => Torn(s)
  BY DEF DeletionTotal
<1>. QED
  BY OnlyPurgeEnds, PurgeTakesAll

(* Only a deletion takes rows of spans, and only in traces it has listed,  *)
(* each of which has a span that carries its conversation.                 *)
LEMMA StepKeepsOthers ==
  ASSUME Sound, [Next]_vars
  PROVE  OthersKept
<1>0. pk \in [Span -> Nat] /\ lastPk \in Nat
  BY DEF Sound, Exact, Owned, Shapes
<1>. SUFFICES ASSUME NEW s \in Span, pk[s] # 0, pk'[s] = 0
              PROVE  \E d \in Deleter, t \in Span :
                       /\ del[d].at = "purge" /\ TraceOf[t] = TraceOf[s]
                       /\ ConvAttr[t] = del[d].conv
  BY DEF OthersKept
<1>1. ASSUME NEW w \in Worker, NEW u \in Span, Upsert(w, u)
      PROVE  FALSE
  BY <1>0, <1>1 DEF Upsert
<1>2. ASSUME NEW w \in Worker, Step(w) \/ Fail(w)
      PROVE  FALSE
  <2>1. CASE EnsurePlaceholder(w)
    BY <1>0, <2>1 DEF EnsurePlaceholder
  <2>2. CASE ~EnsurePlaceholder(w)
    <3>1. Step(w) => UNCHANGED pk
      BY <2>2, StepKeeps
    <3>2. Fail(w) => UNCHANGED pk
      BY DEF Fail, rows
    <3>. QED
      BY <1>2, <3>1, <3>2
  <2>. QED
    BY <2>1, <2>2
<1>3. ASSUME NEW d \in Deleter, (\E c \in Conversation : CheckExists(d, c)) \/ CollectTraces(d)
      PROVE  FALSE
  BY <1>3 DEF CheckExists, CollectTraces, rows
<1>4. PICK d \in Deleter : Purge(d)
  <2>1. CASE UNCHANGED vars
    BY <2>1 DEF vars, rows
  <2>. QED
    BY <1>1, <1>2, <1>3, <2>1 DEF Next
<1>5. del[d].at = "purge" /\ TraceOf[s] \in del[d].traces
  BY <1>0, <1>4 DEF Purge, Gone
<1>. QED
  BY <1>5 DEF Sound, Grounded, Foreseen

(* A deletion takes every row of its session, its snapshots included, and  *)
(* leaves a span that resolves to it only in a trace that was torn; it     *)
(* takes no span from a trace in which none carries the session's          *)
(* conversation.                                                           *)
THEOREM DeletionsAreExact == Spec => DeletionExact
<1>1. Sound /\ [Next]_vars => [DeletionTotal /\ OthersKept]_vars
  BY StepDeletesAll, StepKeepsOthers
<1>. QED
  BY <1>1, AlwaysSound, PTL DEF Spec, DeletionExact
==============================================================================

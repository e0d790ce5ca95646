---------------------------- MODULE SessionStore ----------------------------
(***************************************************************************)
(* Deleting a session while its spans are still being normalized, and the  *)
(* rows that normalization derives from the events of a span.              *)
(*                                                                         *)
(* Normalize follows one call statement by statement over tables whose     *)
(* rows stay.  Here rows are deleted, so a span's row has an identity (its *)
(* span_pk, AUTOINCREMENT, never used twice) and a call that goes on with  *)
(* the span_pk of a row that is gone fails on the foreign key.  In return, *)
(* what Normalize shows to be settled is one step: all projection tables   *)
(* are one, and an ancestor walk and the updates it feeds happen together. *)
(* How deep such a walk may go is Normalize's concern, not this module's.  *)
(***************************************************************************)
EXTENDS Naturals, Sequences, FiniteSets

CONSTANTS
  Span, Conversation, Trace, Hook,
  None,        \* no value, no conversation, no parent
  NoRow,       \* no row in the table
  TraceOf,     \* TraceOf[s]: trace_id of s
  Lineage,     \* Lineage[s]: the proper ancestors of s, its parent first
  ConvAttr,    \* ConvAttr[s]: gen_ai.conversation.id in the attributes of s
  Events,      \* Events[s]: the events of s, a sequence of <<name, hook or None>>
  Worker,      \* normalize_span calls that can be in progress at once
  Deleter,     \* delete_session calls that can be in progress at once
  MaxSends,    \* bound: MaxSends[s] is how many times s may be delivered
  MaxDeletes   \* bound: calls of delete_session

EventName == {"start", "end", "skill", "usage"}

(* A row of hook_invocations.                                              *)
HookRecord ==
  [span : Span, conv : Conversation \cup {None},
   start : BOOLEAN, end : BOOLEAN, duration : BOOLEAN]

ASSUME StoreAssumption ==
  /\ IsFiniteSet(Span)
  /\ None \notin Span \cup Conversation
  /\ NoRow \notin Conversation \cup {None} \cup HookRecord \cup Nat
  /\ Lineage \in [Span -> Seq(Span)]
  /\ \A s \in Span : \A i \in 1 .. Len(Lineage[s]) :
        /\ TraceOf[Lineage[s][i]] = TraceOf[s]
        /\ Lineage[Lineage[s][i]] = SubSeq(Lineage[s], i + 1, Len(Lineage[s]))
  /\ ConvAttr \in [Span -> Conversation \cup {None}]
  /\ Events \in [Span -> Seq(EventName \X (Hook \cup {None}))]
  /\ MaxSends \in [Span -> Nat] /\ MaxDeletes \in Nat

VARIABLES
  pk,        \* pk[s]: span_pk of the row of s, 0 if there is none
  lastPk,    \* the last span_pk given out
  real,      \* the spans whose row has ingestion_state 'real'
  eventRows, \* eventRows[s]: rows of span_events, as indexes into Events[s]
  filed,     \* filed[s]: conversation_id of the projection row, or NoRow
  hook,      \* hook[h]: the row of hook_invocations
  skill,     \* skill[s]: conversation_id of its skill_invocations, or NoRow
  usage,     \* rows of context_snapshots: the span (None once it is gone), conversation
  session,   \* session[c]: chat_turn_count of the sessions row, or NoRow
  pc, job,   \* each call of normalize_span: its next step and local variables
  del,       \* each call of delete_session: its next step and local variables
  sends, deletes,  \* deliveries of each span; deletions begun (bounds)
  torn,      \* history: spans that appeared after a deletion had listed its traces
  shared     \* history: spans that had two calls at once, or one that failed

rows == <<pk, lastPk, real, eventRows, filed, hook, skill, usage, session>>
vars == <<rows, pc, job, del, sends, deletes, torn, shared>>

NoHook == [span |-> None, conv |-> None, start |-> FALSE, end |-> FALSE, duration |-> FALSE]

NoJob == [span |-> None, pk |-> 0, at |-> 1, conv |-> None]

NoDeletion == [at |-> "idle", conv |-> None, traces |-> {}]

Init ==
  /\ pk = [s \in Span |-> 0] /\ lastPk = 0 /\ real = {}
  /\ eventRows = [s \in Span |-> <<>>]
  /\ filed = [s \in Span |-> NoRow] /\ skill = [s \in Span |-> NoRow]
  /\ hook = [h \in Hook |-> NoRow] /\ usage = {}
  /\ session = [c \in Conversation |-> NoRow]
  /\ pc = [w \in Worker |-> "idle"] /\ job = [w \in Worker |-> NoJob]
  /\ del = [d \in Deleter |-> NoDeletion]
  /\ sends = [s \in Span |-> 0] /\ deletes = 0
  /\ torn = {} /\ shared = {}

-----------------------------------------------------------------------------
(* Helpers: what the SQL says of rows.                                     *)

(* The span i levels above s; s itself is at 0.                            *)
At(s, i) == IF i = 0 THEN s ELSE Lineage[s][i]

Parent(s) == IF Lineage[s] = <<>> THEN None ELSE Lineage[s][1]

Heights(s) == 0 .. Len(Lineage[s])

(* How far up from s rows reach, and there, spans that have the attribute. *)
Carriers(s) ==
  {i \in Heights(s) : ConvAttr[At(s, i)] # None /\ \A j \in 0 .. i : At(s, j) \in real}

Least(D) == {i \in D : \A j \in D : i <= j}

(* The conversation of the nearest carrier above s, as far as rows reach.  *)
Nearest(s) ==
  IF Least(Carriers(s)) = {} THEN None
  ELSE ConvAttr[At(s, CHOOSE i \in Least(Carriers(s)) : TRUE)]

Coalesce(a, b) == IF a = None THEN b ELSE a

(* s and the spans below it, as far as rows reach.                         *)
Below(s) ==
  {t \in Span : pk[t] # 0 /\ \E i \in Heights(t) :
     At(t, i) = s /\ \A j \in 0 .. i : j < i => At(t, j) \in real}

(* Mistake: no foreign key, a call goes on although the row is gone.       *)
NoForeignKey(w) == job[w].pk # 0

Living(w) == pk[job[w].span] = job[w].pk

(* resolve_projection_pointers for every span of S: each derived row that  *)
(* has no conversation yet is filed under that of the nearest carrier.     *)
Refile(S) ==
  LET tag(s, c) == IF s \in S /\ c = None THEN Nearest(s) ELSE c IN
  /\ filed' = [s \in Span |-> tag(s, filed[s])]
  /\ skill' = [s \in Span |-> tag(s, skill[s])]
  /\ hook' = [h \in Hook |->
       IF hook[h] = NoRow THEN NoRow
       ELSE [hook[h] EXCEPT !.conv = tag(hook[h].span, @)]]
  /\ usage' = {[u EXCEPT !.conv = tag(u.span, @)] : u \in usage}

Counted(c) == Cardinality({s \in Span : filed[s] = c})

-----------------------------------------------------------------------------
(* normalize_span                                                          *)

Goto(w, step) == pc' = [pc EXCEPT ![w] = step]

(* An envelope arrives; the upsert creates the row or makes it real.       *)
Upsert(w, s) ==
  /\ pc[w] = "idle" /\ sends[s] < MaxSends[s]
  /\ sends' = [sends EXCEPT ![s] = @ + 1]
  /\ lastPk' = IF pk[s] = 0 THEN lastPk + 1 ELSE lastPk
  /\ pk' = [pk EXCEPT ![s] = IF @ = 0 THEN lastPk' ELSE @]
  /\ real' = real \cup {s}
  /\ torn' = IF \E d \in Deleter : del[d].at = "purge" /\ TraceOf[s] \notin del[d].traces
             THEN torn \cup {s} ELSE torn
  /\ shared' = IF \E v \in Worker : job[v].span = s THEN shared \cup {s} ELSE shared
  /\ Goto(w, "clear")
  /\ job' = [job EXCEPT ![w] = [NoJob EXCEPT !.span = s, !.pk = pk'[s]]]
  /\ UNCHANGED <<eventRows, filed, hook, skill, usage, session, del, deletes>>

(* Mistake: the events of an earlier delivery stay.                        *)
KeepEvents(w) ==
  /\ pc[w] = "clear" /\ Goto(w, "event")
  /\ UNCHANGED <<rows, job, del, sends, deletes, torn, shared>>

(* DELETE FROM span_events: no row if the span is gone.                    *)
ClearEvents(w) ==
  /\ pc[w] = "clear"
  /\ eventRows' = IF Living(w) THEN [eventRows EXCEPT ![job[w].span] = <<>>] ELSE eventRows
  /\ Goto(w, "event")
  /\ UNCHANGED <<pk, lastPk, real, filed, hook, skill, usage, session, job, del, sends,
                 deletes, torn, shared>>

(* One INSERT INTO span_events per event; then the parent's placeholder.   *)
InsertEvent(w) ==
  /\ pc[w] = "event" /\ Living(w)
  /\ job[w].at <= Len(Events[job[w].span])
  /\ eventRows' = [eventRows EXCEPT ![job[w].span] = Append(@, job[w].at)]
  /\ job' = [job EXCEPT ![w].at = @ + 1]
  /\ UNCHANGED <<pk, lastPk, real, filed, hook, skill, usage, session, pc, del, sends,
                 deletes, torn, shared>>

EnsurePlaceholder(w) ==
  LET p == Parent(job[w].span) IN
  /\ pc[w] = "event" /\ job[w].at > Len(Events[job[w].span])
  /\ IF p # None /\ pk[p] = 0
     THEN /\ lastPk' = lastPk + 1
          /\ pk' = [pk EXCEPT ![p] = lastPk + 1]
     ELSE UNCHANGED <<pk, lastPk>>
  /\ Goto(w, "project")
  /\ UNCHANGED <<real, eventRows, filed, hook, skill, usage, session, job, del, sends,
                 deletes, torn, shared>>

(* The upsert of the projection row, which needs the span's row.           *)
Project(w) ==
  LET s == job[w].span IN
  /\ pc[w] = "project" /\ Living(w)
  /\ filed' = [filed EXCEPT ![s] =
       IF ConvAttr[s] # None \/ @ = NoRow THEN ConvAttr[s] ELSE @]
  /\ Goto(w, "resolve")
  /\ UNCHANGED <<pk, lastPk, real, eventRows, hook, skill, usage, session, job, del, sends,
                 deletes, torn, shared>>

(* resolve_projection_pointers and forward_resolve_descendants, and the    *)
(* conversation that effective_conversation_id then reads.                 *)
Resolve(w) ==
  LET s == job[w].span IN
  /\ pc[w] = "resolve"
  /\ Refile(IF Living(w) THEN Below(s) ELSE {})
  /\ job' = [job EXCEPT ![w].conv = IF Living(w) THEN Nearest(s) ELSE None, ![w].at = 1]
  /\ Goto(w, IF job'[w].conv = None THEN "derive" ELSE "session")
  /\ UNCHANGED <<pk, lastPk, real, eventRows, session, del, sends, deletes, torn, shared>>

UpsertSession(w) ==
  LET c == job[w].conv IN
  /\ pc[w] = "session"
  /\ session' = [session EXCEPT ![c] = IF @ = NoRow THEN 0 ELSE @]
  /\ Goto(w, "count")
  /\ UNCHANGED <<pk, lastPk, real, eventRows, filed, hook, skill, usage, job, del, sends,
                 deletes, torn, shared>>

RecountSession(w) ==
  LET c == job[w].conv IN
  /\ pc[w] = "count"
  /\ session' = [session EXCEPT ![c] = IF @ = NoRow THEN NoRow ELSE Counted(c)]
  /\ Goto(w, "derive")
  /\ UNCHANGED <<pk, lastPk, real, eventRows, filed, hook, skill, usage, job, del, sends,
                 deletes, torn, shared>>

(* What a hook's end event does to its row: the duration needs a start.    *)
HookEnd(h, s, c) ==
  [h EXCEPT !.conv = Coalesce(@, c), !.end = TRUE, !.duration = h.start]

HookStart(h, s, c) ==
  [h EXCEPT !.conv = Coalesce(@, c), !.start = TRUE]

(* The row of hook h, or the one that an insert for span s starts from.    *)
HookRow(h, s, c) == IF hook[h] = NoRow THEN [NoHook EXCEPT !.span = s, !.conv = c] ELSE hook[h]

(* derive_from_events, one event.  An insert needs the span's row; the     *)
(* update of a hook that has a row does not.                               *)
DeriveHook(w) ==
  LET s == job[w].span
      e == Events[s][job[w].at] IN
  /\ pc[w] = "derive" /\ job[w].at <= Len(Events[s])
  /\ e[1] \in {"start", "end"}
  /\ Living(w) \/ hook[e[2]] # NoRow
  /\ hook' = [hook EXCEPT ![e[2]] =
       IF e[1] = "start" THEN HookStart(HookRow(e[2], s, job[w].conv), s, job[w].conv)
       ELSE HookEnd(HookRow(e[2], s, job[w].conv), s, job[w].conv)]
  /\ job' = [job EXCEPT ![w].at = @ + 1]
  /\ UNCHANGED <<pk, lastPk, real, eventRows, filed, skill, usage, session, pc, del, sends,
                 deletes, torn, shared>>

DeriveOther(w) ==
  LET s == job[w].span
      e == Events[s][job[w].at] IN
  /\ pc[w] = "derive" /\ job[w].at <= Len(Events[s])
  /\ e[1] \in {"skill", "usage"} /\ Living(w)
  /\ IF e[1] = "skill"
     THEN /\ skill' = [skill EXCEPT ![s] = IF @ = NoRow THEN job[w].conv ELSE @]
          /\ UNCHANGED usage
     ELSE /\ usage' = IF \E u \in usage : u.span = s THEN usage
                      ELSE usage \cup {[span |-> s, conv |-> job[w].conv]}
          /\ UNCHANGED skill
  /\ job' = [job EXCEPT ![w].at = @ + 1]
  /\ UNCHANGED <<pk, lastPk, real, eventRows, filed, hook, session, pc, del, sends,
                 deletes, torn, shared>>

(* The pointers again if there was an event, and the end of the call.      *)
Finish(w) ==
  LET s == job[w].span IN
  /\ pc[w] = "derive" /\ job[w].at > Len(Events[s])
  /\ Refile(IF Living(w) /\ Events[s] # <<>> THEN {s} ELSE {})
  /\ Goto(w, "idle") /\ job' = [job EXCEPT ![w] = NoJob]
  /\ UNCHANGED <<pk, lastPk, real, eventRows, session, del, sends, deletes, torn, shared>>

(* An INSERT for a span_pk that is gone, or any database error: `?` ends   *)
(* the call and ingest_envelope logs it.                                   *)
Fail(w) ==
  /\ pc[w] # "idle"
  /\ shared' = shared \cup {job[w].span}
  /\ Goto(w, "idle") /\ job' = [job EXCEPT ![w] = NoJob]
  /\ UNCHANGED <<rows, del, sends, deletes, torn>>

-----------------------------------------------------------------------------
(* delete_session                                                          *)

(* Mistake: rows that are not filed yet count as the conversation's.       *)
LooseTraces(c) == {TraceOf[s] : s \in {t \in Span : pk[t] # 0 /\ filed[t] \in {c, NoRow}}}

(* The traces with a span that carries c or whose projection is filed      *)
(* under c.                                                                *)
TracesOf(c) == {TraceOf[s] : s \in {t \in Span :
                  \/ t \in real /\ ConvAttr[t] = c
                  \/ filed[t] = c}}

CheckExists(d, c) ==
  /\ del[d].at = "idle" /\ deletes < MaxDeletes
  /\ session[c] # NoRow
  /\ deletes' = deletes + 1
  /\ del' = [del EXCEPT ![d] = [at |-> "collect", conv |-> c, traces |-> {}]]
  /\ UNCHANGED <<rows, pc, job, sends, torn, shared>>

CollectTraces(d) ==
  /\ del[d].at = "collect"
  /\ del' = [del EXCEPT ![d].at = "purge", ![d].traces = TracesOf(del[d].conv)]
  /\ UNCHANGED <<rows, pc, job, sends, deletes, torn, shared>>

(* ON DELETE SET NULL keeps a snapshot whose span goes; the DELETE by      *)
(* conversation_id then removes it.                                        *)
SurvivingUsage(gone, c) ==
  {[u EXCEPT !.span = IF @ \in gone THEN None ELSE @] :
     u \in {v \in usage : v.conv # c}}

(* Mistake: the deletion removes the conversation's rows, but no spans.    *)
GoneNowhere(d) == {}

Gone(d) == {s \in Span : TraceOf[s] \in del[d].traces}

(* The transaction: every span of the traces, with what cascades, and then *)
(* every row of the conversation.                                          *)
Purge(d) ==
  LET c == del[d].conv
      drop(s, v) == IF s \in Gone(d) \/ v = c THEN NoRow ELSE v IN
  /\ del[d].at = "purge"
  /\ pk' = [s \in Span |-> IF s \in Gone(d) THEN 0 ELSE pk[s]]
  /\ real' = real \ Gone(d)
  /\ eventRows' = [s \in Span |-> IF s \in Gone(d) THEN <<>> ELSE eventRows[s]]
  /\ filed' = [s \in Span |-> drop(s, filed[s])]
  /\ skill' = [s \in Span |-> drop(s, skill[s])]
  /\ hook' = [h \in Hook |-> IF hook[h] = NoRow THEN NoRow
                             ELSE IF hook[h].span \in Gone(d) \/ hook[h].conv = c
                                  THEN NoRow ELSE hook[h]]
  /\ usage' = SurvivingUsage(Gone(d), c)
  /\ session' = [session EXCEPT ![c] = NoRow]
  /\ del' = [del EXCEPT ![d] = NoDeletion]
  /\ UNCHANGED <<lastPk, pc, job, sends, deletes, torn, shared>>

-----------------------------------------------------------------------------

Step(w) ==
  \/ ClearEvents(w) \/ InsertEvent(w) \/ EnsurePlaceholder(w) \/ Project(w)
  \/ Resolve(w) \/ UpsertSession(w) \/ RecountSession(w)
  \/ DeriveHook(w) \/ DeriveOther(w) \/ Finish(w)

Next ==
  \/ \E w \in Worker : (\E s \in Span : Upsert(w, s)) \/ Step(w) \/ Fail(w)
  \/ \E d \in Deleter :
       (\E c \in Conversation : CheckExists(d, c)) \/ CollectTraces(d) \/ Purge(d)

Spec == Init /\ [][Next]_vars

-----------------------------------------------------------------------------
(* Properties                                                              *)

OrNoRow(S) == S \cup {NoRow}

(* The values each variable can have.                                      *)
TypeOK ==
  /\ pk \in [Span -> 0 .. lastPk] /\ lastPk \in Nat
  /\ real \subseteq {s \in Span : pk[s] # 0}
  /\ filed \in [Span -> OrNoRow(Conversation \cup {None})]
  /\ skill \in [Span -> OrNoRow(Conversation \cup {None})]
  /\ hook \in [Hook -> OrNoRow(HookRecord)]
  /\ usage \subseteq [span : Span \cup {None}, conv : Conversation \cup {None}]
  /\ session \in [Conversation -> OrNoRow(0 .. Cardinality(Span))]

(* A row never outlives its span: not the event rows, projections, hooks   *)
(* or skills of a deleted span, also when the call that writes them is     *)
(* still under way (the foreign keys of migrations/0001_init.sql).         *)
NoOrphans ==
  /\ \A s \in Span : pk[s] = 0 => /\ eventRows[s] = <<>>
                                  /\ filed[s] = NoRow /\ skill[s] = NoRow
  /\ \A h \in Hook : hook[h] # NoRow => pk[hook[h].span] # 0

(* A span that has been normalized has its projection row.  Deleting a     *)
(* session can tear it out and leave the span only if a span of its trace  *)
(* appeared after the deletion had listed the traces without that one.     *)
Torn(s) == \E t \in torn : TraceOf[t] = TraceOf[s]

WholeOrTorn ==
  \A s \in real :
    \/ filed[s] # NoRow
    \/ Torn(s) \/ s \in shared
    \/ \E w \in Worker : job[w].span = s

(* Deliveries of one span that neither overlap nor fail leave exactly its  *)
(* events, in order, however often it is delivered.                        *)
EventsOnce ==
  \A s \in real \ shared :
    \/ eventRows[s] = [i \in 1 .. Len(Events[s]) |-> i]
    \/ \E w \in Worker : job[w].span = s

(* The events about hook h are of one span, which gives start before end.  *)
Paired(h) ==
  \E s \in Span :
    /\ \A t \in Span : \A i \in 1 .. Len(Events[t]) : Events[t][i][2] = h => t = s
    /\ \A j \in 1 .. Len(Events[s]) : Events[s][j] = <<"end", h>> =>
         \E i \in 1 .. Len(Events[s]) : i < j /\ Events[s][i] = <<"start", h>>

(* A hook that its span starts and ends has a duration once both are known *)
(* (derive_from_events computes it on the end event only), unless a        *)
(* deletion has torn the span, or calls on it have overlapped or failed.   *)
DurationsExact ==
  \A h \in Hook :
    Paired(h) /\ hook[h] # NoRow /\ hook[h].start /\ hook[h].end =>
      hook[h].duration \/ Torn(hook[h].span) \/ hook[h].span \in shared

(* What calls that are over have left behind, whatever was deleted.        *)
LeftComplete == TypeOK /\ WholeOrTorn /\ EventsOnce /\ DurationsExact

(* Snapshots that outlive their span are never ones of the deleted         *)
(* conversation: those that stay belong to none, or to another one.        *)
DeletionTotal ==
  \A d \in Deleter : del[d].at = "purge" /\ del'[d].at = "idle" =>
    LET c == del[d].conv IN
    /\ \A s \in Span : filed'[s] # c /\ skill'[s] # c
    /\ \A u \in usage' : u.conv # c
    /\ \A h \in Hook : hook'[h] # NoRow => hook'[h].conv # c
    /\ session'[c] = NoRow
    /\ \A s \in real' : Nearest(s)' = c => Torn(s)

(* A deletion takes nothing from a trace in which no span carries the      *)
(* conversation that is deleted.                                           *)
OthersKept ==
  \A s \in Span : pk[s] # 0 /\ pk'[s] = 0 =>
    \E d \in Deleter, t \in Span :
      /\ del[d].at = "purge" /\ TraceOf[t] = TraceOf[s] /\ ConvAttr[t] = del[d].conv

(* A deletion takes all there is of a session, and nothing else.           *)
DeletionExact == [][DeletionTotal /\ OthersKept]_vars
=============================================================================

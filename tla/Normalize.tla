----------------------------- MODULE Normalize ------------------------------
(***************************************************************************)
(* Span normalization: what one call of normalize_span does to the SQLite  *)
(* tables and the event bus, statement by statement.                       *)
(*                                                                         *)
(* Each SQL statement commits on its own and the handler awaits between    *)
(* statements, so calls for different requests interleave at every         *)
(* statement.  A worker is one such call in progress.  A call may also end *)
(* early: a statement may return an error, which `?` propagates and        *)
(* ingest_envelope only logs, or the request may be dropped.               *)
(*                                                                         *)
(* Rows are never deleted here.  Columns whose value is a copy of the      *)
(* envelope (names, times, token counts, JSON) are left out: see SpanTree  *)
(* for what is kept of a span.  Of the rows derived from span events, those*)
(* of hook_invocations stand for all: one hook event per eventful span.    *)
(*                                                                         *)
(* An operator whose comment begins "Mistake:" is no part of the           *)
(* specification: it is a way to get the definition after it wrong.        *)
(***************************************************************************)
EXTENDS SpanTree

CONSTANTS
  Worker,    \* normalize_span calls that can be in progress at once
  MaxSends   \* bound: MaxSends[s] is how many times s may be delivered

ASSUME BoundAssumption == MaxSends \in [Span -> Nat]

VARIABLES
  sends,      \* sends[s]: deliveries of s so far
  row,        \* row[s]: state of the spans row of s; "absent" if there is none
  projected,  \* the spans with a row in the projection table of their kind
  hooked,     \* the spans with a row in hook_invocations
  ptr,        \* ptr[c][s]: pointer column c of the row of s, None for NULL
  conv,       \* conv[t][s]: conversation_id of the row of s in tables t
  paired,     \* paired[s]: paired_tool_call_pk of the external tool call s
  toolCount,  \* toolCount[s]: tool_call_count of the chat turn s
  session,    \* session[c]: the counters of the sessions row of c, or None
  heard,      \* heard[s]: the actions announced for s on the bus
  landed,     \* the spans some call has normalized to its end (history)
  crossed,    \* the spans of which a call read something that another wrote
              \* before it used it (history)
  pc,         \* pc[w]: the next statement of worker w
  job         \* job[w]: the local variables of worker w

spanTable == <<row, heard>>
projections == <<projected, hooked, ptr, conv, paired, toolCount>>
tables == <<spanTable, projections, session>>
history == <<sends, landed, crossed>>
vars == <<tables, history, pc, job>>

-----------------------------------------------------------------------------

RowState == {"absent", "placeholder", "real"}

Table == {"projection", "hook"}

Statement ==
  {"idle", "lookup", "upsert", "parent", "project", "insert", "pair",
   "walk", "apply", "apply_hooks", "forward", "next", "session", "count",
   "derive", "refresh", "announce"}

Nothing == [c \in Column |-> None]

NoJob ==
  [span     |-> None,     \* the span being normalized
   prev     |-> "absent", \* the state of its row before the upsert
   mate     |-> None,     \* the tool call an external call found to pair with
   target   |-> None,     \* the span whose pointers are being resolved
   found    |-> Nothing,  \* what the ancestor walk from target returned
   foundConv |-> None,
   todo     |-> {},       \* descendants still to resolve
   conv     |-> None,     \* effective conversation id of span
   after    |-> "forward"]  \* where resolving span's own pointers returns to

Counters == [chat_turn : Nat, tool_call : Nat, agent_run : Nat]

\* A row is not NULL.
ASSUME RowAssumption == None \notin Counters

NewSession == [chat_turn |-> 0, tool_call |-> 0, agent_run |-> 0]

Init ==
  /\ sends = [s \in Span |-> 0]
  /\ row = [s \in Span |-> "absent"]
  /\ heard = [s \in Span |-> {}]
  /\ projected = {}
  /\ hooked = {}
  /\ ptr = [c \in Column |-> [s \in Span |-> None]]
  /\ conv = [t \in Table |-> [s \in Span |-> None]]
  /\ paired = [s \in Span |-> None]
  /\ toolCount = [s \in Span |-> 0]
  /\ session = [c \in Conversation |-> None]
  /\ landed = {}
  /\ crossed = {}
  /\ pc = [w \in Worker |-> "idle"]
  /\ job = [w \in Worker |-> NoJob]

-----------------------------------------------------------------------------
(* What the recursive queries read.                                        *)

\* The depths an ancestor walk from s reaches now: a row's parent column is
\* set once the span is real, so a placeholder ends the walk.
Visible(s) ==
  {i \in Depths(s) :
     /\ row[At(s, i)] # "absent"
     /\ \A j \in 0..(i - 1) : row[At(s, j)] = "real"}

\* Mistake: the span counts as an ancestor of itself (depth > 0 is dropped).
SelfOrAncestors(s) ==
  [c \in Column |->
    Closest(s, {i \in Visible(s) : /\ At(s, i) \in projected
                                   /\ Kind[At(s, i)] \in Wanted[c]})]

\* The nearest proper ancestors a walk from s finds, for each column.
NearestAncestors(s) ==
  [c \in Column |->
    Closest(s, {i \in Visible(s) :
                  /\ i > 0
                  /\ At(s, i) \in projected
                  /\ Kind[At(s, i)] \in Wanted[c]})]

\* Mistake: the outermost id a walk finds (ORDER BY depth DESC).
OutermostConversation(s) ==
  LET holders == {i \in Visible(s) : ConvAttr[At(s, i)] # None}
  IN  IF holders = {} THEN None
      ELSE ConvAttr[At(s, CHOOSE i \in holders : \A j \in holders : j <= i)]

\* The nearest conversation id a walk from s finds, s included; a
\* placeholder has no attributes.
NearestConversation(s) ==
  ConversationAt(s, {i \in Visible(s) : row[At(s, i)] = "real"})

\* Mistake: the descent is not recursive.
Children(s) == {d \in Span : row[d] = "real" /\ Parent(d) = s}

\* The rows a recursive descent from s reaches now.
Descendants(s) ==
  {d \in Span : \E i \in 1..Len(Lineage[d]) :
     /\ i <= ForwardDepth
     /\ At(d, i) = s
     /\ \A j \in 0..(i - 1) : row[At(d, j)] = "real"}

\* The pointer columns that the projection row, and the event rows, of s have.
ProjectionColumns(s) ==
  IF s \notin projected THEN {}
  ELSE {"agent"}
       \cup (IF Kind[s] = "invoke_agent" THEN {"invoker"} ELSE {})
       \cup (IF Kind[s] \in {"execute_tool", "external_tool"} THEN {"chat"} ELSE {})

HookColumn == {"hook_agent", "hook_chat", "hook_tool"}

HookColumns(s) == IF s \in hooked THEN HookColumn ELSE {}

\* COALESCE(old, new)
Coalesce(old, new) == IF old # None THEN old ELSE new

\* The rows of one kind that belong to conversation c.
Members(kind, c) ==
  {s \in projected : Kind[s] = kind /\ conv["projection"][s] = c}

\* The tool calls that point at chat turn s.
ToolCallsOf(s) ==
  {t \in projected : Kind[t] = "execute_tool" /\ ptr["chat"][t] = s}

-----------------------------------------------------------------------------
(* One action for each statement of normalize_span.                        *)

Goto(w, label) == pc' = [pc EXCEPT ![w] = label]

\* The envelope of s reaches a free worker.
Receive(w, s) ==
  /\ pc[w] = "idle"
  /\ sends[s] < MaxSends[s]
  /\ sends' = [sends EXCEPT ![s] = @ + 1]
  /\ job' = [job EXCEPT ![w] = [NoJob EXCEPT !.span = s]]
  /\ Goto(w, "lookup")
  /\ UNCHANGED <<tables, landed, crossed>>

\* Mistake: the state is read after the upsert, when it is always 'real'.
LookupTooLate(w) ==
  /\ pc[w] = "lookup"
  /\ job' = [job EXCEPT ![w].prev = "real"]
  /\ Goto(w, "upsert")
  /\ UNCHANGED <<tables, history>>

\* SELECT ingestion_state: is there a placeholder to upgrade?
Lookup(w) ==
  /\ pc[w] = "lookup"
  /\ job' = [job EXCEPT ![w].prev = row[job[w].span]]
  /\ Goto(w, "upsert")
  /\ UNCHANGED <<tables, history>>

\* INSERT INTO spans ... ON CONFLICT DO UPDATE SET ... ingestion_state = 'real'
UpsertSpan(w) ==
  /\ pc[w] = "upsert"
  /\ row' = [row EXCEPT ![job[w].span] = "real"]
  /\ Goto(w, IF Parent(job[w].span) # None THEN "parent" ELSE "project")
  /\ UNCHANGED <<heard, projections, session, history, job>>

\* Mistake: ON CONFLICT DO UPDATE SET ingestion_state = 'placeholder'.
OverwriteParent(w) ==
  /\ pc[w] = "parent"
  /\ row' = [row EXCEPT ![Parent(job[w].span)] = "placeholder"]
  /\ Goto(w, "project")
  /\ UNCHANGED <<heard, projections, session, history, job>>

\* History: s, if a call for it has looked at its row and not yet written it.
UpsertUnderWay(s) == {u \in {s} : \E w \in Worker : pc[w] = "upsert" /\ job[w].span = u}

\* INSERT a placeholder for the parent ON CONFLICT DO NOTHING; announce it
\* only when a row was inserted.
EnsurePlaceholder(w) ==
  LET p == Parent(job[w].span) IN
  /\ pc[w] = "parent"
  /\ IF row[p] = "absent"
     THEN /\ row' = [row EXCEPT ![p] = "placeholder"]
          /\ heard' = [heard EXCEPT ![p] = @ \cup {"placeholder"}]
          /\ crossed' = crossed \cup UpsertUnderWay(p)
     ELSE UNCHANGED <<spanTable, crossed>>
  /\ Goto(w, "project")
  /\ UNCHANGED <<projections, session, sends, landed, job>>

\* The part all four projection upserts share: the row of s exists from now
\* on, and its conversation_id is COALESCE(excluded, existing).
InsertProjection(s) ==
  /\ projected' = projected \cup {s}
  /\ conv' = [conv EXCEPT !["projection"][s] = Coalesce(ConvAttr[s], @)]

\* Mistake: the pointers are resolved without saying of which row.
UpsertWithoutTarget(w) ==
  /\ pc[w] = "project"
  /\ Kind[job[w].span] \in {"invoke_agent", "chat"}
  /\ InsertProjection(job[w].span)
  /\ Goto(w, "walk")
  /\ UNCHANGED <<spanTable, hooked, ptr, paired, toolCount, session, history, job>>

UpsertAgentRunOrChatTurn(w) ==
  LET s == job[w].span IN
  /\ pc[w] = "project"
  /\ Kind[s] \in {"invoke_agent", "chat"}
  /\ InsertProjection(s)
  /\ Goto(w, "walk")
  /\ job' = [job EXCEPT ![w].target = s]
  /\ UNCHANGED <<spanTable, hooked, ptr, paired, toolCount, session, history>>

UpsertToolCall(w) ==
  LET s == job[w].span IN
  /\ pc[w] = "project"
  /\ Kind[s] = "execute_tool"
  /\ InsertProjection(s)
  /\ Goto(w, IF CallAttr[s] # None THEN "pair" ELSE "walk")
  /\ job' = [job EXCEPT ![w].target = s]
  /\ UNCHANGED <<spanTable, hooked, ptr, paired, toolCount, session, history>>

\* Mistake: only the external call looks for its pair.
LeavePairing(w) ==
  /\ pc[w] = "pair"
  /\ Goto(w, "walk")
  /\ UNCHANGED <<tables, history, job>>

\* History: the external tool calls that found no tool call to pair with and are
\* about to say so.
InsertUnderWay(call) ==
  {e \in Span : /\ CallAttr[e] = call /\ e \notin projected
                /\ \E w \in Worker : pc[w] = "insert" /\ job[w].span = e /\ job[w].mate = None}

\* UPDATE external_tool_calls SET paired_tool_call_pk ... WHERE call_id = ?
\* AND paired_tool_call_pk IS NULL
PairExternalCalls(w) ==
  LET s == job[w].span IN
  /\ pc[w] = "pair"
  /\ paired' = [e \in Span |->
       IF /\ e \in projected
          /\ Kind[e] = "external_tool"
          /\ CallAttr[e] = CallAttr[s]
       THEN Coalesce(paired[e], s)
       ELSE paired[e]]
  /\ crossed' = crossed \cup InsertUnderWay(CallAttr[s])
  /\ Goto(w, "walk")
  /\ UNCHANGED <<spanTable, projected, hooked, ptr, conv, toolCount, session,
                 sends, landed, job>>

\* SELECT tool_call_pk FROM tool_calls WHERE call_id = ? LIMIT 1
LookupToolCall(w) ==
  LET s == job[w].span
      matches == {t \in projected : /\ Kind[t] = "execute_tool"
                                    /\ CallAttr[t] = CallAttr[s]}
  IN
  /\ pc[w] = "project"
  /\ Kind[s] = "external_tool"
  /\ IF CallAttr[s] = None \/ matches = {}
     THEN UNCHANGED job
     ELSE \E t \in matches : job' = [job EXCEPT ![w].mate = t]
  /\ Goto(w, "insert")
  /\ UNCHANGED <<tables, history>>

UpsertExternalToolCall(w) ==
  LET s == job[w].span IN
  /\ pc[w] = "insert"
  /\ InsertProjection(s)
  /\ paired' = [paired EXCEPT ![s] = Coalesce(@, job[w].mate)]
  /\ Goto(w, "walk")
  /\ job' = [job EXCEPT ![w].mate = None, ![w].target = s]
  /\ UNCHANGED <<spanTable, hooked, ptr, toolCount, session, history>>

\* A span of another kind has no projection.
SkipProjection(w) ==
  LET s == job[w].span IN
  /\ pc[w] = "project"
  /\ Kind[s] = "other"
  /\ Goto(w, "walk")
  /\ job' = [job EXCEPT ![w].target = s]
  /\ UNCHANGED <<tables, history>>

\* walk_ancestors from the span itself, or from a descendant still to do.
WalkAncestors(w, t) ==
  /\ \/ pc[w] = "walk" /\ t = job[w].target
     \/ pc[w] = "next" /\ t \in job[w].todo
  /\ job' = [job EXCEPT ![w].target = t,
                        ![w].todo = @ \ {t},
                        ![w].found = NearestAncestors(t),
                        ![w].foundConv = NearestConversation(t)]
  /\ Goto(w, "apply")
  /\ UNCHANGED <<tables, history>>

\* Where resolve_projection_pointers(target) returns to.
AfterResolve(w) ==
  IF job[w].target # job[w].span THEN "next"
  ELSE job[w].after

\* Fill the NULL columns `cols` of target, and the conversation_id of its rows
\* in table t, with what the walk found.
FillIn(w, t, cols, rows) ==
  LET s == job[w].target IN
  /\ ptr' = [c \in Column |-> [u \in Span |->
       IF u = s /\ c \in cols THEN Coalesce(ptr[c][u], job[w].found[c])
       ELSE ptr[c][u]]]
  /\ conv' = [conv EXCEPT ![t][s] =
       IF s \in rows THEN Coalesce(@, job[w].foundConv) ELSE @]

\* UPDATE agent_runs | chat_turns | tool_calls | external_tool_calls
\* WHERE span_pk = target
ApplyToProjection(w) ==
  LET s == job[w].target IN
  /\ pc[w] = "apply"
  /\ FillIn(w, "projection", ProjectionColumns(s), projected)
  /\ Goto(w, "apply_hooks")
  /\ UNCHANGED <<spanTable, projected, hooked, paired, toolCount, session,
                 history, job>>

\* UPDATE hook_invocations WHERE span_pk = target
ApplyToHooks(w) ==
  LET s == job[w].target IN
  /\ pc[w] = "apply_hooks"
  /\ FillIn(w, "hook", HookColumns(s), hooked)
  /\ Goto(w, AfterResolve(w))
  /\ job' = [job EXCEPT ![w].found = Nothing, ![w].foundConv = None,
                        ![w].target = None]
  /\ UNCHANGED <<spanTable, projected, hooked, paired, toolCount, session,
                 history>>

\* forward_resolve_descendants lists the descendants it will resolve.
ListDescendants(w) ==
  /\ pc[w] = "forward"
  /\ job' = [job EXCEPT ![w].todo = Descendants(job[w].span)]
  /\ Goto(w, "next")
  /\ UNCHANGED <<tables, history>>

\* effective_conversation_id, once every descendant is resolved.
ReadConversation(w) ==
  LET c == NearestConversation(job[w].span) IN
  /\ pc[w] = "next"
  /\ job[w].todo = {}
  /\ job' = [job EXCEPT ![w].conv = c]
  /\ Goto(w, IF c # None THEN "session"
             ELSE IF job[w].span \in Eventful THEN "derive" ELSE "refresh")
  /\ UNCHANGED <<tables, history>>

\* Mistake: the counters are only computed for a new session.
UpsertSessionOnce(w) ==
  /\ pc[w] = "session"
  /\ session' = [session EXCEPT ![job[w].conv] = Coalesce(@, NewSession)]
  /\ Goto(w, IF session[job[w].conv] = None THEN "count"
             ELSE IF job[w].span \in Eventful THEN "derive" ELSE "refresh")
  /\ UNCHANGED <<spanTable, projections, history, job>>

\* INSERT INTO sessions ... ON CONFLICT DO UPDATE
UpsertSession(w) ==
  /\ pc[w] = "session"
  /\ session' = [session EXCEPT ![job[w].conv] = Coalesce(@, NewSession)]
  /\ Goto(w, "count")
  /\ UNCHANGED <<spanTable, projections, history, job>>

\* UPDATE sessions SET chat_turn_count = (SELECT COUNT(*) ...), ...
RecountSession(w) ==
  LET c == job[w].conv IN
  /\ pc[w] = "count"
  /\ session' = [session EXCEPT ![c] =
       [chat_turn |-> Cardinality(Members("chat", c)),
        tool_call |-> Cardinality(Members("execute_tool", c)),
        agent_run |-> Cardinality(Members("invoke_agent", c))]]
  /\ Goto(w, IF job[w].span \in Eventful THEN "derive" ELSE "refresh")
  /\ UNCHANGED <<spanTable, projections, history, job>>

\* derive_from_events: a row for the hook event of the span, then
\* resolve_projection_pointers once more.
DeriveFromEvents(w) ==
  LET s == job[w].span IN
  /\ pc[w] = "derive"
  /\ hooked' = hooked \cup {s}
  /\ conv' = [conv EXCEPT !["hook"][s] = Coalesce(@, job[w].conv)]
  /\ job' = [job EXCEPT ![w].after = "refresh", ![w].target = s]
  /\ Goto(w, "walk")
  /\ UNCHANGED <<spanTable, projected, ptr, paired, toolCount, session, history>>

\* Mistake: only the span that is a chat turn itself is recounted.
OwnChatTurn(s) == {c \in projected : c = s /\ Kind[s] = "chat"}

\* The chat turns refresh_chat_turn_tool_count_for_span recounts for s.
ChatTurnsOf(s) ==
  {c \in projected : \/ c = s /\ Kind[s] = "chat"
                     \/ /\ s \in projected
                        /\ Kind[s] \in {"execute_tool", "external_tool"}
                        /\ ptr["chat"][s] = c}

RefreshToolCount(w) ==
  /\ pc[w] = "refresh"
  /\ toolCount' = [c \in Span |->
       IF c \in ChatTurnsOf(job[w].span) THEN Cardinality(ToolCallsOf(c))
       ELSE toolCount[c]]
  /\ Goto(w, "announce")
  /\ UNCHANGED <<spanTable, projected, hooked, ptr, conv, paired, session,
                 history, job>>

\* Broadcast span/span and trace/trace, and return Ok.
Announce(w) ==
  LET s == job[w].span IN
  /\ pc[w] = "announce"
  /\ heard' = [heard EXCEPT ![s] =
       @ \cup {IF job[w].prev = "placeholder" THEN "upgrade" ELSE "insert"}]
  /\ landed' = landed \cup {s}
  /\ job' = [job EXCEPT ![w] = NoJob]
  /\ Goto(w, "idle")
  /\ UNCHANGED <<sends, crossed, row, projections, session>>

\* The call ends before its next statement.
Fail(w) ==
  /\ pc[w] # "idle"
  /\ job' = [job EXCEPT ![w] = NoJob]
  /\ Goto(w, "idle")
  /\ UNCHANGED <<tables, history>>

-----------------------------------------------------------------------------

\* The next statement of a call in progress.
Step(w) ==
  \/ Lookup(w)
  \/ UpsertSpan(w)
  \/ EnsurePlaceholder(w)
  \/ UpsertAgentRunOrChatTurn(w)
  \/ UpsertToolCall(w)
  \/ PairExternalCalls(w)
  \/ LookupToolCall(w)
  \/ UpsertExternalToolCall(w)
  \/ SkipProjection(w)
  \/ \E t \in Span : WalkAncestors(w, t)
  \/ ApplyToProjection(w)
  \/ ApplyToHooks(w)
  \/ ListDescendants(w)
  \/ ReadConversation(w)
  \/ UpsertSession(w)
  \/ RecountSession(w)
  \/ DeriveFromEvents(w)
  \/ RefreshToolCount(w)
  \/ Announce(w)

SteadyNext == \E w \in Worker : Step(w) \/ \E s \in Span : Receive(w, s)

Next == SteadyNext \/ \E w \in Worker : Fail(w)

\* Ingest in which any call may fail.
Spec == Init /\ [][Next]_vars

\* Ingest in which every statement succeeds.
SteadySpec == Init /\ [][SteadyNext]_vars
\* Ingest in which every statement succeeds and no call is left unfinished:
\* the runtime polls a handler until it returns.
FairSpec == SteadySpec /\ \A w \in Worker : WF_vars(Step(w))

-----------------------------------------------------------------------------
(* Properties.                                                             *)

Job ==
  [span : Span \cup {None}, prev : RowState, mate : Span \cup {None},
   target : Span \cup {None}, found : [Column -> Span \cup {None}],
   foundConv : Conversation \cup {None}, todo : SUBSET Span,
   conv : Conversation \cup {None}, after : {"forward", "refresh"}]

TablesOK ==
  /\ sends \in [Span -> Nat]
  /\ row \in [Span -> RowState]
  /\ heard \in [Span -> SUBSET {"placeholder", "insert", "upgrade"}]
  /\ projected \subseteq Span
  /\ hooked \subseteq Span
  /\ ptr \in [Column -> [Span -> Span \cup {None}]]
  /\ conv \in [Table -> [Span -> Conversation \cup {None}]]
  /\ paired \in [Span -> Span \cup {None}]
  /\ toolCount \in [Span -> Nat]
  /\ session \in [Conversation -> Counters \cup {None}]
  /\ landed \subseteq Span
  /\ crossed \subseteq Span

\* The statements at which a call has a row whose pointers it resolves.
Resolving == {"pair", "walk", "apply", "apply_hooks"}

CallsOK ==
  /\ pc \in [Worker -> Statement]
  /\ job \in [Worker -> Job]
  /\ \A w \in Worker : pc[w] # "idle" => job[w].span \in Span
  /\ \A w \in Worker : pc[w] \in Resolving => job[w].target \in Span

\* Every variable holds a value of its type; a call in progress has a span,
\* and a target whenever it is about to use one.
TypeOK == TablesOK /\ CallsOK

\* The span table and the pointer columns only ever change as SpanLedger
\* allows: no row is downgraded, no pointer rewritten, and no pointer leads
\* anywhere but to a real ancestor of the wanted kind, however calls
\* interleave, repeat or fail (the COALESCE updates of
\* resolve_projection_pointers, ensure_placeholder's DO NOTHING).
Ledger == INSTANCE SpanLedger
KeepsLedger == Ledger!Spec

\* A row is never filed under a conversation other than that of its nearest
\* carrier of gen_ai.conversation.id, however calls interleave or fail: a walk
\* that could miss the carrier is cut short by a placeholder.
ConversationExact ==
  \A t \in Table, s \in Span : conv[t][s] \in {None, TrueConversation[s]}

\* A pointer column never names an ancestor other than the nearest one of the
\* wanted kind.  The columns are write-once, so an early wrong answer of
\* walk_ancestors would stay.
PointersExact ==
  \A c \in Column, s \in Span : ptr[c][s] \in {None, TruePointer[c][s]}

Quiescent == \A w \in Worker : pc[w] = "idle"

\* Every span from s up to its ancestor at depth i satisfies membership of S.
PathIn(S, s, i) == \A j \in 0..i : At(s, j) \in S

\* When nothing is in flight, a row has every pointer and the conversation
\* that its lineage provides, provided each span on the way up has been
\* normalized to its end at least once: whichever of them came last resolved
\* it, by its own walk or through forward_resolve_descendants.
Reconciled ==
  Quiescent =>
    \A s \in Span :
      /\ \A c \in ProjectionColumns(s) \cup HookColumns(s) : \A i \in Depths(s) :
           /\ i > 0
           /\ Kind[At(s, i)] \in Wanted[c]
           /\ PathIn(landed, s, i)
           => ptr[c][s] # None
      /\ s \in projected =>
           \A i \in Depths(s) :
             ConvAttr[At(s, i)] # None /\ PathIn(landed, s, i)
             => conv["projection"][s] # None

\* Every real span has been normalized to its end at least once.
AllLanded == \A s \in Span : row[s] = "real" => s \in landed

\* The numbers of rows of each counted kind that belong to conversation c.
Counted(c) ==
  [chat_turn |-> Cardinality(Members("chat", c)),
   tool_call |-> Cardinality(Members("execute_tool", c)),
   agent_run |-> Cardinality(Members("invoke_agent", c))]

\* The sessions row of c is there if c has rows, and counts them.
Fresh(c) ==
  IF session[c] = None THEN \A s \in projected : conv["projection"][s] # c
  ELSE session[c] = Counted(c)

\* When nothing is in flight and no failed call is left unrepeated, each
\* conversation with a projection row has a session, and the counters of a
\* session count exactly the rows of its conversation, including rows that
\* another span's forward_resolve_descendants filed under it.
SessionsFresh == Quiescent /\ AllLanded => \A c \in Conversation : Fresh(c)

\* What is derived from the spans is complete and counted.
DerivedComplete == Reconciled /\ SessionsFresh

\* Where calls that failed have been repeated and nothing is in flight.
Complete == Quiescent /\ AllLanded

\* As the requirement "Chat turn tool count refreshed" has it: a tool call
\* anywhere under a chat turn is counted in its tool_call_count.  The code does
\* not keep it (refresh_chat_turn_tool_count_for_span).
ToolCountsFresh ==
  Complete =>
    \A s \in projected :
      Kind[s] = "chat" => toolCount[s] = Cardinality(ToolCallsOf(s))

\* The spans, besides s itself, whose calls recount chat turn s.
RecountersOf(s) ==
  {u \in projected : Kind[u] \in {"execute_tool", "external_tool"} /\ ptr["chat"][u] = s}

\* The tool calls that point at chat turn s and are directly under it, or have
\* only tool calls in between that point at it as well.
NearCallsOf(s) ==
  {t \in ToolCallsOf(s) :
     \E i \in Depths(t) : /\ i > 0 /\ At(t, i) = s
                          /\ \A j \in 1..(i - 1) : At(t, j) \in RecountersOf(s)}

\* The tool_call_count of a chat turn counts every tool call directly under it or
\* under other tool calls of it, and none that does not point at it, whichever
\* call linked them, in any order (refresh_chat_turn_tool_count_for_span).  A tool
\* call below a span of another kind may be left out: the call for that span may
\* be the one that links it, and recounts no turn.
TurnsRecounted ==
  Complete =>
    \A s \in projected :
      Kind[s] = "chat" =>
        /\ Cardinality(NearCallsOf(s)) <= toolCount[s]
        /\ toolCount[s] <= Cardinality(ToolCallsOf(s))

\* An external tool call is paired with a tool call of the same call id if there
\* is one, whichever of the two arrived first, unless the tool call came and
\* looked for its pairs between the look and the insert of the external one
\* (upsert_tool_call, upsert_external_tool_call).
PairedUp ==
  Complete =>
    \A e, t \in projected :
      /\ Kind[e] = "external_tool"
      /\ Kind[t] = "execute_tool"
      /\ CallAttr[e] # None
      /\ CallAttr[e] = CallAttr[t]
      => \/ paired[e] \in projected /\ CallAttr[paired[e]] = CallAttr[e]
         \/ e \in crossed

\* A span that is delivered once is announced with the action "insert" only if
\* its row was never announced before, as a placeholder or as an upgrade, unless
\* a child's call made the placeholder between the look at the row and the upsert
\* (normalize_span's was_placeholder).
InsertMeansNew ==
  \A s \in Span :
    sends[s] <= 1 /\ s \notin crossed /\ "insert" \in heard[s] => heard[s] = {"insert"}

-----------------------------------------------------------------------------
(* Why KeepsLedger and ConversationExact hold: what every call in progress *)
(* may rely on, although the others run between its statements.            *)

\* Derived rows belong to real spans.
RowsReal == \A s \in projected \cup hooked : row[s] = "real"

\* A call past its upsert works on real spans only.
WorksOnReal(w) ==
  /\ pc[w] \notin {"idle", "lookup", "upsert"} => row[job[w].span] = "real"
  /\ \A t \in job[w].todo : row[t] = "real"
  /\ job[w].target # None => row[job[w].target] = "real"

\* Between a walk and the updates that use it, its result stays correct: what
\* it found are real ancestors of the wanted kind.
FoundReal(w) ==
  \A c \in Column :
    job[w].found[c] # None =>
      /\ pc[w] \in {"apply", "apply_hooks"}
      /\ job[w].found[c] \in Candidates[c][job[w].target]
      /\ row[job[w].found[c]] = "real"

\* The conversation ids that a call carries are final ones.
CarriesExact(w) ==
  /\ job[w].foundConv # None =>
       /\ pc[w] \in {"apply", "apply_hooks"}
       /\ job[w].foundConv = TrueConversation[job[w].target]
  /\ job[w].conv # None => job[w].conv = TrueConversation[job[w].span]

Trusted(w) == WorksOnReal(w) /\ FoundReal(w) /\ CarriesExact(w)

\* The inductive invariant: each derived row and each call in progress can be
\* trusted at every point where another call may run or this one may fail.
Trustworthy ==
  TypeOK /\ RowsReal /\ ConversationExact /\ \A w \in Worker : Trusted(w)

-----------------------------------------------------------------------------
(* Why DerivedComplete holds: a slot that could be filled but is not, or a *)
(* session whose counters are not those of its rows, awaits a span that no *)
(* call has normalized to its end; and each call in progress for that span *)
(* is still to fill the slot, or to count the session.                     *)

\* What a row of s has to be resolved: its pointer columns, its conversation.
Slots(s) ==
  ProjectionColumns(s) \cup HookColumns(s)
    \cup (IF s \in projected THEN {"conv"} ELSE {})

Slot == Column \cup {"conv"}

Held(s, k) == IF k = "conv" THEN conv["projection"][s] ELSE ptr[k][s]

\* The span at depth i above s can fill the slot.
Source(s, k, i) ==
  IF k = "conv" THEN ConvAttr[At(s, i)] # None
  ELSE i > 0 /\ Kind[At(s, i)] \in Wanted[k]

\* Every span from s up to its ancestor at depth i is real.
RealPath(s, i) == \A j \in 0..i : row[At(s, j)] = "real"

\* A walk from s would find a source for the slot, at depth i or nearer.
Linkable(s, k, i) ==
  /\ k \in Slots(s)
  /\ Source(s, k, i)
  /\ RealPath(s, i)
  /\ k # "conv" => At(s, i) \in projected

Active(w) == pc[w] # "idle"

\* Call w is still to walk from its own span for the first time.
Early(w) ==
  \/ pc[w] \in {"lookup", "upsert", "parent", "project", "insert", "pair"}
  \/ pc[w] = "walk" /\ job[w].after = "forward"

Result(w, k) == IF k = "conv" THEN job[w].foundConv ELSE job[w].found[k]

\* Call w is about to write a result into slot k of its target.
Filling(w, k) ==
  /\ Result(w, k) # None
  /\ IF k \in HookColumn THEN pc[w] \in {"apply", "apply_hooks"}
     ELSE pc[w] = "apply" /\ job[w].after = "forward"

\* Call w has still to list the descendants of its span.
BeforeForward(w) ==
  \/ pc[w] = "forward"
  \/ /\ pc[w] \in {"apply", "apply_hooks"}
     /\ job[w].target = job[w].span
     /\ job[w].after = "forward"

\* Call w is still to resolve the hook row of its own span.
BeforeHooks(w) ==
  /\ job[w].span \in Eventful
  /\ IF job[w].after = "forward" THEN pc[w] \notin {"refresh", "announce"}
     ELSE pc[w] = "walk"

\* Call w, in progress, is still to fill slot k of s.
WillFill(w, s, k) ==
  \/ Early(w)
  \/ job[w].target = s /\ Filling(w, k)
  \/ s # job[w].span /\ BeforeForward(w)
  \/ s \in job[w].todo
  \/ s = job[w].span /\ k \in HookColumn /\ BeforeHooks(w)

\* No call for u has ended, and each one in progress is still to fill the slot.
FillAwaits(u, s, k) ==
  /\ u \notin landed
  /\ \A w \in Worker : Active(w) /\ job[w].span = u => WillFill(w, s, k)

LinksOwed ==
  \A s \in Span : \A k \in Slot, i \in Depths(s) :
    Linkable(s, k, i) =>
      Held(s, k) # None \/ \E j \in 0..i : FillAwaits(At(s, j), s, k)

\* A walk from s finds the conversation id c.
Reaches(s, c) ==
  \E i \in Depths(s) :
    /\ RealPath(s, i)
    /\ ConvAttr[At(s, i)] = c
    /\ \A j \in 0..(i - 1) : ConvAttr[At(s, j)] = None

\* Call w is still to read the effective conversation id of its span.
BeforeRead(w) ==
  /\ job[w].after = "forward"
  /\ pc[w] \notin {"session", "count", "derive", "refresh", "announce"}

WillCount(w, c) ==
  BeforeRead(w) \/ (pc[w] \in {"session", "count"} /\ job[w].conv = c)

\* No call for u has ended, and each one in progress is still to count c.
CountAwaits(u, c) ==
  /\ u \notin landed
  /\ Reaches(u, c)
  /\ \A w \in Worker : Active(w) /\ job[w].span = u => WillCount(w, c)

CountsOwed ==
  \A c \in Conversation : Fresh(c) \/ \E u \in Span : CountAwaits(u, c)

\* What the end of a call for a span leaves behind.
LandedWhole ==
  /\ \A s \in landed :
       /\ row[s] = "real"
       /\ Kind[s] # "other" => s \in projected
       /\ s \in Eventful => s \in hooked
  /\ hooked \subseteq Eventful
  /\ \A s \in Span :
       IF s \in projected
       THEN ConvAttr[s] # None => conv["projection"][s] # None
       ELSE conv["projection"][s] = None

\* Statements a call reaches only once its span has its projection row.
Projected == Statement \ {"idle", "lookup", "upsert", "parent", "project", "insert"}

\* A call passes the statements of normalize_span in their order: its own
\* span first, then each descendant, then its own events.
InStep(w) ==
  /\ Active(w) /\ job[w].after = "refresh" =>
       /\ pc[w] \in {"walk", "apply", "apply_hooks", "refresh", "announce"}
       /\ job[w].span \in hooked
  /\ pc[w] \in Projected /\ Kind[job[w].span] # "other" => job[w].span \in projected
  /\ pc[w] = "insert" => Kind[job[w].span] = "external_tool"
  /\ pc[w] = "derive" => job[w].span \in Eventful
  /\ pc[w] \in {"refresh", "announce"} /\ job[w].span \in Eventful =>
       job[w].span \in hooked
  /\ pc[w] \in {"pair", "walk"} => job[w].target = job[w].span
  /\ pc[w] \in {"apply", "apply_hooks"} =>
       \/ job[w].target = job[w].span /\ job[w].todo = {}
       \/ job[w].target # job[w].span /\ job[w].after = "forward"
  /\ pc[w] \notin {"next", "apply", "apply_hooks"} => job[w].todo = {}
  /\ job[w].span \notin job[w].todo
  /\ job[w].foundConv # None => Reaches(job[w].target, job[w].foundConv)

\* The inductive invariant of completeness.
Accountable ==
  /\ Trustworthy
  /\ LandedWhole
  /\ \A w \in Worker : InStep(w)
  /\ LinksOwed
  /\ CountsOwed

-----------------------------------------------------------------------------
(* Why TurnsRecounted, PairedUp and InsertMeansNew hold, and PointersExact *)
(* where calls do not overlap.                                             *)

\* Calls are never in progress at the same time.
Serial == \A v, w \in Worker : v = w

\* No call for u has ended, and each one in progress is still to refresh.
RefreshAwaits(u) ==
  /\ u \notin landed
  /\ \A w \in Worker : Active(w) /\ job[w].span = u => pc[w] # "announce"

\* A tool_call_count that leaves near calls out awaits the turn, or a span that
\* points at it.
ToolCountsOwed ==
  /\ \A t \in Span \ projected : ptr["chat"][t] = None /\ toolCount[t] = 0
  /\ \A c \in projected : Kind[c] = "chat" =>
       /\ toolCount[c] <= Cardinality(ToolCallsOf(c))
       /\ \/ Cardinality(NearCallsOf(c)) <= toolCount[c]
          \/ \E u \in {c} \cup RecountersOf(c) : RefreshAwaits(u)

\* Every real span has its projection row, but for those of calls on the way
\* there; so a walk in between misses no nearer ancestor.
WalksExact ==
  /\ PointersExact
  /\ \A w \in Worker, c \in Column :
       job[w].found[c] # None => job[w].found[c] = TruePointer[c][job[w].target]
  /\ \A s \in Span : row[s] = "real" /\ Kind[s] # "other" =>
       \/ s \in projected
       \/ \E w \in Worker :
            job[w].span = s /\ pc[w] \in {"parent", "project", "insert"}

\* External tool call e and tool call t carry the same call id.
SameCall(e, t) ==
  /\ Kind[e] = "external_tool" /\ Kind[t] = "execute_tool"
  /\ CallAttr[e] # None /\ CallAttr[e] = CallAttr[t]

\* m is a tool call that e may be paired with.
Mate(e, m) == m \in projected /\ CallAttr[m] = CallAttr[e]

\* No call for t has ended, and each one in progress is still to pair it.
PairAwaits(t) ==
  /\ t \notin landed
  /\ \A w \in Worker : Active(w) /\ job[w].span = t =>
       pc[w] \in {"lookup", "upsert", "parent", "project", "pair"}

\* What an external call looked up is still so when it inserts its row, but for
\* tool calls that are still to look for it; only a tool call comes to the
\* statement that pairs external calls.
MateExact(w) ==
  LET e == job[w].span IN
  /\ job[w].mate # None => pc[w] = "insert" /\ Mate(e, job[w].mate)
  /\ pc[w] = "insert" /\ job[w].mate = None /\ e \notin projected =>
       \A t \in projected : SameCall(e, t) => PairAwaits(t) \/ e \in crossed
  /\ pc[w] = "pair" => Kind[job[w].span] = "execute_tool"

PairsOwed ==
  /\ \A w \in Worker : MateExact(w)
  /\ \A e \in Span : paired[e] # None => Mate(e, paired[e])
  /\ \A e, t \in projected :
       SameCall(e, t) => paired[e] # None \/ PairAwaits(t) \/ e \in crossed

\* What the only call for a span goes on to announce.
Foretold(w) ==
  LET s == job[w].span IN
  /\ pc[w] \in {"lookup", "upsert"} => row[s] # "real"
  /\ pc[w] = "upsert" => job[w].prev = row[s] \/ s \in crossed
  /\ pc[w] \notin {"lookup", "upsert"} =>
       job[w].prev = "placeholder" \/ heard[s] = {} \/ s \in crossed

\* The bus has told of a row what the row has gone through, and a span that was
\* delivered once has one call.
Announced ==
  /\ InsertMeansNew
  /\ \A s \in Span :
       /\ row[s] = "absent" => heard[s] = {}
       /\ "insert" \in heard[s] => row[s] = "real"
       /\ sends[s] = 0 => row[s] # "real"
  /\ \A w \in Worker : Active(w) =>
       /\ sends[job[w].span] # 0
       /\ sends[job[w].span] <= 1 =>
            /\ "insert" \notin heard[job[w].span]
            /\ Foretold(w)
            /\ \A v \in Worker : Active(v) /\ job[v].span = job[w].span => v = w

-----------------------------------------------------------------------------

\* Once a span and its ancestors up to the nearest one a column wants have all
\* been received, the column is eventually filled in.
EventuallyLinked ==
  \A s \in Span :
    \A c \in {k \in {"agent", "chat", "invoker"} :
               TruePointer[k][s] # None /\ (k = "invoker" => Kind[s] = "invoke_agent")} :
      LET a == TruePointer[c][s] IN
      (/\ c \in ProjectionColumns(s)
       /\ \E i \in Depths(s) :
            /\ i > 0
            /\ At(s, i) = a
            /\ \A j \in 0..i : sends[At(s, j)] > 0)
      ~> ptr[c][s] = a
=============================================================================

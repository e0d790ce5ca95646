# A verification development for ghcp-mon

ghcp-mon is a local OpenTelemetry collector with a dashboard. It receives the
spans that a coding agent emits, stores them in SQLite, derives sessions, agent
runs, chat turns and tool calls from them, and shows the result live in a web
front end and a terminal UI. This directory holds TLA+ models of its logic,
the TLC configurations that check them, and proofs checked by TLAPS.

Source paths below are relative to the repository (`src/…` is the Rust crate,
`web/src/…` the dashboard).

## 1. Inventory

### The system and how its parts interact

```
 exporter ──OTLP/JSONL──▶ ingest ──▶ normalization ──▶ SQLite (WAL, 8 connections)
                                          │                ▲        ▲
                                          ▼                │        │
                                    broadcast bus       REST API ◀──┤ delete, export
                                          │                ▲
                                          ▼                │
                                   WebSocket handler       │
                                          │                │
                                          ▼                │
                           TUI / web client ── query cache ┘
                                          │
                                          ▼
                     columns: sessions, spans, chat, tool, files; context widget
```

Every request is a task of a multi-threaded runtime. Nothing in ingest takes a
lock or opens a transaction: tasks meet only in the database, where each SQL
statement is atomic, and on the bus. Either client is one thread: what it shows
is a function of a cache that lags behind the server and of what the user did
to an earlier picture.

| component | state | operations | what is hard |
|---|---|---|---|
| span normalization (`src/normalize/mod.rs`) | the tables of `migrations/` | `normalize_span` and its helpers: about twenty SQL statements per span | children before parents, concurrent calls, a call that fails half way, the same span twice |
| ingest (`src/ingest/`) | raw records | OTLP and file-exporter conversion, `ingest_envelope` | an error in normalization is logged and dropped |
| session deletion (`src/api/mod.rs:100`) | the same tables | `delete_session` | what to delete is collected outside the transaction |
| read API (`src/api/mod.rs`) | none | lists, trees, one span, search | an answer is put together from queries of different moments |
| export, replay (`src/export.rs`, `src/ingest/replay.rs`) | none | `export_session`, replay of a file | as the read API |
| bus, WebSocket handler (`src/ws/`) | a bounded broadcast channel | send, receive, lag | a slow client loses events silently |
| TUI WebSocket client (`src/tui/ws.rs`) | connection, backoff, status | connect, read, reconnect | events of the time it was disconnected are gone |
| TUI query cache (`src/tui/cache.rs`) | entries, generations, in-flight fetches | get, put, invalidate, evict | stale answers, joined fetches that never end, eviction |
| TUI application (`src/tui/app.rs`, `workspace.rs`, `persist.rs`) | columns, focus, overlays, the saved file | keys, column moves, propagation of selections, restart | indexes into a list that changes, selections that several columns share |
| TUI spans scenario (`src/tui/scenarios/spans/`) | cursor, collapsed rows, follow mode, search | navigation, follow, routing of picks | live updates under a user's cursor |
| chat detail (`src/tui/scenarios/chat_detail/`, `web/src/scenarios/ChatDetail.tsx`) | what is open, the cursor, a snapshot for the search | draws, keys, hints | selection, hint, search and late answers in any order |
| file touches (`src/tui/scenarios/file_touches/`, `web/src/scenarios/FileTouches.tsx`) | open directories | draws, keys | a tree that is rebuilt from a cache that forgets |
| tool detail (`src/tui/scenarios/tool_detail/`, `widgets/searchable_text_block.rs`) | open panels, scroll, a search per block | draws, keys | blocks are named alike for every span, and keys act on those of the last draw |
| context growth (`src/tui/widgets/context_growth/`) | bar cursor | merge, geometry, painting, Enter | two sources of the same measurement, a positional cursor |
| web dashboard (`web/src/`) | rings, reveal schedules, selections | as the TUI | timers and effects between renders |

What makes each correct, in a sentence:

* **Normalization**: after any history of deliveries, a row points at the nearest
  ancestors of the wanted kinds, is filed under the conversation of its nearest
  carrier, and every denormalized counter and pairing agrees with the rows.
* **Deletion**: nothing of a deleted session stays, nothing of another is lost.
* **Read API and export**: the parts of an answer fit together, whatever was
  written between the queries they come from.
* **Cache**: an answer that was asked for before an invalidation is not shown as
  fresh after it, and every reader eventually gets an answer.
* **Bus and clients**: what arrives is in order and complete but for losses that
  have a name, and a client that loses its connection gets another one.
* **Workspace**: the keyboard is always on something that exists, every column
  owns its state, and columns that share a session or a search agree.
* **Columns**: what a column shows is that of the data of the moment; its cursor
  is on a row, its picks are what the user saw, and in the end it shows it all.

The hazards, each at its line, are listed in `PROJECT.json`.

## 2. Modules

| module | what it is |
|---|---|
| `SpanTree` | constants that describe the spans an agent emits, and the answers ancestor queries should give once everything has arrived |
| `SpanLedger` | abstract specification of the span table and the pointer columns |
| `Normalize`, `MCNormalize` | `normalize_span`, one action per SQL statement, any number of calls at once; small traces for TLC |
| `SessionStore` | deletion of sessions under the calls that write them; the rows derived from span events |
| `ReadApi`, `MCReadApi` | the handlers that read, one action per query, over `SessionStore` |
| `QueryContract` | abstract specification: what the TUI's query cache promises to the panes |
| `QueryCache`, `MCQueryCache` | the cache, the tasks that fill it, and the event loop that reads it |
| `Feed`, `MCFeed` | the bus, the task behind one socket, and either client at its end |
| `Desk`, `MCDesk` | the TUI's columns, focus, overlays, propagation of selections, and the saved workspace |
| `Forest` | how the server builds a session's tree from rows, and what the clients look up in one |
| `SpanPane`, `SpanBoard` | the Spans column of the TUI, and those of the dashboard with their reveal schedules |
| `Breakdown`, `ChatColumns` | what a chat sent and received as a tree; the chat detail column of either client |
| `FileTouches` | the file touches column of either client |
| `SearchBlock`, `ToolColumn` | a block of text that can be searched; the tool detail column of the TUI |
| `ContextWidget` | the context growth widget |
| `MCColumns` | the columns and the widget as one specification for TLC |
| `LeastNatural_proofs` | the least-number principle, for the other proofs |
| `Normalize_proofs` | lineages and nearest-ancestor queries, type correctness; the inductive invariant; `Normalize` implements `SpanLedger`; what is derived from the spans is complete, and counted |
| `SessionStore_proofs` | no row outlives its span; what calls leave is complete; deletions are exact |
| `ReadApi_proofs` | answers put together from several queries fit together |
| `QueryCache_proofs` | types, flights, eviction order; `QueryCache` implements `QueryContract` |
| `Feed_proofs` | order, losses and rings of the feed; one connection |
| `Desk_proofs` | focus, columns, saved file and deletion of the desk |
| `Columns_proofs` | sorting; bars, cursor and geometry of the context widget; the open directories of file touches |

Operators whose comment begins "Mistake:" are not part of the specifications.
Each is a plausible way to get the next definition wrong; with it in place TLC
finds the property it is paired with in `PROJECT.json` violated.

Variables marked "history" in a module are not in the code; they remember what
a property relates the present to.

### SpanTree

A span is a `(trace_id, span_id)`. Its content never changes: an exporter that
delivers a span twice delivers the same span. `Lineage[s]` is the sequence of
its proper ancestors, nearest first; the assumption that the lineage of an
ancestor is a suffix makes the parent edges a forest (a cycle of parent ids,
which no exporter emits and the code only survives through its depth limits, is
outside the model). `Kind` is the class `SpanKindClass::from_name` derives from
the span's name. The recursive SQL queries become set comprehensions over
lineages, so no recursion is needed and the module can be proved about.

### Normalize

| variable | code |
|---|---|
| `row[s]` | `spans.ingestion_state` of the row, or "absent" |
| `projected` | rows of `agent_runs`, `chat_turns`, `tool_calls`, `external_tool_calls` (a span has one kind, hence at most one of them) |
| `hooked` | rows of `hook_invocations` |
| `ptr[c][s]` | the pointer columns; a projection row is named by its span |
| `conv[t][s]` | `conversation_id` of the projection row and of the event row |
| `paired`, `toolCount` | `paired_tool_call_pk`, `tool_call_count` |
| `session[c]` | the three counters of a `sessions` row |
| `heard[s]` | actions announced on the bus |
| `pc`, `job` | the next statement and the local variables of each call |
| `sends`, `landed` | bound on deliveries; history of completed calls |
| `crossed` | history: the spans of which a call read something that another wrote before it was used: a placeholder made between the look at a row and the upsert, a tool call that paired between an external call's look and its insert |

The actions follow `normalize_span` from top to bottom: `Lookup`, `UpsertSpan`,
`EnsurePlaceholder`, one upsert for the span's kind (with `PairExternalCalls`
after a tool call and `LookupToolCall` before an external one),
`WalkAncestors`, `ApplyToProjection`, `ApplyToHooks`, then `ListDescendants`
and the same three for each descendant, `ReadConversation`, `UpsertSession`,
`RecountSession`, `DeriveFromEvents`, `RefreshToolCount`, `Announce`.
`Receive` is the arrival of an envelope at a free worker. `Fail` ends a call
before any of its statements: a database error that `?` propagates and
`ingest_envelope` logs, a dropped request, or (for all workers in turn) a crash
of the process, since every earlier statement is committed.

Simplifications: `resolve_projection_pointers` updates four projection tables
in four statements, of which three find no row, so one action stands for them;
descendants are resolved in any order (the SQL has no ORDER BY); a bus
announcement is one step with the statement before it. Rows are never deleted
here; deletion and the rows derived from events are in `SessionStore`.

Properties:

* `KeepsLedger` — `Normalize` implements `SpanLedger`: a row is never
  downgraded, a pointer never rewritten, and a pointer names a real ancestor of
  the wanted kind.
* `ConversationExact` — a row is never filed under the wrong conversation.
* `PointersExact` — a pointer never names a farther ancestor than the nearest.
* `DerivedComplete` — when nothing is in flight, everything that completed calls
  can link is linked, also when other calls failed (`Reconciled`), and the
  session counters agree with the rows if no failed call is left unrepeated
  (`SessionsFresh`).
* `TurnsRecounted` — when nothing is in flight and no failed call is left
  unrepeated, a turn's tool count covers every tool call that points at it and
  is directly under it or under other tool calls of it, whichever call linked
  them, and counts no more than point at it. `ToolCountsFresh` is the whole of
  what the requirement says, that every tool call anywhere under the turn is
  counted; the code does not keep it (`turn_uncounted`).
* `PairedUp` — then, too, the two spans of one external call are paired,
  whichever came first and however their calls interleave, but in the one order
  of statements that `crossed` names.
* `InsertMeansNew` — "insert" is announced for a row of which nothing was
  announced before, as long as the span is delivered once, but in the one order
  of statements that `crossed` names. (A span that is delivered again is
  announced as an insert again.)
* `EventuallyLinked` — a pointer whose lineage has been received is filled in.
* `Trustworthy` — the inductive invariant behind the first two; `Accountable`,
  which contains it, is the one behind `DerivedComplete`.

### SessionStore

`Normalize` follows one call statement by statement over rows that stay. Here
rows go: a span's row has an identity, its `span_pk`, which is AUTOINCREMENT and
never used twice, and a call that goes on with the `span_pk` of a row that is
gone fails on the foreign key. In return, what `Normalize` shows to be settled is
one step: the projection tables are one, and an ancestor walk happens together
with the updates it feeds (`Refile`).

A span's `Lineage` is the list of its ancestors. A walk of the SQL goes up it as
long as rows are real: `Carriers` are the heights at which it meets a
conversation id, `Nearest` takes the least, and `Below` is the same walk from the
other end.

| variable | code |
|---|---|
| `pk[s]`, `lastPk`, `real` | `spans.span_pk`, 0 without a row; the AUTOINCREMENT sequence; `ingestion_state` |
| `eventRows[s]` | rows of `span_events`, as indexes into the span's events |
| `filed[s]`, `skill[s]` | `conversation_id` of the projection row and of `skill_invocations` |
| `hook[h]` | a row of `hook_invocations`: its span, conversation, start, end and duration |
| `usage` | rows of `context_snapshots`; the foreign key of one is SET NULL when its span goes |
| `session[c]` | `chat_turn_count` of the `sessions` row |
| `pc`, `job` | each call of `normalize_span` |
| `del` | each call of `delete_session` |
| `torn`, `shared` | history: spans that appeared after a deletion had listed its traces; spans that had two calls at once, or one that failed |

A call of `normalize_span` is `Upsert`, `ClearEvents` (the DELETE), one
`InsertEvent` per event, `EnsurePlaceholder`, `Project`, `Resolve`,
`UpsertSession`, `RecountSession`, one `DeriveHook` or `DeriveOther` per event
and `Finish`. `Living` is the foreign key: the row with the call's `span_pk` is
still there. A DELETE or UPDATE by a `span_pk` that is gone does nothing, an
INSERT fails, which is one of the cases of `Fail`. `delete_session` is
`CheckExists`, `CollectTraces`, `Purge`: two reads and then one transaction,
with any steps of others between them. Every call of the session's spans can
also be in progress when the session goes.

Properties:

* `NoOrphans` — no row outlives its span, also when the call that writes it is
  still under way.
* `LeftComplete` — what calls that are over leave: types; a normalized span has
  its projection row, unless a deletion listed its trace's session before the
  span came (`WholeOrTorn`); deliveries that neither overlap nor fail leave
  exactly the span's events (`EventsOnce`); a hook whose span gives its start
  before its end has a duration once both are known, unless a deletion tore the
  trace or calls on the span overlapped or failed (`DurationsExact`).
* `DeletionExact` — a deletion leaves no row with the conversation
  (`DeletionTotal`), and takes nothing of a trace in which no span carries it
  (`OthersKept`).

Where a deletion does tear a span is in the properties: `delete_session` lists
the traces before its transaction, and a span of a trace that was not listed
yet keeps its row and loses its projection. Deleting whole traces also takes
other conversations' spans of the same traces with it; their `sessions` rows
stay, with the old counters.

### ReadApi

Most handlers ask several queries outside any transaction. One request is
followed at a time, because requests do not change what another one reads.

| variable | code |
|---|---|
| `ask` | the request: its path, what it asks for, `todo`, the queries still to come, and `rest`, the rows its loop has not reached |
| `got` | what its queries have returned: span rows, projection blocks, events, matches, kin, rows of `list_traces` |
| `seen` | history: what was projected or settled when the request came, and the spans touched or gone since |

Three handlers loop over the rows of their first query and ask the same about
each: `Inquiry` is what they ask about one, `Turn` goes on to the next.

Covered are `list_traces`, `get_trace`, the session's span tree, `list_spans`
and `get_span`, the search, and the export. Assembling a tree from the rows is
in `Forest`.

Properties:

* `AnswersFit` — the counts, root and conversation of a row of `list_traces`,
  which four queries find, fit together (`TracesAddUp`); a projection block in
  an answer is that of the very row it is shown with, even if the span was
  deleted and came back between the queries (`BlocksBelong`); events are
  complete and in order (`AnswersWhole`, also for an export); a span whose call
  has ended is shown with its parent (`ParentShown`); a search hit says where
  the text was found (`HitsExplained`).
* `ListedIfFound` — a span that a search finds for a conversation belongs to a
  session that is listed, and can thus be deleted and exported.

What makes a span a hit is `LIKE '%q%' COLLATE NOCASE` (`LikeIn`), and where it
was found is looked for with `contains` on lowercased values (`FoundIn`). The
constants `Liked` and `Text` say which fields of a span fit the one and the
other, and any two sets may be given: `_` and `%` in the text are wildcards of
LIKE only, only the SQL sees the names of attributes and the escapes of JSON
(`api/mod.rs:675, 694-698`), and it folds ASCII letters only. `HitsExplained`
excepts the spans with a field of which LIKE holds and `contains` does not
(`714-768`): they may be hits with an empty list of matches, and one such span
is in the run.

### QueryCache

| variable | code |
|---|---|
| `server[k]` | the version of the backend's data behind a key (environment) |
| `cached[k]`, `latest[k]`, `flight[k]` | the fields of an `Entry`; `flight` names the task whose channel it is |
| `lru` | `span_lru`, oldest first |
| `permit` | the one permit that `Notify` stores |
| `task[t]` | a running `cache_get`: its next step, key, generation, the answer it has, the flight it joined |
| `dirty`, `frame`, `detail` | the event loop's place: prefixes to invalidate, keys still to draw, a detail between two looks at the cache |
| `memo` | `span_detail_memo` |
| `shown[k]`, `promised[k]` | history: the answer last drawn, `server[k]` when `k` was last invalidated |

Every method of the cache holds its lock throughout and is one step; what lies
between two methods is not. A `cache_get` is `Peek`, `BeginFetch`, then either
a wait for the flight it joined or `Fetch` (the backend computes the answer),
`Put`, `FinishFetch`; `FetchFails` goes to `FinishFetch` directly; `Fallback`
is a wait whose channel closed without a message. The event loop wakes up
(`OnWsEnvelopes`, `Notified`, `OtherWakeup`), does its invalidations one prefix
at a time, and draws: `ReadList` for each list, `Search`'s hits without
fetching, and a span detail in the three looks that `cached_span_detail` takes
(`CheckMemo`, `ReadDetail`, `WriteMemo`). `DeleteSession` is the task of
`do_delete_session`, which invalidates without the loop. `Expire` is an answer
getting past its `stale_after`; the 5 s and 30 s do not matter beyond that.

Simplifications: an answer is the version it was computed from; a key is a
model value with its first segment, which is all that prefixes and eviction
look at (every prefix of `ws_invalidation_prefixes` has one segment); an entry
with no value and generation 0 is the same as no entry; answers always
deserialize; u64 generations do not wrap; a frame reads each key once.

Properties:

* `KeepsContract` — for keys that are not evicted, `QueryCache` implements
  `QueryContract`: an answer is never replaced by an older one, and one that an
  invalidation has overtaken is never presented as fresh, however late it comes.
* `Orderly` — the inductive invariant behind it.
* `FlightsEnd` — a key is marked in flight only while the task that opened the
  flight is still to end it, and a reader that waits, waits for that task.
* `LruExact` — the eviction order lists exactly the cached span keys.
* `RestsCaughtUp` — when the event loop is parked, no wakeup is pending and no
  task runs, the pane of a list shows an answer as new as the last invalidation:
  no wakeup was lost on the way there, also when a fetch was opened between the
  `put` and the `finish_fetch` of another.
* `ReadersReturn` — liveness: every `cache_get` returns.

### Feed

A behaviour has one client, `who`, chosen at the start: clients share nothing but
the bus, and the bus waits for none of them. Every channel then has one receiver
and is what that receiver has yet to read, with a mark if older messages were
overwritten first (tokio's `Lagged`).

| variables | code |
|---|---|
| `events`, `up` | what was sent on the bus; whether the server accepts connections |
| `open`, `handler`, `rx`, `wire` | a connection: `client_loop`, its bus receiver, the frames not yet read |
| `from`, `lost` | history: events sent before the hello; events dropped by an overrun, a cut or the lack of a reader |
| `task`, `attempt`, `failures`, `status`, `untold` | `WsBus::run` and its status |
| `app`, `shown`, `statusRx`, `envRx`, `batch` | the TUI's event loop and its two channels |
| `ws`, `timer`, `started`, `sockets`, `rings`, `count` | the dashboard's socket and rings |
| `seen` | the messages the client acted on, in order: events, and 0 for a hello |

Channels are the module's own bounded ones, not TCP: `WireCap` frames are under
way before a send waits. What the TUI's cache does with an event is `QueryCache`.

Properties:

* `ArrivesWhole` — a client acts on events in order and on none twice, whatever
  was lost and however often it connected again (`InOrder`, said of `Stream`:
  all that was acted on and, behind it, all that is still under way); from the
  hello on no event goes missing but by an overrun, a cut or before there was a
  reader (`NoSilentGap`); a ring holds the newest of its kind and its count is
  that of all of them (`RingsExact`).
* `OneConnection` — the status dot shows the bus's status once the event loop
  waits (`StatusFollows`); the dashboard never has two sockets, nor one while a
  timer is about to open another (`OneSocket`).
* `Flows` — the inductive invariant behind these two.
* `KeepsFlowing` — an event that was received is acted on or lost to a named
  cause, and a lost connection is replaced.

A status that changes between `App::new` and the event loop's subscription is
announced to nobody, and the dot is then wrong until the next change; `told`
excepts it.

### Desk

| variables | code |
|---|---|
| `cols`, `nextId`, `shows` | `Workspace`; a column's id is its type and a number, as in the code |
| `focus`, `last` | `Focus` (a column, the widget, none), `last_focused_column` |
| `panes` | `App::scenarios`: for each column its mode, list cursor, search text |
| `overlays`, `adding`, `picker`, `confirm`, `pending` | the keymap and log overlays, the add popover, the confirmation |
| `list` | the sessions in the cache, newest first |
| `saved` | `tui-workspace.toml`: what was saved last, or a file the parser refuses |
| `deleted`, `strayed` | history: sessions a DELETE was sent for; a column was added beside a Sessions column left on another session |

An action is a key in a mode (focus moves, moving, adding and removing columns,
picks, typing, confirmation), a fetch of the list, an advance of follow mode, or
a restart. Every action that changes the workspace saves it, and a save may
fail. `uses` splits the behaviours by kinds of keys, because all of them at once
are too many for TLC; the kinds that meet in one of the nine sets are those that
touch the same state.

Properties:

* `KeyboardHeld` — focus is a column that exists, the visible widget, or none
  when there is no column (`FocusHeld`); every column has a scenario of its own
  (`PanesOwned`); at most one overlay is up, and a confirmation is up exactly
  while a deletion is pending and never over a search being typed, which would
  take its answer as text (`OverlaysAnswer`).
* `ColumnsAgree` — detail columns search for the same text (`OneSearch`);
  columns that depend on a session show the same one, unless a column was added
  beside a Sessions column gone its own way (`OneSession`, `strayed`); tool
  detail is only sent tool calls and chat detail only chats (`KindsFit`); the
  next run has the same columns unless a save has failed (`RestartKeeps`).
* `DeletesWhatItNamed` — what is deleted is what the prompt named, even if the
  list has changed since, and no column is left on it.
* `Settled` — the inductive invariant behind all three.

### Forest, SpanPane, SpanBoard

`Forest` is pure: rows are records by span key; `SessionTree` and `TraceTree`
are the two ways the server nests and sorts them; the rest is what the TUI
(`LatestTool`, `FollowingChat`, `PriorChat`, …) and the dashboard (`Web…`) look
up.

`SpanPane` is a Spans column of the TUI. `shape` says what the session grows
into, `rows` is what the server has, `tree` what the cache has; `cursor`,
`collapsed`, `follow`, `focused` are `SpansState`; `typing`, `text`, `asked`,
`hits` the search; `hover`, `chat`, `tool` what the widget and the detail
columns are told. Properties: `PaneSound` (every row that is not under a
collapsed one is there once, below its parent; the cursor is on the span picked
last and the lit bar is its chat's, until rows come, go or change places at the
cursor or above it, and the detail columns keep that span even then
(`CursorHeld`); Enter reaches every hit; a tool's pick shows a chat that could
have read its answer, if not always the nearest where chats run under chats
(`AnswerComesLater`); the chats of a tree are one chain of predecessors; both
clients agree on a finished tree, but for external tools, which the dashboard
does not route (`ClientsAgree`)) and `PaneHovers` (the bar that lights up is
that of the cursor's chat). `notified` is `cache.changed` with its one permit;
`since` is a history of what has happened since the last pick: rows moved, the
column followed, a key took over. `FollowsLatest`, the pane's part of
`ColumnsCatchUp`, is the liveness of follow mode: unless a key engaged it when
nothing was left to come, it comes to rest on the latest tool.

`SpanBoard` is the dashboard's. `board[b]` holds a column's revealed spans, the
queue and timer of its schedule, the tree it displays, follow mode and collapsed
rows, `selected` what each column has selected; times are relative to now and
negative when overdue. Effects run after renders, and `Settled` says that they
have. Properties: `BoardSound` (of the reveals that wait, no two are due closer
together than a sixtieth of a second, `RevealsSpaced`, and yet the *i*-th is due
within the window and *i* - 1 gaps, `RevealsSoon`; a selected or found span has a
row), `BoardUnfolds` (a batch unfolds from the top; the first tree comes whole).

### Breakdown, ChatColumns

`Breakdown` is pure: the tree of what a chat sent and received, in full or as
the difference from the chat before it, for both clients. A tree is the sequence
of its nodes; ids are paths; a text is the set of words a search finds in it.
`ChatColumns` is the column: `chat`, `hint`, `query` its configuration, `loaded`
the details in the cache, `pane` the TUI's `ChatDetailState`, `web` the
dashboard's component. A draw of the TUI reconciles the state with all of them
(`Draws`). Properties: `ChatsSound` (the cursor is on a row, what the search found is on the
screen, a hint is followed as soon as it can be; and, as `Exact`, the bar marks
the cursor's node and its cells add up; the difference adds up to the chat; no
message and nothing new is hidden), `ChatsKeep` (a second draw changes nothing;
the end of a search restores what was open; the cursor moves only by keys and
hints; in the dashboard hints and hits are in view).

### FileTouches

`session` and `trees`, `details` are the column's session and its two queries of
the cache, where details come and are evicted one by one; `pane` is
`FileTouchesState` or the component's state. Paths are sequences of naturals, 0
for an empty name. Properties: `FilesSound` (a directory's counts are those of
what is in it and of calls that named it; every touched file has its row; the
clients agree, but for patches that move files and tools the TUI does not
know; and, as `OnlyUserCloses`, a directory opens when it is first shown, and
opens or closes again only by the user).

### SearchBlock, ToolColumn

`SearchBlock` is pure: the rows of a text and the matches in it, and
`SearchableTextBlockState` as a record that draws (`Reconciled`, `Counted`) and
keys (`Pressed`) change. A text is a sequence of characters; positions stand for
byte offsets.

`ToolColumn` is the column: `picked` and the text of `query` are its
configuration, written by other columns (`query` is the search box of a Spans
column with its caret), `details` the versions of the spans' details that have
come in, `pane` is `ToolDetailState`. `Body` is what the renderers put together
from a detail: lines, the metadata panel, blocks that can be searched, and the
panel of the raw attributes; `Draws` is `render`, `Handled` is `handle_key`. The
event loop takes one event and draws (`event`), so that a key always acts on the
plan of the last draw, and a detail may come in before the draw it is not meant
for. Simplifications: an item of the diff has no line in common with the other
side; the words of a prompt have no markup; the width is fixed.

Properties:

* `ToolSound` — every text on the screen is in the search of the search box, with
  its own matches counted, whatever the block of this name held before (`SearchesFit`); `Located` and
  `Wrapped` are exact (`MatchesExact`, `RowsExact`); the window starts where the
  text still fills it (`WindowFits`); no argument that has the form its renderer
  expects is dropped between the rows, the blocks and the rest
  (`ArgumentsShown`).
* `ToolKeeps` — a second draw changes nothing (`Settles`); Enter steps through
  the first searched block and touches no other, no other key moves a match, and
  a draw only if it is gone or the search is another (`Matches`).

### ContextWidget

`live`, `snaps` are the server's spans and snapshots; `tree`, `contexts`, `stale`
the cache; `cols` the columns' sessions, of which the first is the widget's;
`cursor` is `bar_cursor`, `hovered` the chat the bar publishes, `picked` what
Enter sends. Merging, geometry and the painting of sextants are operators.
Properties: `ContextSound` (a count is the one captured last, in both clients; the
chart fits its strip and the newest bars are in it; a bar is as high as its
tokens are), `ContextKeeps` (bars never change places; Enter picks the bar that
was marked, unless one came in before it).

### MCColumns

Six small state spaces in one specification: `who` says which of `SpanPane`,
`SpanBoard`, `ChatColumns`, `FileTouches`, `ContextWidget` and `ToolColumn` a
behaviour is about, each is an INSTANCE, and the variables of the others are
constant. `ColumnsCatchUp` is the liveness of three of them: a pane that follows
rests on the latest tool, a board shows all that waits to be revealed, the chart
is that of all that was captured.

## 3. Runs

| run | instance | shows |
|---|---|---|
| `spawn_failing` | turn → subagent (own conversation) → tool, 2 workers, failures anywhere, the subagent delivered twice | what a failed call leaves is right, and is completed by the last call of the lineage |
| `whole_serial` | eight spans of every kind, one worker | every order of arrival; pointers are exact |
| `line_fair` | turn → tool → tool, and the external view of the upper tool, 2 workers, fair | two calls at once: the turn's counter, pairs, announcements, and liveness |
| `nested_race` | agent → turn → subagent (a conversation of its own) → tool, 2 workers, no failures | **violated**: `PointersExact` |
| `turn_uncounted` | turn → subagent → tool, one worker | **violated**: `ToolCountsFresh` |
| `store` | an agent's run with a hook, delivered twice, a tool below it, a stranger; 2 calls, 2 deletions, or one of each and every request | deletion under calls, and answers put together from several queries |
| `cache_lists` | a list and a search, 2 tasks | safety under every order of fetches, invalidations, expiry and failure, and that no wakeup is lost |
| `cache_details` | 2 spans, room for 1, 2 tasks, fair | eviction under flights; readers return |
| `feed` | either client, two kinds of events, every channel of length 1 | order, losses, reconnects, status |
| `desk` | two sessions, four spans, two layouts, nine sets of keys | focus, ownership, propagation, restart |
| `columns` | the six columns, one per behaviour | what columns show, pick and keep, and that they catch up |
| `bar_aliased` | as `columns` | **violated**: `EnterNeverAliases` |

### Bounds

*Normalization.* A statement of one call can be affected by another call only
through rows of the same lineage, and two workers already put any statement of
one between any two of the other; the proofs below need no bound on either.
Three or four spans on one lineage give two candidates for a pointer, an
ancestor of an ancestor, and a placeholder between them. `MaxSends` bounds
deliveries of each span. Depth limits keep the code's values, 64 and 128: no
trace of these sizes reaches them. Workers are interchangeable, so the safety
runs use symmetry; the fair run does not.

*Store.* Two traces: what belongs to the session and what must not be touched. The
tool has no conversation of its own, so that it is filed only through the run
above it. The run is sent twice (`MaxSends`), so that events are replaced and a
deleted span comes back. `MaxDeletes` is 2, one `delete_session` at a time. In
behaviours with requests (`reading`) the calls about the session come one at a
time, do not fail and meet one deletion; the others have two calls at once,
failures and two deletions. `Limits` and `MaxLimit` cross both ends of the clamp.

*Cache.* Keys meet only in the eviction order and in the memo's size, so one key
shows what concerns entries, and two spans with room for one show eviction. A
list and a search share the tasks in `cache_lists`. Two tasks give a fetch and
one that joins or overtakes it; the safety theorems hold for any number. `Task`
also bounds the tasks alive at once (a draw that needs one waits for a free
one), `MaxGeneration` the fetches of a key, `MaxVersion` the changes of its
data, `MaxDisturbances` the envelopes, deletions, expiries, searches and
failures together. A draw or a search
that would pass a bound waits, and such a state is not at rest. `cache_details`
is fair, and needs no more than one disturbance: drawing and evicting alone start
fetch after fetch.

*Feed.* Channels of length 1 overrun with the second event; two events
(`MaxEvents`) of two kinds, one cut (`MaxBreaks`) and one stop of the server
(`MaxOutages`) give an overrun before, during and after a reconnect. `FailLimit`
2 instead of 5 still has a status between the first failure and the last.

*Desk.* Two sessions and a span of every kind that is routed differently. Two
layouts, the seed and one with Spans before Sessions. `MaxAdds` 2 gives two
columns of one type, `MaxFailures` 1 a save that fails and leaves the old file or
a torn one, `MaxAdvances` 1 a selection that no key made. `Habits` lists which
kinds of keys meet. This is the one run that checks deadlock: there is always a
key to press.

*Columns.* Three shapes of sessions for `SpanPane`: tools beside chats, tools
under chats, and tools under a chat that is under another; an orphan, spans that
come late, each with and without an end time. A chain of four late spans for one board, a window of three
gaps and timers late by one (`Window`, `MaxLate`). Three chats for
`ChatColumns`, of which one carries the messages of the one before it forward
and one does not, with repeated tools and an empty side; four inputs
(`MaxInputs`), which is enough to search, select, hint and clear; a bar of 7
cells, fewer than there can be segments. Four tool calls for `FileTouches`, two keys
(`MaxKeys`). For the tool detail a call for each renderer, one with a result that
comes later, one whose arguments are no object and a span that is no call, over
texts with line breaks of both kinds, matches that overlap, full rows and a match
across two; 4 columns and 6 rows; a query of up to two characters (`MaxQuery`);
two inputs where spans are picked and four where the search text is typed
(`MaxInputs`), which is enough to step, select, leave, type, return and step. (Four
inputs of all kinds, over 760 thousand states, show nothing else.) Two sessions for the widget, a sub-agent's chat that sorts between
the agent's, a terminal too small for all bars; three keys. Sessions end, so
the columns may come to rest.

`CHECK_DEADLOCK FALSE` stands where the system may rightly rest: when
deliveries or deletions run out (the runs of `Normalize` and `store`), when the
events and cuts of `feed` do and its client is connected, when the cache's bounds
are reached, and in `columns`, whose sessions end.

### Fairness

`FairSpec` of `Normalize`: weak fairness of the next statement of each call. The
runtime polls a ready task until it returns, and SQLite's busy timeout lets a
waiting writer in; a call that fails instead is the business of `Spec`. New
deliveries are never assumed.

`FairSpec` of `QueryCache`: weak fairness of the next step of each task. The
runtime polls ready tasks, and the backend answers every request, with an answer
or an error; the client sets no timeout, so without this nothing can be said.
Nothing is assumed of the event loop, of envelopes or of keys, nor of where a
task is suspended: another may act between a task's `put` and its
`finish_fetch`. That a pane shows the newest answer is therefore said of states
at rest (`RestsCaughtUp`), not under fairness: on the way there fetches of a list
can overtake each other again and again, see below.

`Spec` of `Feed`: weak fairness of the server's task, of `WsBus::run`, of the
event loop and of the dashboard's callbacks, all of which the runtimes schedule,
and of the server's restart: a server that stays down has no feed. Nothing is
assumed of events, cuts or stops.

`Spec` of `MCColumns`: the dashboard's effects (React runs them after a render)
are weakly fair. Time passes (strong fairness of `Tick`, which callbacks may
interrupt), a timer that is due fires in the end, and what is invalidated or
announced is refetched in the end. For the dashboard that is `KeepsFlowing` and
its query library; for the TUI's panes it is taken from `RestsCaughtUp`, for a
session that has stopped growing and whose fetches have ended, together with the
event loop's answer to `cache.changed` (`~notified`). These are written
as `[]<>` of the state they lead to: each of the actions makes its own guard
false, so the two are the same.

### What the violated runs say

1. *A pointer can settle on the wrong agent* (`nested_race`). The span row of a
   subagent is committed before its `agent_runs` row. A tool call below it that
   resolves its pointers in that window walks past the subagent to the outer
   agent, and `COALESCE(agent_run_pk, …)` then keeps it although the subagent's
   own call visits the row again. With one call at a time it cannot happen
   (`whole_serial`).
2. *A turn can miss a tool call for ever* (`turn_uncounted`). A subagent between a
   turn and a tool call arrives after both. Its call resolves the tool call's
   pointer to the turn, and `refresh_chat_turn_tool_count_for_span`, called for
   the subagent, recounts nothing, since a subagent has no row that points at a
   turn to be counted. Concurrency has no part in it. `TurnsRecounted` says
   which tool calls are counted all the same.
3. *Enter can pick a bar that was not marked* (`bar_aliased`). The widget's cursor
   is a position among the bars. When the chat of a sub-agent arrives, its bar
   sorts in by start time, before the cursor, and the next Enter selects the
   neighbour of the bar the user had marked. `ContextKeeps` says that nothing
   else makes it.

### What else the code does, seen while modelling

Normalization and the server:

* A tool call that inserts its row and runs its pairing statement between an
  external call's look for it and the external call's insert is not found by
  either, and the two stay unpaired (`mod.rs:297-317`). This is the one order in
  which they do: `PairedUp`, through `crossed`.
* A child that makes the placeholder of its parent between the parent's look at
  its own row and its upsert makes the bus announce a placeholder first and then
  an insert for the same row, where an upgrade would be right (`mod.rs:41-60`):
  `InsertMeansNew`, through `crossed`.
* A search for a text with `_` or `%`, for the name of an attribute, or for
  something that JSON escapes, can return spans with no matches to show.
* Exports order spans by start time, and those without one come first.

TUI:

* Fetches of a list can overtake each other again and again. `put` clears the in-flight
  mark and `finish_fetch` takes whatever mark it finds. A fetch that is opened
  between the two loses its mark, so that a further one can be opened beside it.
  That one outdates it; when it ends, it takes the newer one's mark and wakes
  the loop, which finds a stale answer and nothing in flight, and dispatches
  another, which outdates the one still under way, and so on. The comment of the
  cache (`cache.rs:5-6`) promises that fetches of a key in flight are shared; with
  overlapping fetches they are not, and while this goes on a pane may stay
  behind. It does not once the fetches end (`RestsCaughtUp`).
* While a search is typed in a Spans column, letters with Ctrl or Alt are refused
  by the input (`search_input.rs:52-55`), passed on (`scenario.rs:323-324`) and
  taken by the global layer, which matches letters with any modifier
  (`app.rs:744-753`): Ctrl-A opens the add popover, Ctrl-X removes the column. The
  comment at `app.rs:762-764` says that global keys do not apply while typing.
* A follow mode that has advanced to a tool does not look at it again: the chat
  that reads the tool's answer often comes later, and the chat columns then stay
  on the chat of before. The dashboard does catch up (`Spans.tsx:670`). Nor does
  `f` advance by itself; the column waits for the next batch or answer, while the
  dashboard's checkbox selects at once (`Spans.tsx:809-813`), as the requirement
  on follow mode has it.
* The TUI routes a picked external tool to the chat that follows it
  (`scenario.rs:152`), the dashboard only `execute_tool` (`Spans.tsx:558`).
* For a tool under a chat that is itself under a chat, both clients may pick the
  outer one: it ends later than the inner, and the search takes the next end
  anywhere in the tree, although the comment at `Spans.tsx:93` has in mind the
  chat that fires after the parent has completed.
* The cursor of a Spans column is a position: rows that come in above it leave it
  on another span than the one picked, which the detail columns still show.
* A stale span detail is never refetched while it is drawn: a hit in the memo
  bypasses the cache, and staleness does not change the generation that the memo
  compares. No envelope invalidates `["span", …]` keys either.
* A span that is still running has no end time and ranks below all that have
  ended, so follow mode prefers a finished tool to a running one.
* Hovering is not cleared when the focus leaves a Spans column by Tab;
  `on_session_switch` and `reveal_schedule.rs` have no caller.
* In the widget, Left with no cursor lands on the last bar but one, where the
  comment at `app.rs:981` has it start at the last.
* In file touches, `+` opens the directories that are present and closes the
  others; keys on an empty-state screen act on the rows of the last draw. The
  TUI's patch reader knows `Move to:` only without stars, the dashboard only
  with them, and the dashboard counts two tool names more.
* No key scrolls a focused tool detail: every draw after a key pulls the window
  back to the focused block, and that is always the metadata panel, the first
  one (`tool_detail/mod.rs:571-583`; its lines 17-18 announce `↑`/`↓` and
  `Home`/`End`, and `end_then_down_scroll_clamps` does not draw in between).
  The model does as the code does, and no property asserts it.
* Because the focus cannot leave that panel either, the searches of the argument
  blocks and the raw panel are out of the keyboard's reach, while
  `keymap_entries` lists Tab for cycling through blocks. Enter after a search
  goes to the first searched block even when only later ones match
  (`mod.rs:730-743`).
* An argument that its renderer expects as text and that is not is shown nowhere
  in that column.

Dashboard:

* Two Spans columns that both follow do not converge: each has its own reveal
  schedule, and each writes the selection of every Spans column.
* The cap of 60 reveals a second (`Spans.tsx:320-322, 430-433`, and the
  requirement on batch arrival smoothing) holds of the times at which reveals are
  due, not of the reveals: a timer that comes late reveals all that is overdue at
  once (`334-347`), and a batch that comes right after the queue has run empty
  starts anew at once (`399-446`). `RevealsSpaced` is about the former.
* A new batch is clamped only against its direct children, and memoised views
  can be one render old. Clearing the search drops what the user opened while it
  was on.

## 4. Proofs

For every trace that satisfies the assumptions of `SpanTree`, any set of
workers and failures anywhere:

| theorem | module |
|---|---|
| `TypeCorrect`: `Spec => []TypeOK` | `Normalize_proofs` |
| `AlwaysTrustworthy`: `Spec => []Trustworthy` | `Normalize_proofs` |
| `NeverMisfiled`: `Spec => []ConversationExact` | `Normalize_proofs` |
| `ImplementsLedger`: `Spec => Ledger!Spec` | `Normalize_proofs` |
| `AlwaysAccountable`: `Spec => []Accountable` | `Normalize_proofs` |
| `NothingMissing`: `Spec => []DerivedComplete` | `Normalize_proofs` |
| `NearCallsCounted`: `Spec => []TurnsRecounted` | `Normalize_proofs` |
| `PairsComplete`: `Spec => []PairedUp` | `Normalize_proofs` |
| `InsertsAreNew`: `Spec => []InsertMeansNew` | `Normalize_proofs` |
| `SerialPointersExact`: `Serial => (SteadySpec => []PointersExact)` | `Normalize_proofs` |

For any spans, events, hooks, calls and deletions:

| theorem | module |
|---|---|
| `NothingOutlives`: `Spec => []NoOrphans` | `SessionStore_proofs` |
| `EventsStayExact`: `Spec => []EventsOnce` | `SessionStore_proofs` |
| `AlwaysSound`: `Spec => []Sound` | `SessionStore_proofs` |
| `AlwaysComplete`: `Spec => []LeftComplete` | `SessionStore_proofs` |
| `DeletionsAreExact`: `Spec => DeletionExact` | `SessionStore_proofs` |

For the same, with requests of any kind, pages of any size and any texts:

| theorem | module |
|---|---|
| `StoreStaysSound`: `ReadSpec => []Sound` | `ReadApi_proofs` |
| `FoundIsListed`: `ReadSpec => []ListedIfFound` | `ReadApi_proofs` |
| `AnswersAlwaysFit`: `ReadSpec => []AnswersFit` | `ReadApi_proofs` |

For any keys, tasks, envelopes and selections, and any cap:

| theorem | module |
|---|---|
| `CacheTypeCorrect`: `Spec => []TypeOK` | `QueryCache_proofs` |
| `FlightsAlwaysEnd`: `Spec => []FlightsEnd` | `QueryCache_proofs` |
| `EvictionOrderExact`: `Spec => []LruExact` | `QueryCache_proofs` |
| `FetchesOrderly`: `Spec => []Orderly` | `QueryCache_proofs` |
| `CacheKeepsContract`: `Spec => Contract!Spec` | `QueryCache_proofs` |

For channels and rings of any length, any events, cuts, restarts and failures:

| theorem | module |
|---|---|
| `AlwaysFlows`: `Spec => []Flows` | `Feed_proofs` |
| `EventsArriveWhole`: `Spec => []ArrivesWhole` | `Feed_proofs` |
| `ConnectedOnce`: `Spec => []OneConnection` | `Feed_proofs` |

For any sessions, spans, searches, saved layouts, kinds of keys and bounds:

| theorem | module |
|---|---|
| `AlwaysSettled`: `Spec => []Settled` | `Desk_proofs` |
| `KeyboardAlwaysHeld`: `Spec => []KeyboardHeld` | `Desk_proofs` |
| `ColumnsAlwaysAgree`: `Spec => []ColumnsAgree` | `Desk_proofs` |
| `DeletesNamed`: `Spec => DeletesWhatItNamed` | `Desk_proofs` |

For any spans, snapshots, tool calls, terminals, keys and bounds, in the
`ContextWidget` and in `FileTouches` (`Files`):

| theorem | module |
|---|---|
| `MarkedStaysUp`: `WellFormed /\ Spec => []Fitting` | `Columns_proofs` |
| `BarsStayPut`: `WellFormed /\ Spec => [][Keeps]_vars` | `Columns_proofs` |
| `ChartAlwaysFits`: `WellFormed /\ Spec => []ChartFits` | `Columns_proofs` |
| `DirectoriesStayOpen`: `Files!Spec => []Files!OnlyUserCloses` | `Columns_proofs` |

The argument for normalization. `ConversationExact` and the step correspondence
with `SpanLedger` are not inductive: a call reads in one statement and writes in
a later one, so what it carries in between must be known to stay right.
`Trustworthy` adds, for each call in progress, that the rows it works on are real (`WorksOnReal`), that
what its last walk found are real ancestors of the wanted kind (`FoundReal`),
and that the conversation ids it carries are final (`CarriesExact`). These
survive the steps of other calls because a real row stays real (`RowsKept`) and
lineages do not change. A conversation id is final as soon as a walk finds it:
a placeholder has no parent, so a walk that gets as far as depth *i* has seen
every nearer span (`UnbrokenIsExact`). The same is false of pointers, which
depend on projection rows that lag behind span rows: that is `nested_race`.

That nothing is missing is said of quiescent states only, so the invariant has
to say what is owed in the others. `LinksOwed`: if a walk from a row would find
a source for one of its slots now, then the slot is filled, or some span between
the row and the source has not landed, and every call in progress for that span
is still to visit the row (`FillAwaits`: it has not walked yet, or has a result
in hand, or has the row on its list or the list still to make). `CountsOwed` is
the same for the counters of a session: they are fresh, or a span that reaches
the conversation has not landed, and every call for it is still to count. The
debt passes from call to call. Whatever makes a row linkable (a span becomes
real, a chat or an agent gets its projection row, a row gets its slots) is a
statement of a call that has all of its walk and its descendants before it, so
it takes the debt on; a call pays before it ends; and a call that fails does not
land its span, so the debt stays with that span until it is sent again. Two
facts carry the order of the code: the descendants a call lists are all that its
span's arrival can have linked (`DepthAssumption`: the forward walk reaches as
far as the backward one), and the events of a span are derived before it is
counted as landed (`InStep`, `LandedWhole`). The argument does not need that the
answers are the right ones: completeness holds in `nested_race` too.

`SerialPointersExact` has a condition that the server does not promise, and it is
in the theorem. `Serial`: calls run one at a time (`Worker` has one member), as in
an import into an idle server and in `whole_serial`. `SteadySpec` is `Spec`
without `Fail`. Neither can be dropped: `PointersExact` fails with two calls at
once (`nested_race`), and with one at a time when a call fails between its span
row and its projection row: the row is real, so later walks pass over it and
settle on a farther ancestor. `WalksExact` is what the order of the statements
gives one call: every real span has its projection row but for that of the call
itself, which does not walk before it has one, so no walk misses a nearer
ancestor.

The three before it hold of any calls at once, failed ones included.

* `ToolCountsOwed` is a debt as above: a count that leaves near calls out awaits
  the turn itself, or a span that points at it and whose call recounts it. A
  pointer is filled by a call for the tool call, for the turn, or for a row
  between; one that makes a tool call near has only tool calls of the turn
  between, so the call is for one of those (`WayUpAwaits`), and all of them end
  with `refresh_chat_turn_tool_count_for_span` before they land. For a span of
  another kind between, nothing is owed, which is `turn_uncounted`.
* `PairsOwed`: an external call that looked and found nothing has nothing to find
  when it inserts, but tool calls that have their `pair` statement before them
  (`PairAwaits`), or else it is in `crossed`: exactly a tool call that pairs between
  the look and the insert puts it there. A tool call that comes after the insert
  finds the row itself.
* `Announced` relates the bus to the rows: of an absent row nothing was said,
  "insert" was said of real rows only, and what a call read of its row is still
  so when it upserts, unless the row's placeholder was made in between
  (`crossed`). A span that is delivered once has one call.

The argument for the store. Rows go here, so nothing a call has read stays true;
what stays is that a `span_pk` is given out once. `Owned` says that a call under
way holds a `span_pk` above zero, that a hook's row names a span that has a row,
and that a span without a row has none of the others; every statement that
inserts is guarded by the foreign key (`Living`), and `Purge` takes what
cascades with the spans. For the events, `Exact` adds that a span which never had
two calls at once nor a failed one has at most one (`Alone`), that this call
still holds the span's present row, and that it has written exactly the events
before its place in the list (`Written`). A span that is deleted and comes back
under its call is shared by definition, which is where the exception in
`EventsOnce` is needed.

`Sound`, the whole invariant, has in addition: that span_pks are unique and that
a call whose row is there works on a real span (`Identified`); where the
conversation in a row, and in a call's local variables, comes from: some real
span of the same trace carries it (`Grounded`); that a call past its projection
has one (`Whole`); that the hooks a call has started so far are started
(`Timed`); that the session of every carrier is listed, or a call is about to
list it (`Listing`); and that a span whose call is over has a row above it
(`Parented`). `Grounded` is what deletions rest on. Since a deletion takes whole
traces, the carrier of a conversation stays as long as any row that was filed by
it; so when a deletion tears a row out of a span that stays, a carrier of that
trace came after the list was made. `Foreseen` says this of a deletion between
its list and its transaction: a carrier of its conversation is in a listed trace
or is torn, and each listed trace has a carrier.
`DeletionTotal` and `OthersKept` follow from it, as only
`Purge` takes rows away.

The argument for the answers. A request sees the tables at several moments, so
what it has cannot be said to be what is there; `Owing` says of everything that
an answer owes that it is in `got`, or the query for it is still to come
(`ToCome`), or one of the exceptions of the property has come about. Each query
is asked once and takes only itself off the list (`AskedNext`), and each changes
only its own part of the answer (`AnswerParts`). That what it finds is what was
owed is a matter of what writers can do meanwhile, and the histories in `seen`
are made for this: a span not in `gone` still has the `span_pk` that the first
query saw, and one not in `touched` its events, its projection is there or its
trace torn (`Kept`). For `list_traces`: a trace of which nothing is deleted only
grows (`TraceGrows`), so later counts are no smaller and a carrier that was
counted is found; and a trace that is not empty has a root (`RootThere`), since
the span with the shortest lineage has no parent among its rows, and ends and
`span_pk`s order the candidates.

The argument for the cache. `FlightsEnd` and `LruExact` are inductive given the
types: whatever takes a flight away closes its channel, and `put` moves a key to
the young end before it counts. The contract needs to know about answers that
are still on their way. `Orderly` says that fetches under way for a list key
have different generations, none above the latest, so at most one of them will
pass `put`'s comparison; and that if that one has its answer, the answer is as
new as what is cached and as the last invalidation. Opening a fetch and
invalidating both raise the latest generation and so outdate all the others. All
of it rests on generations only growing, which is why it is stated for list
keys: an eviction resets them, and nothing of the kind holds for spans.

The argument for the feed. Events are numbered as they are sent, and every stage
between the bus and the client's state only passes on what it has in the order
it has it. So the whole of it (what was acted on, the batch, the TUI's channel,
the wire, the receiver's queue) is one sequence, `Stream`, that only grows at its
young end and loses elements elsewhere: `Ordered` is preserved by taking away,
and a new event is greater than all others. For `NoSilentGap` each step that
takes an element out of `Stream` puts it into `lost`. A new connection begins
behind everything that was sent before it (`NotBegun`: nothing waits in a socket
whose handler has yet to speak), which is why a reconnect cannot repeat or
reorder. `RingExact` then is arithmetic: `seen` is ordered, so the event that
comes in is newer than all in the ring, and what falls out is the oldest.
`OneConnection` needs to know that the last change of status under way is the
status (`StatusComes`), and that a dashboard which has not started, or waits for
its timer, has no socket (`SocketOrTimer`).

The argument for the desk. What a restart brings back is a file that may be
several steps behind, so the same has to be said of the columns on the desk and
of those in the file: both are `Coherent`. Ids are `Owned`: each names its type,
none is used twice, all are older than the next to be minted, so a new column
cannot take over the scenario of one that is gone. `Bearers` says which columns
can carry a session or a search at all; without it a new column might copy a
session from a column that is not meant to follow it, and `OneSession` would not
be inductive. A Sessions column alone may be on another session than the rest,
and a column added beside it may copy from either: hence `strayed`. `FocusHeld`
survives moves and removals because `last` is clamped with `focus`. At most one
overlay is up, and the confirmation never while a search is typed
(`OverlaysAnswer`): the Sessions column that asks for it keeps the focus until it
is answered, and has nothing to type in (`PromptFits`). So only the confirmation's
own keys can change what is pending, and the prompt still names it when it is
answered. Other overlays do come up over a search, and what is typed then still
goes to the search.

The argument for the columns. Two charts of a session can be compared because
both are sorted by what does not change, a span's start and then its key:
`Sorts` shows of `InOrder`, which picks the member with *i* others before it,
that it lists every member once and in the order, so a bar is before another in
one chart exactly if it is in every chart that has both (`BarsInOrder`). `Keeps`
also says that Enter picks the bar last marked, and for that the bar must still
be there. `Marked` says so while the widget has the focus; it is kept since a
column's session cannot change under the widget's focus, and a fetch answers all
that an earlier one did and more (`Cached`: what the cache has is of the server's
rows, which here only grow; `AnswersAll`). A chart that has the marked bar is not
empty, so the branch of `Move` that gives the cursor up is not taken.
`ChartAlwaysFits` is the arithmetic of cells, with every division rounded down.
For file touches, `PaneKnown` adds to the property that the user closes only
directories that were shown, that every row of the last draw is one of those, and
that what is highlighted is what a key acts on: the code acts on the row of the
last draw under the cursor, and the property is about the row the user sees.

Assumptions used for normalization: the set of spans is finite, `None` is none
of the values, lineages form a forest, attributes have their types, the names of
the counters are not `None`, and `WalkDepth` and `ForwardDepth` are naturals, the
first not above the second (64 and 128 in the code). For the store: the set of spans is
finite, `None` is no span and no conversation, `NoRow` is no conversation, no row
and no number, a lineage is continued by those of its members, which are in the
same trace, attributes and events have their types, bounds are naturals. For the
answers: names, times and texts have their types, and the largest page is
positive. For the cache: the set of keys is finite, `None` is none of
the values, selections are sets of span keys, the cap is positive, and the
bounds are naturals. For the feed: capacities, the rings' length and
`FailLimit` are positive, bounds are naturals. For the desk: the set of sessions
is finite, `None` is none of the values, `Blank` is a search, every span has a
session, a kind and a call or none, layouts and the seed have each type at most
once, the popover lists at least one type, bounds are naturals. TLC evaluates all
of them.

Only model-checked:

* the columns, but for the four theorems above (`PaneSound`, `PaneHovers`,
  `BoardSound`, `BoardUnfolds`, `ChatsSound`, `ChatsKeep`, `ToolSound`,
  `ToolKeeps`, the counts and rows of `FilesSound`, the merging and painting of
  `ContextSound`): they compare what the code computes, a walk over a tree, a
  text or a list, with a reference definition, and the induction over that data
  is out of the provers' reach;
* `RestsCaughtUp` of the cache, which needs an invariant that relates every answer
  out of date to the wakeup, frame or fetch that will end in drawing it anew;
* liveness (`EventuallyLinked`, `ReadersReturn`, `KeepsFlowing`,
  `ColumnsCatchUp`), which is beyond the proof system.

## 5. Plan

Done: normalization, deletion and derived rows, read queries and export, cache,
bus and clients, workspace, spans, chat detail, file touches, the TUI's tool
detail, context widget.

1. **Composition**: `Feed` with the invalidations of `QueryCache`, so that a lost
   envelope is a change without one.
2. **Lists** of sessions and contexts, and the dashboard's tool detail.
3. **Replay** of an export as a round trip through `Normalize`.

## 6. Not modelled

* The raw record store: one INSERT per envelope into a table that nothing in
  normalization reads back.
* Parsing of OTLP and of the file exporter's lines, metric points, columns that
  are copied unchanged from an envelope.
* `list_sessions`, `get_session`, contexts, registries and raw records of the
  API: one query each over rows whose upkeep is modelled.
* Replay of a file, which ends in `ingest_envelope`.
* The dashboard's tool detail and the raw browser: read-only views of one answer.
  The filter by kinds of a Spans column.
* Rendering, colours, labels, column widths, the wording of log lines and event
  payloads, static assets, command line and process start-up.

`PROJECT.json` lists every component and its state.

----------------------------- MODULE QueryCache ------------------------------
(***************************************************************************)
(* The TUI's query cache (src/tui/cache.rs), the tasks that fill it and    *)
(* the event loop that reads it.  Fetches run as tasks of a multi-threaded *)
(* runtime; every method of QueryCache takes the lock once, so it is one   *)
(* step, and cache_get is a sequence of such steps with the fetch itself   *)
(* in between.                                                             *)
(*                                                                         *)
(* An answer is represented by the version of the backend's data it was    *)
(* computed from.  A key is represented by a model value with its first    *)
(* segment, which is all that prefixes and eviction look at.  An entry     *)
(* with nothing in it (no value, generation 0) and a missing entry cannot  *)
(* be told apart, so entries are total functions.                          *)
(***************************************************************************)
EXTENDS Naturals, SequencesExt

CONSTANTS
  Key,              \* query keys in use
  Segment,          \* Segment[k]: first segment of key k
  Selections,       \* the sets of span keys a frame may need details of
  Envelope,         \* <<kind, entity>> of the WebSocket envelopes that arrive
  Task,             \* tasks that may be alive at once
  SpanCap,          \* SPAN_LRU_CAP
  MaxGeneration,    \* bound: no fetch of a key is spawned past this generation
  MaxVersion,       \* bound: changes of the backend's data per key
  MaxDisturbances,  \* bound: envelopes, deletions, expiries and failed fetches
  None

SpanKey == {k \in Key : Segment[k] = "span"}
ListKey == Key \ SpanKey

ASSUME CacheAssumption ==
  /\ IsFiniteSet(Key)
  /\ None \notin Nat /\ None \notin Key /\ None \notin Task
  /\ None \notin [version : Nat, generation : Nat, stale : BOOLEAN]
  /\ Selections \subseteq SUBSET SpanKey
  /\ SpanCap \in Nat \ {0}
  /\ MaxGeneration \in Nat /\ MaxVersion \in Nat /\ MaxDisturbances \in Nat

VARIABLES
  server,    \* server[k]: version of the backend's data behind k
  cached,    \* cached[k]: the cached answer, or None
  latest,    \* latest[k]: latest_gen
  flight,    \* flight[k]: the task that opened in_flight, or None
  lru,       \* span_lru, oldest first
  permit,    \* the permit stored in `changed`
  task,      \* task[t]: local state of a cache_get
  dirty,     \* event loop: prefixes still to invalidate
  frame,     \* event loop: keys still to read for this frame
  detail,    \* event loop: a span detail being read, or None
  memo,      \* span_detail_memo
  shown,     \* history: shown[k], the answer last drawn
  promised,  \* history: promised[k], server[k] at the last invalidation of k
  left       \* disturbances left

entries == <<cached, latest, flight, lru>>
loop == <<dirty, frame, detail, memo, shown>>
history == <<promised, left>>
vars == <<server, entries, permit, task, loop, history>>

-----------------------------------------------------------------------------

Steps == {"idle", "peek", "begin", "fetch", "put", "finish", "fail", "wait", "fallback"}
Idle == [step |-> "idle", key |-> None, generation |-> 0, version |-> None, joined |-> None]

\* The frame that a wakeup leads to: every list, and the details of a selection.
Frames == {ListKey \cup D : D \in Selections}

Init ==
  /\ server = [k \in Key |-> 0]
  /\ cached = [k \in Key |-> None]
  /\ latest = [k \in Key |-> 0]
  /\ flight = [k \in Key |-> None]
  /\ lru = <<>>
  /\ permit = FALSE
  /\ task = [t \in Task |-> Idle]
  /\ dirty = {}
  /\ frame \in Frames
  /\ detail = None
  /\ memo = [k \in SpanKey |-> None]
  /\ shown = [k \in Key |-> None]
  /\ promised = [k \in Key |-> 0]
  /\ left = MaxDisturbances

Disturb == left > 0 /\ left' = left - 1

-----------------------------------------------------------------------------
(* The cache's methods, each a step under its lock.                        *)

Fresh(k) == cached[k] # None /\ ~cached[k].stale

\* Mistake: only a missing answer is fetched.
MissingOnly(k) == cached[k] = None /\ flight[k] = None

\* peek's second result.
WillRefetch(k) == ~Fresh(k) /\ flight[k] = None

\* Mistake: a waiter ignores that the channel is gone.
NeverDropped(K) == task

\* The state of tasks after the channel of k's in-flight fetch is dropped: who
\* waits on it sees it closed.
Dropped(K) ==
  [t \in Task |->
    IF task[t].step = "wait" /\ task[t].key \in K
    THEN [task[t] EXCEPT !.step = "fallback"]
    ELSE task[t]]

\* Mistake: push_back without retain.
PushedAgain(k) == Append(lru, k)

\* retain; a key is listed once at most.
Without(q, k) ==
  IF Contains(q, k) THEN RemoveAt(q, CHOOSE i \in 1..Len(q) : q[i] = k) ELSE q

\* retain, then push_back: k becomes the youngest span key.
Touched(k) == Append(Without(lru, k), k)

\* What is popped off the front to get back under the cap.
Excess(q) == IF Len(q) > SpanCap THEN Len(q) - SpanCap ELSE 0
Evicted(q) == {q[i] : i \in 1..Excess(q)}

\* Mistake: the answers to every query are kept in the eviction order.
RecencyOfAll(k) == Touched(k)

\* span_lru after an answer to k is stored, before eviction.
Recency(k) == IF k \in SpanKey THEN Touched(k) ELSE lru

\* Store an answer, close the in-flight channel without a message, and evict.
Store(k, v, g) ==
  LET q == Recency(k)
      gone == Evicted(q)
  IN  /\ cached' = [j \in Key |-> IF j \in gone THEN None
                                  ELSE IF j = k THEN [version |-> v, generation |-> g, stale |-> FALSE]
                                  ELSE cached[j]]
      /\ latest' = [j \in Key |-> IF j \in gone THEN 0 ELSE latest[j]]
      /\ flight' = [j \in Key |-> IF j \in gone \cup {k} THEN None ELSE flight[j]]
      /\ lru' = SubSeq(q, Excess(q) + 1, Len(q))

-----------------------------------------------------------------------------
(* cache_get, run by task t for its key.                                   *)

Spawned(k) == [step |-> "peek", key |-> k, generation |-> 0, version |-> None, joined |-> None]

\* A fresh answer ends the call at once.
Peek(t) ==
  /\ task[t].step = "peek"
  /\ task' = [task EXCEPT ![t] =
                IF Fresh(@.key) THEN Idle ELSE [@ EXCEPT !.step = "begin"]]
  /\ UNCHANGED <<server, entries, permit, loop, history>>

\* Join the fetch in flight, with the generation the entry has now, or open a
\* new generation.
BeginFetch(t) ==
  LET k == task[t].key IN
  /\ task[t].step = "begin"
  /\ IF flight[k] # None
     THEN /\ task' = [task EXCEPT ![t] =
                        [@ EXCEPT !.step = "wait", !.generation = latest[k], !.joined = flight[k]]]
          /\ UNCHANGED <<latest, flight>>
     ELSE /\ latest' = [latest EXCEPT ![k] = @ + 1]
          /\ flight' = [flight EXCEPT ![k] = t]
          /\ task' = [task EXCEPT ![t] =
                        [@ EXCEPT !.step = "fetch", !.generation = latest[k] + 1]]
  /\ UNCHANGED <<server, cached, lru, permit, loop, history>>

\* The backend computes the answer; the response is then under way.
Fetch(t) ==
  /\ task[t].step = "fetch"
  /\ task' = [task EXCEPT ![t] = [@ EXCEPT !.step = "put", !.version = server[task[t].key]]]
  /\ UNCHANGED <<server, entries, permit, loop, history>>

FetchFails(t) ==
  /\ task[t].step = "fetch"
  /\ Disturb
  /\ task' = [task EXCEPT ![t] = [@ EXCEPT !.step = "fail"]]
  /\ UNCHANGED <<server, entries, permit, loop, promised>>

\* Mistake: late answers are stored too.
NeverOutdated(t) == FALSE

\* An answer of an older generation is discarded, without a wakeup.
Outdated(t) == task[t].generation < latest[task[t].key]

Put(t) ==
  LET k == task[t].key
      gone == {j \in Key : flight[j] # None /\ flight'[j] = None}
  IN
  /\ task[t].step = "put"
  /\ IF Outdated(t)
     THEN UNCHANGED <<entries, permit>>
     ELSE Store(k, task[t].version, task[t].generation) /\ permit' = TRUE
  /\ task' = [Dropped(gone) EXCEPT ![t] = [task[t] EXCEPT !.step = "finish"]]
  /\ UNCHANGED <<server, loop, history>>

\* Mistake: a failed fetch returns before finish_fetch.
FinishAnswered(t) ==
  LET k == task[t].key
      answered == task[t].step = "finish"
  IN
  /\ task[t].step \in {"finish", "fail"}
  /\ flight' = IF answered THEN [flight EXCEPT ![k] = None] ELSE flight
  /\ permit' = TRUE
  /\ task' = [w \in Task |->
                IF w = t \/ (answered /\ task[w].step = "wait" /\ task[w].key = k)
                THEN Idle ELSE task[w]]
  /\ UNCHANGED <<server, cached, latest, lru, loop, history>>

\* finish_fetch takes whatever is in flight for the key and sends it the answer,
\* or Null after a failure; a waiter that gets a message returns it.
FinishFetch(t) ==
  LET k == task[t].key IN
  /\ task[t].step \in {"finish", "fail"}
  /\ flight' = [flight EXCEPT ![k] = None]
  /\ permit' = TRUE
  /\ task' = [w \in Task |->
                IF w = t \/ (task[w].step = "wait" /\ task[w].key = k) THEN Idle ELSE task[w]]
  /\ UNCHANGED <<server, cached, latest, lru, loop, history>>

\* The channel closed without a message: return what is cached, or an error.
Fallback(t) ==
  /\ task[t].step = "fallback"
  /\ task' = [task EXCEPT ![t] = Idle]
  /\ UNCHANGED <<server, entries, permit, loop, history>>

-----------------------------------------------------------------------------
(* The event loop.                                                         *)

Parked == dirty = {} /\ frame = {} /\ detail = None

Prefix ==
  {"sessions", "traces", "session-span-tree", "session-contexts", "spans", "raw", "traces-detail"}

\* ws_invalidation_prefixes.
InvalidationPrefixes(kind, entity) ==
  LET derived == kind = "derived"
      spanSpan == kind = "span" /\ entity = "span"
      spanPlaceholder == kind = "span" /\ entity = "placeholder"
      trace == kind = "trace" /\ entity = "trace"
      turn == derived /\ entity = "chat_turn"
  IN  {p \in Prefix :
        CASE p = "sessions" -> (derived /\ entity = "session") \/ turn
          [] p \in {"traces", "session-span-tree"} -> trace \/ spanSpan \/ spanPlaceholder \/ derived
          [] p = "session-contexts" -> turn \/ spanSpan \/ spanPlaceholder
          [] p = "spans" -> spanSpan \/ (derived /\ entity = "tool_call")
          [] p = "raw" -> spanSpan \/ (kind = "metric" /\ entity = "metric")
          [] p = "traces-detail" -> spanSpan}

\* Mistake: a first fetch in flight is not invalidated.
HasAnswer(k) == cached[k] # None

HasEntry(k) == latest[k] > 0 \/ cached[k] # None

\* invalidate: the keys under a prefix get a new generation and their answers
\* are made stale.  There is a wakeup if an entry matched.
InvalidateKeys(K) ==
  /\ latest' = [k \in Key |->
                  IF k \in K /\ HasEntry(k) THEN latest[k] + 1 ELSE latest[k]]
  /\ cached' = [k \in Key |->
                  IF k \in K /\ cached[k] # None THEN [cached[k] EXCEPT !.stale = TRUE] ELSE cached[k]]
  /\ permit' = (permit \/ \E k \in K : HasEntry(k))
  /\ promised' = [k \in Key |-> IF k \in K THEN server[k] ELSE promised[k]]

Under(prefix) == {k \in Key : Segment[k] = prefix}

\* A batch of envelopes is drained, perhaps after a wakeup by the cache; the union
\* of their prefixes is invalidated, one prefix after the other, before anything
\* is drawn.
OnWsEnvelopes ==
  /\ Parked
  /\ Disturb
  /\ \E batch \in SUBSET Envelope :
       /\ batch # {}
       /\ dirty' = UNION {InvalidationPrefixes(e[1], e[2]) : e \in batch}
  /\ permit' \in {permit, FALSE}
  /\ frame' \in Frames
  /\ UNCHANGED <<server, entries, task, detail, memo, shown, promised>>

Invalidate ==
  \E prefix \in dirty :
    /\ InvalidateKeys(Under(prefix))
    /\ dirty' = dirty \ {prefix}
    /\ UNCHANGED <<server, flight, lru, task, frame, detail, memo, shown, left>>

\* The task of do_delete_session invalidates on its own, at any time.
DeleteSession ==
  /\ Disturb
  /\ InvalidateKeys(Under("sessions"))
  /\ UNCHANGED <<server, flight, lru, task, loop>>

\* The `changed` arm of the loop.
Notified ==
  /\ Parked
  /\ permit
  /\ permit' = FALSE
  /\ frame' \in Frames
  /\ UNCHANGED <<server, entries, task, dirty, detail, memo, shown, history>>

\* A key press or an animation deadline.
OtherWakeup ==
  /\ Parked
  /\ frame' \in Frames
  /\ UNCHANGED <<server, entries, permit, task, dirty, detail, memo, shown, history>>

\* swr_read under policy Swr: peek, and spawn a fetch if peek says so.
SwrRead(k) ==
  IF WillRefetch(k)
  THEN /\ latest[k] < MaxGeneration
       /\ \E t \in Task : task[t] = Idle /\ task' = [task EXCEPT ![t] = Spawned(k)]
  ELSE UNCHANGED task

Value(k) == IF cached[k] = None THEN None ELSE cached[k].version
Generation(k) == IF cached[k] = None THEN 0 ELSE cached[k].generation

\* Search hits are read without fetching: see Search.
ReadList(k) ==
  /\ dirty = {} /\ detail = None
  /\ k \in frame \cap ListKey
  /\ IF Segment[k] = "search-spans" THEN UNCHANGED task ELSE SwrRead(k)
  /\ shown' = [shown EXCEPT ![k] = Value(k)]
  /\ frame' = frame \ {k}
  /\ UNCHANGED <<server, entries, permit, dirty, detail, memo, history>>

\* kick_search_debounce, when its delay is over: cache_get without a peek.
Search(k) ==
  /\ Segment[k] = "search-spans"
  /\ Disturb
  /\ \E t \in Task : task[t] = Idle /\ task' = [task EXCEPT ![t] = Spawned(k)]
  /\ UNCHANGED <<server, entries, permit, loop, promised>>

\* cached_span_detail, in three steps under the lock: compare generations, read
\* the answer, and read the generation again to file the answer under it.
MemoHit(k) == cached[k] # None /\ memo[k] # None /\ memo[k].generation = Generation(k)

CheckMemo(k) ==
  /\ dirty = {} /\ detail = None
  /\ k \in frame \cap SpanKey
  /\ IF MemoHit(k)
     THEN shown' = [shown EXCEPT ![k] = memo[k].version] /\ UNCHANGED detail
     ELSE detail' = [key |-> k, version |-> None] /\ UNCHANGED shown
  /\ frame' = frame \ {k}
  /\ UNCHANGED <<server, entries, permit, task, dirty, memo, history>>

ReadDetail ==
  /\ detail # None /\ detail.version = None
  /\ SwrRead(detail.key)
  /\ IF cached[detail.key] = None
     THEN detail' = None /\ shown' = [shown EXCEPT ![detail.key] = None]
     ELSE detail' = [detail EXCEPT !.version = Value(detail.key)] /\ UNCHANGED shown
  /\ UNCHANGED <<server, entries, permit, dirty, frame, memo, history>>

\* The memo is emptied when it has outgrown twice the cap.
WriteMemo ==
  LET k == detail.key
      filed == [memo EXCEPT ![k] = [version |-> detail.version, generation |-> Generation(k)]]
  IN
  /\ detail # None /\ detail.version # None
  /\ memo' = IF Cardinality({j \in SpanKey : filed[j] # None}) > 2 * SpanCap
             THEN [j \in SpanKey |-> None]
             ELSE filed
  /\ shown' = [shown EXCEPT ![k] = detail.version]
  /\ detail' = None
  /\ UNCHANGED <<server, entries, permit, task, dirty, frame, history>>

-----------------------------------------------------------------------------
(* The environment.                                                        *)

\* The backend's data change; an envelope about it may follow.
Change(k) ==
  /\ server[k] < MaxVersion
  /\ server' = [server EXCEPT ![k] = @ + 1]
  /\ UNCHANGED <<entries, permit, task, loop, history>>

\* An answer gets past its stale_after.
Expire(k) ==
  /\ Fresh(k)
  /\ Disturb
  /\ cached' = [cached EXCEPT ![k].stale = TRUE]
  /\ UNCHANGED <<server, latest, flight, lru, permit, task, loop, promised>>

TaskStep(t) ==
  Peek(t) \/ BeginFetch(t) \/ Fetch(t) \/ FetchFails(t) \/ Put(t) \/ FinishFetch(t) \/ Fallback(t)

Draw == (\E k \in Key : ReadList(k) \/ CheckMemo(k)) \/ ReadDetail \/ WriteMemo

Next ==
  \/ \E t \in Task : TaskStep(t)
  \/ OnWsEnvelopes \/ Invalidate \/ DeleteSession \/ Notified \/ OtherWakeup
  \/ Draw
  \/ \E k \in Key : Search(k) \/ Change(k) \/ Expire(k)

Spec == Init /\ [][Next]_vars

\* The runtime polls every ready task, and the backend answers every request
\* with an answer or an error.  Nothing is assumed of the event loop.
Fairness == \A t \in Task : WF_vars(TaskStep(t))

FairSpec == Spec /\ Fairness

-----------------------------------------------------------------------------
(* Properties.                                                             *)

AnswerOrNone == [version : Nat, generation : Nat, stale : BOOLEAN] \cup {None}
TaskState ==
  [step : Steps, key : Key \cup {None}, generation : Nat, version : Nat \cup {None},
   joined : Task \cup {None}]

TasksOK ==
  /\ task \in [Task -> TaskState]
  /\ \A t \in Task : task[t].step # "idle" => task[t].key \in Key
  /\ \A t \in Task : task[t].step = "put" => task[t].version \in Nat

\* Type invariant.
TypeOK ==
  /\ server \in [Key -> Nat]
  /\ cached \in [Key -> AnswerOrNone]
  /\ latest \in [Key -> Nat]
  /\ flight \in [Key -> Task \cup {None}]
  /\ lru \in Seq(SpanKey)
  /\ permit \in BOOLEAN
  /\ TasksOK
  /\ dirty \subseteq Prefix
  /\ frame \subseteq Key
  /\ detail \in [key : SpanKey, version : Nat \cup {None}] \cup {None}
  /\ memo \in [SpanKey -> [version : Nat, generation : Nat] \cup {None}]
  /\ shown \in [Key -> Nat \cup {None}]
  /\ promised \in [Key -> Nat]
  /\ left \in Nat

\* For keys that are not evicted the cache implements QueryContract: no answer
\* is replaced by an older one, and none that a fetch read before the last
\* invalidation is presented as fresh, however late it arrives (put's
\* comparison of generations, the bump in invalidate).
Contract ==
  INSTANCE QueryContract WITH
    Key <- ListKey,
    server <- [k \in ListKey |-> server[k]],
    board <- [k \in ListKey |-> Value(k)],
    fresh <- [k \in ListKey |-> Fresh(k)],
    promised <- [k \in ListKey |-> promised[k]]

KeepsContract == Contract!Spec

Running == {"fetch", "put", "finish", "fail"}

\* A key is marked in flight only while the task that opened the flight is still
\* to take it out again, and who waits, waits for that task: no key is blocked
\* from being fetched again and no reader is left behind, whatever is evicted,
\* fails or takes a flight that is not its own (begin_fetch, put, finish_fetch).
FlightsEnd ==
  /\ \A k \in Key : flight[k] # None =>
       task[flight[k]].key = k /\ task[flight[k]].step \in Running
  /\ \A t \in Task : task[t].step = "wait" =>
       task[t].joined = flight[task[t].key] /\ task[t].joined # None

\* The eviction order lists exactly the span keys that have an answer, each
\* once, and no more of them than the cap (put's bookkeeping).
LruExact ==
  /\ Len(lru) <= SpanCap
  /\ \A i, j \in 1..Len(lru) : lru[i] = lru[j] => i = j
  /\ ToSet(lru) = {k \in SpanKey : cached[k] # None}

\* Fetches of list keys whose answer is still to be put.
Pending(t) == task[t].step \in {"fetch", "put"} /\ task[t].key \in ListKey

AnswersBounded ==
  \A k \in ListKey :
    /\ promised[k] <= server[k]
    /\ cached[k] # None => cached[k].version <= server[k]
    /\ Fresh(k) => cached[k].version >= promised[k]

GenerationsDistinct ==
  /\ \A t \in Task : Pending(t) =>
       0 < task[t].generation /\ task[t].generation <= latest[task[t].key]
  /\ \A t, u \in Task : Pending(t) /\ Pending(u) /\ t # u /\ task[t].key = task[u].key =>
       task[t].generation # task[u].generation

FetchesBounded ==
  \A t \in Task : task[t].step = "put" /\ task[t].key \in ListKey =>
    LET k == task[t].key IN
    /\ task[t].version <= server[k]
    /\ ~Outdated(t) =>
         /\ task[t].version >= promised[k]
         /\ cached[k] # None => task[t].version >= cached[k].version

\* The invariant behind KeepsContract: of the fetches under way for a list key at
\* most one has the latest generation, and if its answer is here already it is as
\* new as the last invalidation and as what is cached (begin_fetch, put,
\* invalidate).
Orderly == AnswersBounded /\ GenerationsDistinct /\ FetchesBounded

\* The event loop has nothing left to do and nobody is going to wake it.
AtRest == Parked /\ ~permit /\ \A t \in Task : task[t] = Idle

\* When the loop and every fetch have come to rest, a pane over a list shows an
\* answer that is no older than the last invalidation: no wakeup is lost between
\* an invalidation, a fetch that fails, is late or is overtaken, one that is
\* opened between the put and the finish_fetch of another, and the parked loop
\* (notify_one, the loop's arms, swr_read, cache_get).
RestsCaughtUp ==
  AtRest =>
    \A k \in ListKey : Segment[k] # "search-spans" =>
      shown[k] # None /\ shown[k] >= promised[k]

\* Every cache_get returns, also when the fetch it joined fails, is overtaken or
\* has its entry evicted under it.
ReadersReturn == \A t \in Task : []<>(task[t].step = "idle")
=============================================================================

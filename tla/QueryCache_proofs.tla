-------------------------- MODULE QueryCache_proofs --------------------------
(***************************************************************************)
(* QueryCache keeps its types, never blocks a key behind a fetch that is   *)
(* gone, and keeps its eviction order exact, for any keys, tasks, frames   *)
(* and envelopes.                                                          *)
(***************************************************************************)
EXTENDS QueryCache, SequenceTheorems, TLAPS

-----------------------------------------------------------------------------
(* The eviction order.                                                     *)

NoRepeats(q) == \A i, j \in 1..Len(q) : q[i] = q[j] => i = j

\* The elements of a sequence are the values at its positions.
LEMMA ToSetDef ==
  ASSUME NEW S, NEW q \in Seq(S)
  PROVE  \A x : x \in ToSet(q) <=> \E i \in 1..Len(q) : q[i] = x
BY LenProperties DEF ToSet

\* Removing one position keeps the order of the others.
LEMMA RemoveOne ==
  ASSUME NEW S, NEW q \in Seq(S), NEW i \in 1..Len(q)
  PROVE  /\ RemoveAt(q, i) \in Seq(S)
         /\ Len(RemoveAt(q, i)) = Len(q) - 1
         /\ \A j \in 1..(Len(q) - 1) : RemoveAt(q, i)[j] = IF j < i THEN q[j] ELSE q[j + 1]
<1>. DEFINE l == SubSeq(q, 1, i - 1)
            r == SubSeq(q, i + 1, Len(q))
<1>1. Len(q) \in Nat /\ i \in Nat /\ \A j \in 1..Len(q) : q[j] \in S
  BY LenProperties, ElementOfSeq
<1>2. /\ l \in Seq(S) /\ Len(l) = i - 1
      /\ \A j \in 1..(i - 1) : l[j] = q[j]
  <2>1. \A j \in 1..(i - 1) : q[j] \in S
    BY <1>1
  <2>. QED
    BY <1>1, <2>1, SubSeqProperties
<1>3. /\ r \in Seq(S) /\ Len(r) = Len(q) - i
      /\ \A j \in 1..(Len(q) - i) : r[j] = q[i + j]
  <2>1. \A j \in (i + 1)..Len(q) : q[j] \in S
    BY <1>1
  <2>2. /\ r \in Seq(S)
        /\ Len(r) = IF i + 1 <= Len(q) THEN Len(q) - (i + 1) + 1 ELSE 0
        /\ \A j \in 1..(Len(q) - (i + 1) + 1) : r[j] = q[i + 1 + j - 1]
    BY <1>1, <2>1, SubSeqProperties
  <2>. QED
    BY <1>1, <2>2
<1>. HIDE DEF l, r
<1>4. /\ l \o r \in Seq(S)
      /\ Len(l \o r) = Len(l) + Len(r)
      /\ \A j \in 1..(Len(l) + Len(r)) : (l \o r)[j] = IF j <= Len(l) THEN l[j] ELSE r[j - Len(l)]
  BY <1>2, <1>3, ConcatProperties
<1>5. RemoveAt(q, i) = l \o r
  BY DEF RemoveAt, l, r
<1>6. ASSUME NEW j \in 1..(Len(q) - 1)
      PROVE  (l \o r)[j] = IF j < i THEN q[j] ELSE q[j + 1]
  <2>1. CASE j < i
    BY <1>1, <1>2, <1>3, <1>4, <2>1
  <2>2. CASE ~(j < i)
    <3>1. (l \o r)[j] = r[j - (i - 1)]
      BY <1>1, <1>2, <1>3, <1>4, <2>2
    <3>2. j - (i - 1) \in 1..(Len(q) - i)
      BY <1>1, <2>2
    <3>. QED
      BY <1>1, <1>3, <2>2, <3>1, <3>2
  <2>. QED
    BY <2>1, <2>2
<1>7. Len(l \o r) = Len(q) - 1
  BY <1>1, <1>2, <1>3, <1>4
<1>. QED
  BY <1>4, <1>5, <1>6, <1>7

\* A key that is removed is gone, and nothing else is.
LEMMA WithoutProperties ==
  ASSUME NEW S, NEW q \in Seq(S), NEW k, NoRepeats(q)
  PROVE  /\ Without(q, k) \in Seq(S)
         /\ Len(Without(q, k)) <= Len(q)
         /\ NoRepeats(Without(q, k))
         /\ ToSet(Without(q, k)) = ToSet(q) \ {k}
         /\ k \in ToSet(q) => Len(Without(q, k)) = Len(q) - 1
<1>1. Len(q) \in Nat
  BY LenProperties
<1>2. CASE ~Contains(q, k)
  <2>1. Without(q, k) = q
    BY <1>2 DEF Without
  <2>2. k \notin ToSet(q)
    BY <1>2, ToSetDef DEF Contains
  <2>. QED
    BY <1>1, <2>1, <2>2
<1>3. CASE Contains(q, k)
  <2>. DEFINE i == CHOOSE i \in 1..Len(q) : q[i] = k
              w == RemoveAt(q, i)
  <2>1. i \in 1..Len(q) /\ q[i] = k
    BY <1>3 DEF Contains
  <2>. HIDE DEF i
  <2>2. Without(q, k) = w
    BY <1>3 DEF Without, i
  <2>3. /\ w \in Seq(S) /\ Len(w) = Len(q) - 1
        /\ \A j \in 1..(Len(q) - 1) : w[j] = IF j < i THEN q[j] ELSE q[j + 1]
    BY <2>1, RemoveOne
  <2>. HIDE DEF w
  <2>. DEFINE From(j) == IF j < i THEN j ELSE j + 1
  <2>4. \A j \in 1..Len(w) : From(j) \in 1..Len(q) /\ From(j) # i /\ w[j] = q[From(j)]
    BY <1>1, <2>1, <2>3
  <2>5. NoRepeats(w)
    <3>. SUFFICES ASSUME NEW j \in 1..Len(w), NEW m \in 1..Len(w), w[j] = w[m]
                  PROVE  j = m
      BY DEF NoRepeats
    <3>1. From(j) = From(m)
      BY <2>4 DEF NoRepeats
    <3>. QED
      BY <1>1, <2>1, <2>3, <3>1
  <2>6. ToSet(w) = ToSet(q) \ {k}
    <3>1. ASSUME NEW j \in 1..Len(w)
          PROVE  w[j] \in ToSet(q) /\ w[j] # k
      BY <2>1, <2>4, ToSetDef DEF NoRepeats
    <3>2. ASSUME NEW m \in 1..Len(q), q[m] # k
          PROVE  \E j \in 1..Len(w) : w[j] = q[m]
      <4>1. CASE m < i
        <5>1. m \in 1..Len(w) /\ From(m) = m
          BY <1>1, <2>1, <2>3, <4>1
        <5>. QED
          BY <2>4, <5>1
      <4>2. CASE m > i
        <5>1. m - 1 \in 1..Len(w) /\ From(m - 1) = m
          BY <1>1, <2>1, <2>3, <4>2
        <5>. QED
          BY <2>4, <5>1
      <4>. QED
        BY <1>1, <2>1, <3>2, <4>1, <4>2
    <3>3. /\ \A x : x \in ToSet(w) <=> \E j \in 1..Len(w) : w[j] = x
          /\ \A x : x \in ToSet(q) <=> \E j \in 1..Len(q) : q[j] = x
      BY <2>3, ToSetDef
    <3>4. \A x \in ToSet(w) : x \in ToSet(q) \ {k}
      BY <3>1, <3>3
    <3>5. \A x \in ToSet(q) \ {k} : x \in ToSet(w)
      BY <3>2, <3>3
    <3>. QED
      BY <3>4, <3>5
  <2>. QED
    BY <1>1, <2>2, <2>3, <2>5, <2>6
<1>. QED
  BY <1>2, <1>3

\* A touched order is one of span keys.
LEMMA TouchedType ==
  ASSUME lru \in Seq(SpanKey), NEW k \in SpanKey
  PROVE  Touched(k) \in Seq(SpanKey)
<1>1. Without(lru, k) \in Seq(SpanKey)
  BY RemoveOne DEF Without, Contains
<1>. QED
  BY <1>1, AppendProperties DEF Touched

\* What is left after eviction is the young end, and what goes are span keys.
LEMMA EvictionType ==
  ASSUME NEW q \in Seq(SpanKey)
  PROVE  /\ SubSeq(q, Excess(q) + 1, Len(q)) \in Seq(SpanKey)
         /\ Evicted(q) \subseteq SpanKey
         /\ Excess(q) \in 0..Len(q)
<1>1. Len(q) \in Nat /\ SpanCap \in Nat
  BY CacheAssumption, LenProperties
<1>2. Excess(q) \in 0..Len(q)
  BY <1>1 DEF Excess
<1>3. \A i \in 1..Len(q) : q[i] \in SpanKey
  BY ElementOfSeq
<1>4. SubSeq(q, Excess(q) + 1, Len(q)) \in Seq(SpanKey)
  <2>1. \A i \in (Excess(q) + 1)..Len(q) : q[i] \in SpanKey
    BY <1>1, <1>2, <1>3
  <2>. QED
    BY <1>1, <1>2, <2>1, SubSeqProperties
<1>5. Evicted(q) \subseteq SpanKey
  BY <1>1, <1>2, <1>3 DEF Evicted
<1>. QED
  BY <1>2, <1>4, <1>5

\* So is the order after any answer is stored.
LEMMA RecencyType ==
  ASSUME lru \in Seq(SpanKey), NEW k \in Key
  PROVE  Recency(k) \in Seq(SpanKey)
BY TouchedType DEF Recency

-----------------------------------------------------------------------------
(* Type correctness.                                                       *)

\* A frame reads keys.
LEMMA FramesType == ASSUME NEW f \in Frames PROVE f \subseteq Key
BY CacheAssumption DEF Frames, ListKey, SpanKey

\* The types hold at first.
LEMMA InitType == Init => TypeOK
<1>. SUFFICES ASSUME Init PROVE TypeOK
  OBVIOUS
<1>. USE DEF Init
<1>1. /\ server \in [Key -> Nat] /\ latest \in [Key -> Nat] /\ promised \in [Key -> Nat]
      /\ cached \in [Key -> AnswerOrNone] /\ flight \in [Key -> Task \cup {None}]
      /\ shown \in [Key -> Nat \cup {None}]
      /\ memo \in [SpanKey -> [version : Nat, generation : Nat] \cup {None}]
      /\ permit \in BOOLEAN /\ dirty \subseteq Prefix
      /\ detail \in [key : SpanKey, version : Nat \cup {None}] \cup {None}
  BY DEF AnswerOrNone
<1>2. lru \in Seq(SpanKey)
  BY EmptySeq
<1>3. task \in [Task -> TaskState] /\ \A t \in Task : task[t].step = "idle"
  BY DEF TaskState, Idle, Steps
<1>4. frame \subseteq Key
  BY FramesType
<1>5. left \in Nat
  BY CacheAssumption
<1>. QED
  BY <1>1, <1>2, <1>3, <1>4, <1>5 DEF TypeOK, TasksOK

\* One task takes a step of its own.
LEMMA TaskType ==
  ASSUME TasksOK, NEW t \in Task, NEW r \in TaskState, task' = [task EXCEPT ![t] = r],
         r.step # "idle" => r.key \in Key, r.step = "put" => r.version \in Nat
  PROVE  TasksOK'
<1>1. \A u \in Task : task'[u] = IF u = t THEN r ELSE task[u]
  BY DEF TasksOK
<1>2. task' \in [Task -> TaskState]
  BY DEF TasksOK
<1>. QED
  BY <1>1, <1>2 DEF TasksOK

\* A new cache_get has the type of a task.
LEMMA SpawnType ==
  ASSUME TasksOK, NEW k \in Key, NEW t \in Task, task' = [task EXCEPT ![t] = Spawned(k)]
  PROVE  TasksOK'
<1>1. Spawned(k) \in TaskState /\ Spawned(k).step = "peek" /\ Spawned(k).key = k
  BY DEF Spawned, TaskState, Steps
<1>. QED
  BY <1>1, TaskType

\* So has what swr_read leaves behind.
LEMMA SwrReadType ==
  ASSUME TasksOK, NEW k \in Key, SwrRead(k)
  PROVE  TasksOK'
BY SpawnType DEF SwrRead, TasksOK

\* The updates that a task makes to its own state.
LEMMA StepUpdate ==
  ASSUME NEW r \in TaskState, NEW s \in Steps
  PROVE  /\ [r EXCEPT !.step = s] \in TaskState
         /\ [r EXCEPT !.step = s].step = s
         /\ [r EXCEPT !.step = s].key = r.key
         /\ [r EXCEPT !.step = s].version = r.version
         /\ [r EXCEPT !.step = s].generation = r.generation
         /\ [r EXCEPT !.step = s].joined = r.joined
BY DEF TaskState

\* The task that opens a flight.
LEMMA OpenUpdate ==
  ASSUME NEW r \in TaskState, NEW g \in Nat
  PROVE  LET w == [r EXCEPT !.step = "fetch", !.generation = g]
         IN  w \in TaskState /\ w.step = "fetch" /\ w.key = r.key /\ w.generation = g
BY DEF TaskState, Steps

\* The task whose answer has been computed.
LEMMA FetchUpdate ==
  ASSUME NEW r \in TaskState, NEW v \in Nat
  PROVE  LET w == [r EXCEPT !.step = "put", !.version = v]
         IN  w \in TaskState /\ w.step = "put" /\ w.key = r.key /\ w.version = v
             /\ w.generation = r.generation
BY DEF TaskState, Steps

\* A task slot that is free.
LEMMA IdleType == Idle \in TaskState /\ Idle.step = "idle"
BY DEF Idle, TaskState, Steps

\* A step of a cache_get keeps the types.
LEMMA CacheStepType ==
  ASSUME TypeOK, NEW t \in Task, TaskStep(t)
  PROVE  TypeOK'
<1>. DEFINE k == task[t].key
<1>. USE DEF entries, loop, history
<1>0. TasksOK /\ task[t] \in TaskState
  BY DEF TypeOK, TasksOK
<1>1. CASE Peek(t)
  <2>1. task' = [task EXCEPT ![t] = Idle] \/ task' = [task EXCEPT ![t] = [task[t] EXCEPT !.step = "begin"]]
    BY <1>1 DEF Peek
  <2>2. k \in Key
    BY <1>0, <1>1 DEF Peek, TasksOK
  <2>3. [task[t] EXCEPT !.step = "begin"] \in TaskState
        /\ [task[t] EXCEPT !.step = "begin"].step = "begin"
        /\ [task[t] EXCEPT !.step = "begin"].key = k
    BY <1>0 DEF TaskState, Steps
  <2>4. TasksOK'
    BY <1>0, <2>1, <2>2, <2>3, IdleType, TaskType
  <2>. QED
    BY <1>1, <2>4 DEF Peek, TypeOK
<1>2. CASE BeginFetch(t)
  <2>1. k \in Key
    BY <1>0, <1>2 DEF BeginFetch, TasksOK
  <2>2. latest[k] \in Nat /\ latest[k] + 1 \in Nat /\ flight[k] \in Task \cup {None}
    BY <2>1 DEF TypeOK
  <2>3. CASE flight[k] # None
    <3>. DEFINE r == [task[t] EXCEPT !.step = "wait", !.generation = latest[k], !.joined = flight[k]]
    <3>1. task' = [task EXCEPT ![t] = r]
      BY <1>2, <2>3 DEF BeginFetch
    <3>2. r \in TaskState /\ r.step = "wait" /\ r.key = k
      BY <1>0, <2>2 DEF TaskState, Steps
    <3>. HIDE DEF r
    <3>3. TasksOK'
      BY <1>0, <2>1, <3>1, <3>2, TaskType
    <3>. QED
      BY <1>2, <2>3, <3>3 DEF BeginFetch, TypeOK
  <2>4. CASE flight[k] = None
    <3>. DEFINE r == [task[t] EXCEPT !.step = "fetch", !.generation = latest[k] + 1]
    <3>1. /\ task' = [task EXCEPT ![t] = r]
          /\ latest' = [latest EXCEPT ![k] = latest[k] + 1]
          /\ flight' = [flight EXCEPT ![k] = t]
      BY <1>2, <2>4 DEF BeginFetch
    <3>2. r \in TaskState /\ r.step = "fetch" /\ r.key = k
      BY <1>0, <2>2, OpenUpdate
    <3>. HIDE DEF r
    <3>3. TasksOK'
      BY <1>0, <2>1, <3>1, <3>2, TaskType
    <3>4. latest' \in [Key -> Nat] /\ flight' \in [Key -> Task \cup {None}]
      BY <2>2, <3>1 DEF TypeOK
    <3>. QED
      BY <1>2, <3>3, <3>4 DEF BeginFetch, TypeOK
  <2>. QED
    BY <2>3, <2>4
<1>3. CASE Fetch(t)
  <2>. DEFINE r == [task[t] EXCEPT !.step = "put", !.version = server[k]]
  <2>1. task' = [task EXCEPT ![t] = r]
    BY <1>3 DEF Fetch
  <2>2. k \in Key
    BY <1>0, <1>3 DEF Fetch, TasksOK
  <2>3. server[k] \in Nat
    BY <2>2 DEF TypeOK
  <2>4. r \in TaskState /\ r.key = k /\ r.version = server[k]
    BY <1>0, <2>3, FetchUpdate
  <2>. HIDE DEF r
  <2>5. TasksOK'
    BY <1>0, <2>1, <2>2, <2>3, <2>4, TaskType
  <2>. QED
    BY <1>3, <2>5 DEF Fetch, TypeOK
<1>4. CASE FetchFails(t)
  <2>1. task' = [task EXCEPT ![t] = [task[t] EXCEPT !.step = "fail"]] /\ k \in Key
    BY <1>0, <1>4 DEF FetchFails, TasksOK
  <2>2. TasksOK'
    BY <1>0, <2>1, StepUpdate, TaskType DEF Steps
  <2>3. left' \in Nat
    BY <1>4 DEF FetchFails, Disturb, TypeOK
  <2>. QED
    BY <1>4, <2>2, <2>3 DEF FetchFails, TypeOK
<1>5. CASE Put(t)
  <2>. DEFINE gone == {j \in Key : flight[j] # None /\ flight'[j] = None}
  <2>1. k \in Key /\ task[t].version \in Nat /\ task[t].generation \in Nat
    BY <1>0, <1>5 DEF Put, TasksOK, TaskState
  <2>2. task' = [Dropped(gone) EXCEPT ![t] = [task[t] EXCEPT !.step = "finish"]]
    BY <1>5 DEF Put
  <2>3. TasksOK'
    <3>1. ASSUME NEW u \in Task
          PROVE  \/ task'[u] = task[u]
                 \/ task'[u] = [task[u] EXCEPT !.step = "fallback"] /\ task[u].step = "wait"
                 \/ task'[u] = [task[u] EXCEPT !.step = "finish"] /\ u = t
      BY <2>2 DEF Dropped
    <3>2. ASSUME NEW u \in Task
          PROVE  /\ task'[u] \in TaskState
                 /\ task'[u].step # "idle" => task'[u].key \in Key
                 /\ task'[u].step = "put" => task'[u].version \in Nat
      <4>1. task[u] \in TaskState
        BY <1>0 DEF TasksOK
      <4>2. CASE task'[u] = task[u]
        BY <1>0, <4>1, <4>2 DEF TasksOK
      <4>3. CASE task'[u] = [task[u] EXCEPT !.step = "fallback"] /\ task[u].step = "wait"
        <5>1. task'[u] \in TaskState /\ task'[u].step = "fallback" /\ task'[u].key = task[u].key
          BY <4>1, <4>3 DEF TaskState, Steps
        <5>. QED
          BY <1>0, <4>3, <5>1 DEF TasksOK
      <4>4. CASE task'[u] = [task[u] EXCEPT !.step = "finish"] /\ u = t
        <5>1. task'[u] \in TaskState /\ task'[u].step = "finish" /\ task'[u].key = task[u].key
          BY <4>1, <4>4 DEF TaskState, Steps
        <5>. QED
          BY <2>1, <4>4, <5>1
      <4>. QED
        BY <3>1, <4>2, <4>3, <4>4
    <3>3. task' \in [Task -> TaskState]
      BY <2>2, <3>2 DEF Dropped
    <3>. QED
      BY <3>2, <3>3 DEF TasksOK
  <2>4. /\ cached' \in [Key -> AnswerOrNone] /\ latest' \in [Key -> Nat]
        /\ flight' \in [Key -> Task \cup {None}] /\ lru' \in Seq(SpanKey)
    <3>1. CASE Outdated(t)
      BY <1>5, <3>1 DEF Put, TypeOK
    <3>2. CASE ~Outdated(t)
      <4>1. Store(k, task[t].version, task[t].generation)
        BY <1>5, <3>2 DEF Put
      <4>2. lru' \in Seq(SpanKey)
        BY <2>1, <4>1, RecencyType, EvictionType DEF Store, TypeOK
      <4>3. cached' \in [Key -> AnswerOrNone]
        BY <2>1, <4>1 DEF Store, TypeOK, AnswerOrNone
      <4>4. latest' \in [Key -> Nat] /\ flight' \in [Key -> Task \cup {None}]
        BY <4>1 DEF Store, TypeOK
      <4>. QED
        BY <4>2, <4>3, <4>4
    <3>. QED
      BY <3>1, <3>2
  <2>5. permit' \in BOOLEAN
    BY <1>5 DEF Put, TypeOK
  <2>. QED
    BY <1>5, <2>3, <2>4, <2>5 DEF Put, TypeOK
<1>6. CASE FinishFetch(t)
  <2>1. \A u \in Task : task'[u] = task[u] \/ task'[u] = Idle
    BY <1>6 DEF FinishFetch
  <2>2. task' \in [Task -> TaskState]
    BY <1>0, <1>6, <2>1, IdleType DEF FinishFetch, TasksOK
  <2>3. TasksOK'
    BY <1>0, <2>1, <2>2, IdleType DEF TasksOK
  <2>. QED
    BY <1>6, <2>3 DEF FinishFetch, TypeOK
<1>7. CASE Fallback(t)
  <2>1. TasksOK'
    BY <1>0, <1>7, IdleType, TaskType DEF Fallback
  <2>. QED
    BY <1>7, <2>1 DEF Fallback, TypeOK
<1>. QED
  BY <1>1, <1>2, <1>3, <1>4, <1>5, <1>6, <1>7 DEF TaskStep

\* An invalidation keeps the types.
LEMMA InvalidateType ==
  ASSUME TypeOK, NEW K, InvalidateKeys(K)
  PROVE  /\ latest' \in [Key -> Nat] /\ cached' \in [Key -> AnswerOrNone]
         /\ permit' \in BOOLEAN /\ promised' \in [Key -> Nat]
<1>1. latest' \in [Key -> Nat] /\ promised' \in [Key -> Nat]
  BY DEF InvalidateKeys, TypeOK
<1>2. cached' \in [Key -> AnswerOrNone]
  BY DEF InvalidateKeys, TypeOK, AnswerOrNone
<1>3. permit' \in BOOLEAN
  BY DEF InvalidateKeys, TypeOK
<1>. QED
  BY <1>1, <1>2, <1>3

\* Envelopes dirty prefixes that exist.
LEMMA PrefixType ==
  ASSUME NEW kind, NEW entity
  PROVE  InvalidationPrefixes(kind, entity) \subseteq Prefix
BY DEF InvalidationPrefixes

\* A step of the event loop keeps the types.
LEMMA LoopStepType ==
  ASSUME TypeOK,
         \/ OnWsEnvelopes \/ Invalidate \/ DeleteSession \/ Notified \/ OtherWakeup \/ Draw
  PROVE  TypeOK'
<1>. USE DEF entries, loop, history
<1>1. CASE OnWsEnvelopes
  <2>1. dirty' \subseteq Prefix
    BY <1>1, PrefixType DEF OnWsEnvelopes
  <2>2. frame' \subseteq Key /\ left' \in Nat
    BY <1>1, FramesType DEF OnWsEnvelopes, Disturb, TypeOK
  <2>3. permit' \in BOOLEAN
    BY <1>1 DEF OnWsEnvelopes, TypeOK
  <2>. QED
    BY <1>1, <2>1, <2>2, <2>3 DEF OnWsEnvelopes, TypeOK, TasksOK
<1>2. CASE Invalidate
  BY <1>2, InvalidateType DEF Invalidate, TypeOK, TasksOK
<1>3. CASE DeleteSession
  BY <1>3, InvalidateType DEF DeleteSession, Disturb, TypeOK, TasksOK
<1>4. CASE Notified
  BY <1>4, FramesType DEF Notified, TypeOK, TasksOK
<1>5. CASE OtherWakeup
  BY <1>5, FramesType DEF OtherWakeup, TypeOK, TasksOK
<1>6. ASSUME NEW k \in Key, ReadList(k)
      PROVE  TypeOK'
  <2>1. TasksOK'
    BY <1>6, SwrReadType DEF ReadList, TypeOK, TasksOK
  <2>2. shown' \in [Key -> Nat \cup {None}] /\ frame' \subseteq Key
    BY <1>6 DEF ReadList, Value, TypeOK, AnswerOrNone
  <2>. QED
    BY <1>6, <2>1, <2>2 DEF ReadList, TypeOK
<1>7. ASSUME NEW k \in Key, CheckMemo(k)
      PROVE  TypeOK'
  <2>1. shown' \in [Key -> Nat \cup {None}] /\ frame' \subseteq Key
    BY <1>7 DEF CheckMemo, MemoHit, TypeOK
  <2>2. detail' \in [key : SpanKey, version : Nat \cup {None}] \cup {None}
    BY <1>7 DEF CheckMemo, TypeOK
  <2>. QED
    BY <1>7, <2>1, <2>2 DEF CheckMemo, TypeOK, TasksOK
<1>8. CASE ReadDetail
  <2>1. detail \in [key : SpanKey, version : Nat \cup {None}] /\ detail.key \in SpanKey
    BY <1>8 DEF ReadDetail, TypeOK
  <2>2. detail.key \in Key
    BY <2>1 DEF SpanKey
  <2>3. TasksOK'
    BY <1>8, <2>2, SwrReadType DEF ReadDetail, TypeOK
  <2>4. Value(detail.key) \in Nat \cup {None}
    BY <2>2 DEF Value, TypeOK, AnswerOrNone
  <2>5. /\ detail' \in [key : SpanKey, version : Nat \cup {None}] \cup {None}
        /\ shown' \in [Key -> Nat \cup {None}]
    BY <1>8, <2>1, <2>4 DEF ReadDetail, TypeOK
  <2>. QED
    BY <1>8, <2>3, <2>5 DEF ReadDetail, TypeOK
<1>9. CASE WriteMemo
  <2>1. detail.key \in SpanKey /\ detail.version \in Nat
    BY <1>9 DEF WriteMemo, TypeOK
  <2>2. Generation(detail.key) \in Nat
    BY <2>1 DEF Generation, TypeOK, AnswerOrNone, SpanKey
  <2>. DEFINE filed == [memo EXCEPT ![detail.key] =
                          [version |-> detail.version, generation |-> Generation(detail.key)]]
  <2>3. filed \in [SpanKey -> [version : Nat, generation : Nat] \cup {None}]
    BY <2>1, <2>2 DEF TypeOK
  <2>4. [j \in SpanKey |-> None] \in [SpanKey -> [version : Nat, generation : Nat] \cup {None}]
    OBVIOUS
  <2>5. memo' = filed \/ memo' = [j \in SpanKey |-> None]
    BY <1>9 DEF WriteMemo
  <2>6. memo' \in [SpanKey -> [version : Nat, generation : Nat] \cup {None}]
    BY <2>3, <2>4, <2>5
  <2>7. shown' \in [Key -> Nat \cup {None}] /\ detail' = None
    BY <1>9, <2>1 DEF WriteMemo, TypeOK
  <2>. QED
    BY <1>9, <2>6, <2>7 DEF WriteMemo, TypeOK, TasksOK
<1>. QED
  BY <1>1, <1>2, <1>3, <1>4, <1>5, <1>6, <1>7, <1>8, <1>9 DEF Draw

\* So does one of the search's timer or of the environment.
LEMMA OtherStepType ==
  ASSUME TypeOK, NEW k \in Key, Search(k) \/ Change(k) \/ Expire(k)
  PROVE  TypeOK'
<1>. USE DEF entries, loop, history
<1>1. CASE Search(k)
  <2>1. TasksOK'
    BY <1>1, SpawnType DEF Search, TypeOK
  <2>. QED
    BY <1>1, <2>1 DEF Search, Disturb, TypeOK
<1>2. CASE Change(k)
  BY <1>2 DEF Change, TypeOK, TasksOK
<1>3. CASE Expire(k)
  <2>1. cached[k] \in [version : Nat, generation : Nat, stale : BOOLEAN]
    BY <1>3 DEF Expire, Fresh, TypeOK, AnswerOrNone
  <2>2. cached' = [cached EXCEPT ![k] = [cached[k] EXCEPT !.stale = TRUE]]
    BY <1>3 DEF Expire
  <2>3. cached' \in [Key -> AnswerOrNone]
    BY <2>1, <2>2 DEF TypeOK, AnswerOrNone
  <2>. QED
    BY <1>3, <2>3 DEF Expire, Disturb, TypeOK, TasksOK
<1>. QED
  BY <1>1, <1>2, <1>3

\* Every step keeps the types.
LEMMA NextType == TypeOK /\ [Next]_vars => TypeOK'
<1>. SUFFICES ASSUME TypeOK, [Next]_vars PROVE TypeOK'
  OBVIOUS
<1>1. CASE Next
  BY <1>1, CacheStepType, LoopStepType, OtherStepType DEF Next
<1>2. CASE UNCHANGED vars
  BY <1>2 DEF vars, entries, loop, history, TypeOK, TasksOK
<1>. QED
  BY <1>1, <1>2

\* Every variable of the cache, its tasks and the event loop keeps its type.
THEOREM CacheTypeCorrect == Spec => []TypeOK
<1>1. Init => TypeOK
  BY InitType
<1>2. TypeOK /\ [Next]_vars => TypeOK'
  BY NextType
<1>. QED
  BY <1>1, <1>2, PTL DEF Spec

-----------------------------------------------------------------------------
(* No key is blocked and no reader left behind.                            *)

\* A step that only starts a task keeps everything that is said about flights.
LEMMA SpawnKeepsFlights ==
  ASSUME TypeOK, FlightsEnd, NEW k \in Key, NEW t \in Task, task[t] = Idle,
         task' = [task EXCEPT ![t] = Spawned(k)], UNCHANGED flight
  PROVE  FlightsEnd'
<1>1. task[t].step = "idle" /\ task'[t].step = "peek" /\ \A u \in Task \ {t} : task'[u] = task[u]
  BY DEF Idle, Spawned, TypeOK, TasksOK
<1>. QED
  BY <1>1 DEF FlightsEnd, Running, TypeOK

\* swr_read only ever starts a task.
LEMMA SwrReadKeepsFlights ==
  ASSUME TypeOK, FlightsEnd, NEW k \in Key, SwrRead(k), UNCHANGED flight
  PROVE  FlightsEnd'
<1>1. CASE UNCHANGED task
  BY <1>1 DEF FlightsEnd
<1>. QED
  BY <1>1, SpawnKeepsFlights DEF SwrRead

\* So does a step of a task that neither waits nor starts to wait, and that keeps
\* running if it ran.
LEMMA OwnStepKeepsFlights ==
  ASSUME TypeOK, FlightsEnd, NEW t \in Task, NEW r \in TaskState,
         task' = [task EXCEPT ![t] = r], UNCHANGED flight,
         task[t].step # "wait", r.step # "wait",
         task[t].step \in Running => r.step \in Running /\ r.key = task[t].key
  PROVE  FlightsEnd'
<1>1. task'[t] = r /\ \A u \in Task \ {t} : task'[u] = task[u]
  BY DEF TypeOK, TasksOK
<1>2. \A j \in Key : flight[j] # None => flight[j] \in Task
  BY DEF TypeOK
<1>. QED
  BY <1>1, <1>2 DEF FlightsEnd

\* A step of a cache_get ends only flights whose waiters it releases.
LEMMA TaskStepKeepsFlights ==
  ASSUME TypeOK, FlightsEnd, NEW t \in Task, TaskStep(t)
  PROVE  FlightsEnd'
<1>. DEFINE k == task[t].key
<1>. USE DEF entries, loop, history
<1>0. /\ task \in [Task -> TaskState] /\ task[t] \in TaskState
      /\ None \notin Task /\ flight \in [Key -> Task \cup {None}]
  BY CacheAssumption DEF TypeOK, TasksOK
<1>1. CASE Peek(t) \/ Fetch(t) \/ FetchFails(t) \/ Fallback(t)
  <2>1. CASE Peek(t)
    <3>. DEFINE r == [task[t] EXCEPT !.step = "begin"]
    <3>1. r \in TaskState /\ r.step = "begin"
      BY <1>0 DEF TaskState, Steps
    <3>2. task[t].step = "peek" /\ UNCHANGED flight
          /\ (task' = [task EXCEPT ![t] = Idle] \/ task' = [task EXCEPT ![t] = r])
      BY <2>1 DEF Peek
    <3>. HIDE DEF r
    <3>. QED
      BY <3>1, <3>2, IdleType, OwnStepKeepsFlights DEF Running
  <2>2. CASE Fetch(t)
    <3>. DEFINE r == [task[t] EXCEPT !.step = "put", !.version = server[k]]
    <3>1. server[k] \in Nat
      BY <2>2 DEF Fetch, TypeOK, TasksOK
    <3>2. r \in TaskState /\ r.step = "put" /\ r.key = k
      BY <1>0, <3>1, FetchUpdate
    <3>3. task[t].step = "fetch" /\ UNCHANGED flight /\ task' = [task EXCEPT ![t] = r]
      BY <2>2 DEF Fetch
    <3>. HIDE DEF r
    <3>. QED
      BY <3>2, <3>3, OwnStepKeepsFlights DEF Running
  <2>3. CASE FetchFails(t)
    <3>. DEFINE r == [task[t] EXCEPT !.step = "fail"]
    <3>1. r \in TaskState /\ r.step = "fail" /\ r.key = k
      BY <1>0 DEF TaskState, Steps
    <3>2. task[t].step = "fetch" /\ UNCHANGED flight /\ task' = [task EXCEPT ![t] = r]
      BY <2>3 DEF FetchFails
    <3>. HIDE DEF r
    <3>. QED
      BY <3>1, <3>2, OwnStepKeepsFlights DEF Running
  <2>4. CASE Fallback(t)
    BY <2>4, IdleType, OwnStepKeepsFlights DEF Fallback, Running
  <2>. QED
    BY <1>1, <2>1, <2>2, <2>3, <2>4
<1>2. CASE BeginFetch(t)
  <2>1. task[t].step = "begin" /\ k \in Key /\ \A u \in Task \ {t} : task'[u] = task[u]
    BY <1>0, <1>2 DEF BeginFetch, TypeOK, TasksOK
  <2>2. \A j \in Key : flight[j] # t
    BY <1>0, <2>1 DEF FlightsEnd, Running
  <2>3. CASE flight[k] # None
    <3>. DEFINE r == [task[t] EXCEPT !.step = "wait", !.generation = latest[k], !.joined = flight[k]]
    <3>1. UNCHANGED flight /\ task' = [task EXCEPT ![t] = r]
      BY <1>2, <2>3 DEF BeginFetch
    <3>2. latest[k] \in Nat /\ flight[k] \in Task \cup {None}
      BY <2>1 DEF TypeOK
    <3>3. r.key = k /\ r.step = "wait" /\ r.joined = flight[k]
      BY <1>0, <3>2 DEF TaskState, Steps
    <3>. HIDE DEF r
    <3>4. /\ UNCHANGED flight
          /\ task'[t].key = k /\ task'[t].step = "wait" /\ task'[t].joined = flight[k]
      BY <1>0, <3>1, <3>3
    <3>. QED
      BY <1>0, <2>1, <2>2, <2>3, <3>4 DEF FlightsEnd
  <2>4. CASE flight[k] = None
    <3>. DEFINE r == [task[t] EXCEPT !.step = "fetch", !.generation = latest[k] + 1]
    <3>1. flight' = [flight EXCEPT ![k] = t] /\ task' = [task EXCEPT ![t] = r]
      BY <1>2, <2>4 DEF BeginFetch
    <3>2. latest[k] + 1 \in Nat
      BY <2>1 DEF TypeOK
    <3>3. r.key = k /\ r.step = "fetch"
      BY <1>0, <3>2, OpenUpdate
    <3>. HIDE DEF r
    <3>4. /\ flight' = [flight EXCEPT ![k] = t]
          /\ task'[t].key = k /\ task'[t].step = "fetch"
      BY <1>0, <3>1, <3>3
    <3>5. \A u \in Task : task[u].step = "wait" => task[u].key # k
      BY <2>4 DEF FlightsEnd
    <3>6. \A j \in Key \ {k} : flight'[j] = flight[j]
      BY <1>0, <3>4
    <3>7. flight'[k] = t
      BY <1>0, <2>1, <3>4
    <3>8. \A j \in Key : flight'[j] # None =>
            task'[flight'[j]].key = j /\ task'[flight'[j]].step \in Running
      BY <1>0, <2>1, <2>2, <3>4, <3>6, <3>7 DEF FlightsEnd, Running
    <3>9. \A u \in Task : task'[u].step = "wait" =>
            task'[u].joined = flight'[task'[u].key] /\ task'[u].joined # None
      <4>. SUFFICES ASSUME NEW u \in Task, task'[u].step = "wait"
                    PROVE  task'[u].joined = flight'[task'[u].key] /\ task'[u].joined # None
        OBVIOUS
      <4>1. task'[u] = task[u] /\ task[u].key # k /\ task[u].key \in Key
        BY <2>1, <3>4, <3>5 DEF TypeOK, TasksOK
      <4>. QED
        BY <3>6, <4>1 DEF FlightsEnd
    <3>. QED
      BY <3>8, <3>9 DEF FlightsEnd
  <2>. QED
    BY <2>3, <2>4
<1>3. CASE Put(t)
  <2>. DEFINE gone == {j \in Key : flight[j] # None /\ flight'[j] = None}
  <2>1. /\ task[t].step = "put" /\ task'[t].step = "finish" /\ task'[t].key = k
        /\ \A u \in Task \ {t} : task'[u] = IF task[u].step = "wait" /\ task[u].key \in gone
                                           THEN [task[u] EXCEPT !.step = "fallback"] ELSE task[u]
    BY <1>0, <1>3 DEF Put, Dropped, TaskState
  <2>2. \A j \in Key : flight'[j] = flight[j] \/ flight'[j] = None
    BY <1>3 DEF Put, Store
  <2>3. \A j \in Key : flight'[j] # None =>
          task'[flight'[j]].key = j /\ task'[flight'[j]].step \in Running
    <3>. SUFFICES ASSUME NEW j \in Key, flight'[j] # None
                  PROVE  task'[flight'[j]].key = j /\ task'[flight'[j]].step \in Running
      OBVIOUS
    <3>1. /\ flight'[j] = flight[j] /\ flight[j] \in Task
          /\ task[flight[j]].key = j /\ task[flight[j]].step \in Running
      BY <1>0, <2>2 DEF FlightsEnd
    <3>. QED
      BY <2>1, <3>1 DEF Running
  <2>4. \A u \in Task : task'[u].step = "wait" =>
          task'[u].joined = flight'[task'[u].key] /\ task'[u].joined # None
    <3>. SUFFICES ASSUME NEW u \in Task, task'[u].step = "wait"
                  PROVE  task'[u].joined = flight'[task'[u].key] /\ task'[u].joined # None
      OBVIOUS
    <3>1. task'[u] = task[u] /\ ~(task[u].key \in gone)
      <4>1. u # t
        BY <2>1
      <4>2. CASE task[u].step = "wait" /\ task[u].key \in gone
        <5>1. task[u] \in TaskState
          BY <1>0
        <5>. QED
          BY <2>1, <4>1, <4>2, <5>1 DEF TaskState
      <4>3. CASE ~(task[u].step = "wait" /\ task[u].key \in gone)
        BY <2>1, <4>1, <4>3
      <4>. QED
        BY <4>2, <4>3
    <3>2. task[u].key \in Key /\ task[u].joined = flight[task[u].key] /\ task[u].joined # None
      BY <3>1 DEF FlightsEnd, TypeOK, TasksOK
    <3>. QED
      BY <2>2, <3>1, <3>2
  <2>. QED
    BY <2>3, <2>4 DEF FlightsEnd
<1>4. CASE FinishFetch(t)
  <2>1. /\ k \in Key /\ flight' = [flight EXCEPT ![k] = None]
        /\ \A u \in Task : task'[u] = IF u = t \/ (task[u].step = "wait" /\ task[u].key = k)
                                      THEN Idle ELSE task[u]
    BY <1>0, <1>4 DEF FinishFetch, TypeOK, TasksOK
  <2>2. \A j \in Key : flight'[j] = IF j = k THEN None ELSE flight[j]
    BY <1>0, <2>1
  <2>3. \A j \in Key : flight'[j] # None =>
          task'[flight'[j]].key = j /\ task'[flight'[j]].step \in Running
    <3>. SUFFICES ASSUME NEW j \in Key, flight'[j] # None
                  PROVE  task'[flight'[j]].key = j /\ task'[flight'[j]].step \in Running
      OBVIOUS
    <3>1. /\ j # k /\ flight'[j] = flight[j] /\ flight[j] \in Task
          /\ task[flight[j]].key = j /\ task[flight[j]].step \in Running
      BY <1>0, <2>2 DEF FlightsEnd
    <3>. QED
      BY <2>1, <3>1 DEF Running
  <2>4. \A u \in Task : task'[u].step = "wait" =>
          task'[u].joined = flight'[task'[u].key] /\ task'[u].joined # None
    <3>. SUFFICES ASSUME NEW u \in Task, task'[u].step = "wait"
                  PROVE  task'[u].joined = flight'[task'[u].key] /\ task'[u].joined # None
      OBVIOUS
    <3>1. task'[u] = task[u] /\ task[u].key # k /\ task[u].key \in Key
      BY <2>1, IdleType DEF TypeOK, TasksOK
    <3>. QED
      BY <2>2, <3>1 DEF FlightsEnd
  <2>. QED
    BY <2>3, <2>4 DEF FlightsEnd
<1>. QED
  BY <1>1, <1>2, <1>3, <1>4 DEF TaskStep

\* Every step keeps flights ending.
LEMMA NextFlights == TypeOK /\ FlightsEnd /\ [Next]_vars => FlightsEnd'
<1>. SUFFICES ASSUME TypeOK, FlightsEnd, [Next]_vars PROVE FlightsEnd'
  OBVIOUS
<1>. USE DEF entries, loop, history
<1>1. ASSUME UNCHANGED <<flight, task>> PROVE FlightsEnd'
  BY <1>1 DEF FlightsEnd
<1>2. CASE OnWsEnvelopes \/ Invalidate \/ DeleteSession \/ Notified \/ OtherWakeup
  BY <1>1, <1>2 DEF OnWsEnvelopes, Invalidate, DeleteSession, Notified, OtherWakeup
<1>3. ASSUME NEW k \in Key, Change(k) \/ Expire(k) \/ CheckMemo(k)
      PROVE  FlightsEnd'
  BY <1>1, <1>3 DEF Change, Expire, CheckMemo
<1>4. CASE WriteMemo
  BY <1>1, <1>4 DEF WriteMemo
<1>5. ASSUME NEW k \in Key, ReadList(k)
      PROVE  FlightsEnd'
  BY <1>1, <1>5, SwrReadKeepsFlights DEF ReadList
<1>6. CASE ReadDetail
  <2>1. detail.key \in Key
    BY <1>6 DEF ReadDetail, TypeOK, SpanKey
  <2>. QED
    BY <1>6, <2>1, SwrReadKeepsFlights DEF ReadDetail
<1>7. ASSUME NEW k \in Key, Search(k)
      PROVE  FlightsEnd'
  BY <1>7, SpawnKeepsFlights DEF Search
<1>8. CASE UNCHANGED vars
  BY <1>1, <1>8 DEF vars
<1>. QED
  BY <1>2, <1>3, <1>4, <1>5, <1>6, <1>7, <1>8, TaskStepKeepsFlights DEF Next, Draw

\* A flight always has a task that is still to end it, and who waits, waits for
\* that task.
THEOREM FlightsAlwaysEnd == Spec => []FlightsEnd
<1>1. Init => FlightsEnd
  BY DEF Init, FlightsEnd, Idle
<1>2. TypeOK /\ FlightsEnd /\ [Next]_vars => FlightsEnd'
  BY NextFlights
<1>. QED
  BY <1>1, <1>2, CacheTypeCorrect, PTL DEF Spec

-----------------------------------------------------------------------------
(* The eviction order.                                                     *)

\* The young end of the order, from the (e+1)st key on.
LEMMA YoungEnd ==
  ASSUME NEW S, NEW q \in Seq(S), NoRepeats(q), NEW e \in 0..Len(q)
  PROVE  LET r == SubSeq(q, e + 1, Len(q))
         IN  /\ r \in Seq(S) /\ Len(r) = Len(q) - e /\ NoRepeats(r)
             /\ ToSet(r) = ToSet(q) \ {q[i] : i \in 1..e}
<1>. DEFINE r == SubSeq(q, e + 1, Len(q))
<1>1. Len(q) \in Nat /\ e \in Nat /\ e <= Len(q)
  BY LenProperties
<1>2. /\ r \in Seq(S) /\ Len(r) = Len(q) - e
      /\ \A i \in 1..(Len(q) - e) : r[i] = q[e + i]
  <2>1. \A i \in (e + 1)..Len(q) : q[i] \in S
    BY <1>1, ElementOfSeq
  <2>2. /\ r \in Seq(S)
        /\ Len(r) = IF e + 1 <= Len(q) THEN Len(q) - (e + 1) + 1 ELSE 0
        /\ \A i \in 1..(Len(q) - (e + 1) + 1) : r[i] = q[e + 1 + i - 1]
    BY <1>1, <2>1, SubSeqProperties
  <2>. QED
    BY <1>1, <2>2
<1>. HIDE DEF r
<1>3. NoRepeats(r)
  BY <1>1, <1>2 DEF NoRepeats
<1>4. /\ \A x : x \in ToSet(r) <=> \E i \in 1..Len(r) : r[i] = x
      /\ \A x : x \in ToSet(q) <=> \E i \in 1..Len(q) : q[i] = x
  BY <1>2, ToSetDef
<1>5. ASSUME NEW i \in 1..Len(r)
      PROVE  r[i] \in ToSet(q) /\ r[i] \notin {q[j] : j \in 1..e}
  BY <1>1, <1>2, <1>4 DEF NoRepeats
<1>6. ASSUME NEW j \in 1..Len(q), q[j] \notin {q[i] : i \in 1..e}
      PROVE  q[j] \in ToSet(r)
  <2>1. j > e
    BY <1>1, <1>6
  <2>2. j - e \in 1..Len(r) /\ r[j - e] = q[j]
    BY <1>1, <1>2, <2>1
  <2>. QED
    BY <1>4, <2>2
<1>7. ToSet(r) = ToSet(q) \ {q[i] : i \in 1..e}
  <2>1. \A x \in ToSet(r) : x \in ToSet(q) \ {q[i] : i \in 1..e}
    BY <1>4, <1>5
  <2>2. \A x \in ToSet(q) \ {q[i] : i \in 1..e} : x \in ToSet(r)
    BY <1>4, <1>6
  <2>. QED
    BY <2>1, <2>2
<1>. QED
  BY <1>2, <1>3, <1>7 DEF r

\* Touching a key makes it the last of an order that still names each key once.
LEMMA TouchedProperties ==
  ASSUME NEW k \in SpanKey, lru \in Seq(SpanKey), NoRepeats(lru)
  PROVE  /\ Touched(k) \in Seq(SpanKey) /\ NoRepeats(Touched(k))
         /\ Len(Touched(k)) <= Len(lru) + 1
         /\ ToSet(Touched(k)) = ToSet(lru) \cup {k}
<1>. DEFINE w == Without(lru, k)
            q == Append(w, k)
<1>1. /\ w \in Seq(SpanKey) /\ Len(w) <= Len(lru) /\ NoRepeats(w)
      /\ ToSet(w) = ToSet(lru) \ {k}
  BY WithoutProperties
<1>. HIDE DEF w
<1>2. /\ q \in Seq(SpanKey) /\ Len(q) = Len(w) + 1 /\ q[Len(w) + 1] = k
      /\ \A i \in 1..Len(w) : q[i] = w[i]
  BY <1>1, AppendProperties
<1>3. Len(w) \in Nat /\ Len(lru) \in Nat
  BY <1>1, LenProperties
<1>. HIDE DEF q
<1>4. /\ \A x : x \in ToSet(w) <=> \E i \in 1..Len(w) : w[i] = x
      /\ \A x : x \in ToSet(q) <=> \E i \in 1..Len(q) : q[i] = x
  BY <1>1, <1>2, ToSetDef
<1>5. \A i \in 1..Len(w) : w[i] # k
  BY <1>1, <1>4
<1>6. NoRepeats(q)
  <2>. SUFFICES ASSUME NEW i \in 1..Len(q), NEW j \in 1..Len(q), q[i] = q[j]
                PROVE  i = j
    BY DEF NoRepeats
  <2>1. CASE i \in 1..Len(w) /\ j \in 1..Len(w)
    BY <1>1, <1>2, <2>1 DEF NoRepeats
  <2>2. CASE i \in 1..Len(w) /\ j = Len(w) + 1
    BY <1>2, <1>5, <2>2
  <2>3. CASE i = Len(w) + 1 /\ j \in 1..Len(w)
    BY <1>2, <1>5, <2>3
  <2>. QED
    BY <1>2, <1>3, <2>1, <2>2, <2>3
<1>7. ToSet(q) = ToSet(w) \cup {k}
  <2>1. ASSUME NEW i \in 1..Len(q) PROVE q[i] \in ToSet(w) \cup {k}
    BY <1>2, <1>3, <1>4, i \in 1..Len(w) \/ i = Len(w) + 1
  <2>2. ASSUME NEW i \in 1..Len(w) PROVE w[i] \in ToSet(q)
    BY <1>2, <1>3, <1>4
  <2>3. k \in ToSet(q)
    BY <1>2, <1>3, <1>4
  <2>4. \A x \in ToSet(q) : x \in ToSet(w) \cup {k}
    BY <1>4, <2>1
  <2>5. \A x \in ToSet(w) \cup {k} : x \in ToSet(q)
    BY <1>4, <2>2, <2>3
  <2>. QED
    BY <2>4, <2>5
<1>8. ToSet(q) = ToSet(lru) \cup {k}
  BY <1>1, <1>7
<1>. QED
  BY <1>2, <1>1, <1>3, <1>6, <1>8 DEF Touched, w, q

\* The span keys that have an answer.
Held == {k \in SpanKey : cached[k] # None}

\* The parts of LruExact, by name.
LEMMA LruParts ==
  LruExact <=> Len(lru) <= SpanCap /\ NoRepeats(lru) /\ ToSet(lru) = Held
BY DEF LruExact, NoRepeats, Held

\* Storing an answer to a list key evicts nothing.
LEMMA StoreListKeepsLru ==
  ASSUME TypeOK, LruExact, NEW k \in ListKey, NEW v, NEW g, Store(k, v, g)
  PROVE  /\ LruExact'
         /\ Evicted(Recency(k)) = {}
<1>1. lru \in Seq(SpanKey) /\ Len(lru) \in Nat /\ SpanCap \in Nat /\ Len(lru) <= SpanCap
  BY CacheAssumption, LenProperties DEF TypeOK, LruExact
<1>2. Recency(k) = lru
  BY DEF Recency, ListKey
<1>3. Excess(lru) = 0
  BY <1>1 DEF Excess
<1>4. Evicted(lru) = {}
  BY <1>3 DEF Evicted
<1>5. lru' = SubSeq(lru, 1, Len(lru))
  BY <1>2, <1>3 DEF Store
<1>6. NoRepeats(lru)
  BY LruParts
<1>7. /\ Len(lru') = Len(lru) /\ NoRepeats(lru')
      /\ ToSet(lru') = ToSet(lru) \ {lru[i] : i \in 1..0}
  <2>1. 0 \in 0..Len(lru) /\ 0 + 1 = 1 /\ Len(lru) - 0 = Len(lru)
    BY <1>1
  <2>. QED
    BY <1>1, <1>5, <1>6, <2>1, YoungEnd
<1>8. \A j \in SpanKey : cached'[j] = cached[j]
  BY <1>2, <1>4 DEF Store, SpanKey, ListKey
<1>9. Held' = Held /\ ToSet(lru') = ToSet(lru)
  BY <1>7, <1>8 DEF Held
<1>. QED
  BY <1>1, <1>2, <1>4, <1>7, <1>9, LruParts DEF LruExact, NoRepeats, Held

\* Storing an answer to a span key evicts the oldest when the order is full.
LEMMA StoreSpanKeepsLru ==
  ASSUME TypeOK, LruExact, NEW k \in SpanKey, NEW v \in Nat, NEW g \in Nat, Store(k, v, g)
  PROVE  LruExact'
<1>. DEFINE q == Touched(k)
<1>1. /\ lru \in Seq(SpanKey) /\ Len(lru) \in Nat /\ SpanCap \in Nat \ {0}
      /\ Len(lru) <= SpanCap /\ NoRepeats(lru) /\ ToSet(lru) = Held
  BY CacheAssumption, LenProperties, LruParts DEF TypeOK
<1>2. /\ q \in Seq(SpanKey) /\ NoRepeats(q) /\ Len(q) <= Len(lru) + 1
      /\ ToSet(q) = Held \cup {k}
  BY <1>1, TouchedProperties
<1>3. /\ lru' = SubSeq(q, Excess(q) + 1, Len(q))
      /\ \A j \in Key : cached'[j] =
           IF j \in Evicted(q) THEN None
           ELSE IF j = k THEN [version |-> v, generation |-> g, stale |-> FALSE]
           ELSE cached[j]
  BY DEF Store, Recency
<1>. HIDE DEF q
<1>4. Len(q) \in Nat
  BY <1>2, LenProperties
<1>5. Excess(q) \in 0..Len(q) /\ Len(q) - Excess(q) <= SpanCap
  BY <1>1, <1>2, <1>4 DEF Excess
<1>6. /\ Len(lru') = Len(q) - Excess(q) /\ NoRepeats(lru')
      /\ ToSet(lru') = ToSet(q) \ Evicted(q)
  <2>. DEFINE e == Excess(q)
              r == SubSeq(q, e + 1, Len(q))
  <2>1. e \in 0..Len(q)
    BY <1>5
  <2>2. Len(r) = Len(q) - e /\ NoRepeats(r) /\ ToSet(r) = ToSet(q) \ {q[i] : i \in 1..e}
    <3>. HIDE DEF e
    <3>. QED
      BY <1>2, <2>1, YoungEnd
  <2>3. lru' = r
    BY <1>3
  <2>4. Evicted(q) = {q[i] : i \in 1..e}
    BY DEF Evicted
  <2>. HIDE DEF e, r
  <2>5. Len(lru') = Len(q) - e /\ ToSet(lru') = ToSet(q) \ Evicted(q)
    BY <2>2, <2>3, <2>4
  <2>6. NoRepeats(lru')
    BY <2>2, <2>3
  <2>. QED
    BY <2>5, <2>6 DEF e
<1>7. [version |-> v, generation |-> g, stale |-> FALSE] # None
  <2>1. [version |-> v, generation |-> g, stale |-> FALSE]
          \in [version : Nat, generation : Nat, stale : BOOLEAN]
    OBVIOUS
  <2>. QED
    BY <2>1, CacheAssumption
<1>8. Held' = ToSet(q) \ Evicted(q)
  BY <1>2, <1>3, <1>7 DEF Held, SpanKey
<1>. QED
  BY <1>5, <1>6, <1>8, LruParts DEF LruExact, NoRepeats, Held

\* Only what is cached and the order itself matter to it.
LEMMA LruKept ==
  ASSUME TypeOK, LruExact, UNCHANGED lru, \A k \in SpanKey : cached'[k] = None <=> cached[k] = None
  PROVE  LruExact'
<1>1. Held' = Held
  BY DEF Held
<1>. QED
  BY <1>1 DEF LruExact, Held

\* Every step keeps the order exact.
LEMMA NextLru == TypeOK /\ LruExact /\ [Next]_vars => LruExact'
<1>. SUFFICES ASSUME TypeOK, LruExact, [Next]_vars PROVE LruExact'
  OBVIOUS
<1>. USE DEF entries, loop, history
<1>1. ASSUME UNCHANGED <<lru, cached>> PROVE LruExact'
  BY <1>1, LruKept
<1>2. ASSUME NEW t \in Task, Put(t)
      PROVE  LruExact'
  <2>. DEFINE k == task[t].key
  <2>1. k \in Key /\ task[t].version \in Nat /\ task[t].generation \in Nat
    BY <1>2 DEF Put, TypeOK, TasksOK, TaskState
  <2>2. CASE Outdated(t)
    BY <1>1, <1>2, <2>2 DEF Put
  <2>3. CASE ~Outdated(t)
    <3>1. Store(k, task[t].version, task[t].generation)
      BY <1>2, <2>3 DEF Put
    <3>2. k \in ListKey \/ k \in SpanKey
      BY <2>1 DEF ListKey
    <3>. QED
      BY <2>1, <3>1, <3>2, StoreListKeepsLru, StoreSpanKeepsLru
  <2>. QED
    BY <2>2, <2>3
<1>3. ASSUME NEW t \in Task,
             Peek(t) \/ BeginFetch(t) \/ Fetch(t) \/ FetchFails(t) \/ FinishFetch(t) \/ Fallback(t)
      PROVE  LruExact'
  BY <1>1, <1>3 DEF Peek, BeginFetch, Fetch, FetchFails, FinishFetch, Fallback
<1>4. ASSUME NEW K, InvalidateKeys(K), UNCHANGED lru
      PROVE  LruExact'
  <2>. SUFFICES ASSUME NEW k \in SpanKey PROVE cached'[k] = None <=> cached[k] = None
    BY <1>4, LruKept
  <2>1. k \in Key
    BY DEF SpanKey
  <2>2. cached[k] # None => [cached[k] EXCEPT !.stale = TRUE] # None
    BY <2>1, CacheAssumption DEF TypeOK, AnswerOrNone
  <2>. QED
    BY <1>4, <2>1, <2>2 DEF InvalidateKeys
<1>5. CASE Invalidate \/ DeleteSession
  BY <1>4, <1>5 DEF Invalidate, DeleteSession
<1>6. CASE OnWsEnvelopes \/ Notified \/ OtherWakeup \/ ReadDetail \/ WriteMemo
  BY <1>1, <1>6 DEF OnWsEnvelopes, Notified, OtherWakeup, ReadDetail, WriteMemo
<1>7. ASSUME NEW k \in Key, ReadList(k) \/ CheckMemo(k) \/ Search(k) \/ Change(k)
      PROVE  LruExact'
  BY <1>1, <1>7 DEF ReadList, CheckMemo, Search, Change
<1>8. ASSUME NEW k \in Key, Expire(k)
      PROVE  LruExact'
  <2>1. cached' = [cached EXCEPT ![k] = [cached[k] EXCEPT !.stale = TRUE]] /\ cached[k] # None
    BY <1>8 DEF Expire, Fresh
  <2>2. [cached[k] EXCEPT !.stale = TRUE] # None
    BY <2>1, CacheAssumption DEF TypeOK, AnswerOrNone
  <2>3. \A j \in SpanKey : cached'[j] = None <=> cached[j] = None
    BY <2>1, <2>2 DEF TypeOK, SpanKey
  <2>. QED
    BY <1>8, <2>3, LruKept DEF Expire
<1>9. CASE UNCHANGED vars
  BY <1>1, <1>9 DEF vars
<1>. QED
  BY <1>2, <1>3, <1>5, <1>6, <1>7, <1>8, <1>9 DEF Next, Draw, TaskStep

\* The eviction order lists exactly the span keys that have an answer, once each,
\* and never more than the cap.
THEOREM EvictionOrderExact == Spec => []LruExact
<1>1. Init => LruExact
  <2>. SUFFICES ASSUME Init PROVE LruExact
    OBVIOUS
  <2>1. lru = <<>> /\ Len(lru) = 0 /\ lru \in Seq(SpanKey) /\ \A k \in SpanKey : cached[k] = None
    BY EmptySeq DEF Init, SpanKey
  <2>2. \A x : x \notin ToSet(lru)
    <3>1. lru \in Seq(SpanKey)
      BY <2>1
    <3>2. \A x : x \in ToSet(lru) <=> \E i \in 1..Len(lru) : lru[i] = x
      BY <3>1, ToSetDef
    <3>. QED
      BY <2>1, <3>2
  <2>3. ToSet(lru) = {k \in SpanKey : cached[k] # None}
    BY <2>1, <2>2
  <2>4. Len(lru) <= SpanCap /\ \A i, j \in 1..Len(lru) : lru[i] = lru[j] => i = j
    BY <2>1, CacheAssumption
  <2>. QED
    BY <2>3, <2>4 DEF LruExact
<1>2. TypeOK /\ LruExact /\ [Next]_vars => LruExact'
  BY NextLru
<1>. QED
  BY <1>1, <1>2, CacheTypeCorrect, PTL DEF Spec

-----------------------------------------------------------------------------
(***************************************************************************)
(* The query cache implements QueryContract for the keys that are never    *)
(* evicted.  The invariant that carries the proof is Orderly: of the       *)
(* fetches under way for a key at most one has the latest generation, and  *)
(* the answer of that one is not older than what is cached or than the     *)
(* last invalidation.                                                      *)
(***************************************************************************)
\* What storing an answer does to the entries of list keys: eviction touches none.
LEMMA StoreOnLists ==
  ASSUME TypeOK, NEW k \in Key, NEW v \in Nat, NEW g \in Nat, Store(k, v, g)
  PROVE  \A j \in ListKey :
           /\ latest'[j] = latest[j]
           /\ cached'[j] = IF j = k THEN [version |-> v, generation |-> g, stale |-> FALSE]
                           ELSE cached[j]
<1>1. Evicted(Recency(k)) \subseteq SpanKey
  BY RecencyType, EvictionType DEF TypeOK
<1>. QED
  BY <1>1 DEF Store, ListKey

\* What an invalidation does to the entries of list keys.
LEMMA InvalidateOnKeys ==
  ASSUME TypeOK, NEW K, InvalidateKeys(K), NEW k \in Key
  PROVE  /\ cached'[k] = None <=> cached[k] = None
         /\ cached[k] # None =>
              /\ cached'[k].version = cached[k].version
              /\ cached'[k].generation = cached[k].generation
         /\ k \in K => ~Fresh(k)' /\ promised'[k] = server[k]
         /\ k \notin K => cached'[k] = cached[k] /\ promised'[k] = promised[k] /\ latest'[k] = latest[k]
         /\ k \in K /\ HasEntry(k) => latest'[k] = latest[k] + 1
         /\ k \in K /\ ~HasEntry(k) => latest'[k] = latest[k]
<1>1. CASE cached[k] = None
  BY <1>1 DEF InvalidateKeys, Fresh
<1>2. CASE cached[k] # None
  <2>. DEFINE r == [cached[k] EXCEPT !.stale = TRUE]
  <2>1. /\ r \in [version : Nat, generation : Nat, stale : BOOLEAN]
        /\ r.version = cached[k].version /\ r.generation = cached[k].generation /\ r.stale = TRUE
    BY <1>2 DEF TypeOK, AnswerOrNone
  <2>2. r # None
    BY <2>1, CacheAssumption
  <2>3. cached'[k] = IF k \in K THEN r ELSE cached[k]
    BY <1>2 DEF InvalidateKeys
  <2>4. /\ promised'[k] = IF k \in K THEN server[k] ELSE promised[k]
        /\ latest'[k] = IF k \in K /\ HasEntry(k) THEN latest[k] + 1 ELSE latest[k]
    BY DEF InvalidateKeys
  <2>. HIDE DEF r
  <2>. QED
    BY <1>2, <2>1, <2>2, <2>3, <2>4 DEF Fresh
<1>. QED
  BY <1>1, <1>2

\* An answer that expires only becomes stale.
LEMMA ExpireOnKeys ==
  ASSUME TypeOK, NEW k \in Key, Expire(k)
  PROVE  /\ cached'[k] # None /\ cached[k] # None
         /\ cached'[k].version = cached[k].version /\ ~Fresh(k)'
         /\ \A j \in Key \ {k} : cached'[j] = cached[j]
<1>. DEFINE r == [cached[k] EXCEPT !.stale = TRUE]
<1>1. cached[k] # None /\ cached' = [cached EXCEPT ![k] = r]
  BY DEF Expire, Fresh
<1>2. /\ r \in [version : Nat, generation : Nat, stale : BOOLEAN]
      /\ r.version = cached[k].version /\ r.stale = TRUE
  BY <1>1 DEF TypeOK, AnswerOrNone
<1>3. r # None
  BY <1>2, CacheAssumption
<1>. HIDE DEF r
<1>4. cached'[k] = r /\ \A j \in Key \ {k} : cached'[j] = cached[j]
  BY <1>1 DEF TypeOK
<1>. QED
  BY <1>1, <1>2, <1>3, <1>4 DEF Fresh

-----------------------------------------------------------------------------
(* Orderly is inductive.                                                   *)

\* A step that changes no entry and starts no fetch of a list key keeps it.
LEMMA QuietKeepsOrder ==
  ASSUME TypeOK, Orderly, UNCHANGED <<server, cached, latest, promised>>,
         \A u \in Task : task'[u] = task[u] \/ ~Pending(u)'
  PROVE  Orderly'
<1>1. AnswersBounded'
  BY DEF Orderly, AnswersBounded, Fresh
<1>2. GenerationsDistinct'
  BY DEF Orderly, GenerationsDistinct, Pending
<1>3. FetchesBounded'
  BY DEF Orderly, FetchesBounded, Pending, Outdated
<1>. QED
  BY <1>1, <1>2, <1>3 DEF Orderly

\* A new cache_get has not started to fetch.
LEMMA SpawnKeepsOrder ==
  ASSUME TypeOK, Orderly, UNCHANGED <<server, cached, latest, promised>>,
         NEW k \in Key, NEW t \in Task, task' = [task EXCEPT ![t] = Spawned(k)]
  PROVE  Orderly'
<1>1. \A u \in Task : task'[u] = task[u] \/ ~Pending(u)'
  BY DEF TypeOK, TasksOK, Pending, Spawned
<1>. QED
  BY <1>1, QuietKeepsOrder

\* swr_read only ever starts a task.
LEMMA SwrReadKeepsOrder ==
  ASSUME TypeOK, Orderly, UNCHANGED <<server, cached, latest, promised>>,
         NEW k \in Key, SwrRead(k)
  PROVE  Orderly'
<1>1. CASE UNCHANGED task
  BY <1>1, QuietKeepsOrder
<1>. QED
  BY <1>1, SpawnKeepsOrder DEF SwrRead

\* Opening a generation outdates every fetch of the key that is under way.
LEMMA BeginKeepsOrder ==
  ASSUME TypeOK, Orderly, NEW t \in Task, BeginFetch(t)
  PROVE  Orderly'
<1>. DEFINE k == task[t].key
<1>1. /\ task[t] \in TaskState /\ task \in [Task -> TaskState] /\ k \in Key
      /\ UNCHANGED <<server, cached, promised>> /\ task[t].step = "begin"
      /\ latest[k] \in Nat /\ latest \in [Key -> Nat]
  BY DEF BeginFetch, TypeOK, TasksOK, loop, history
<1>2. CASE flight[k] # None
  <2>. DEFINE r == [task[t] EXCEPT !.step = "wait", !.generation = latest[k], !.joined = flight[k]]
  <2>1. task' = [task EXCEPT ![t] = r] /\ UNCHANGED latest
    BY <1>2 DEF BeginFetch
  <2>2. r.step = "wait"
    BY <1>1 DEF TaskState
  <2>. HIDE DEF r
  <2>3. \A u \in Task : task'[u] = task[u] \/ ~Pending(u)'
    BY <1>1, <2>1, <2>2 DEF Pending
  <2>. QED
    BY <1>1, <2>1, <2>3, QuietKeepsOrder
<1>3. CASE flight[k] = None
  <2>. DEFINE r == [task[t] EXCEPT !.step = "fetch", !.generation = latest[k] + 1]
  <2>1. task' = [task EXCEPT ![t] = r] /\ latest' = [latest EXCEPT ![k] = latest[k] + 1]
    BY <1>3 DEF BeginFetch
  <2>2. r.step = "fetch" /\ r.key = k /\ r.generation = latest[k] + 1
    <3>1. latest[k] + 1 \in Nat
      BY <1>1
    <3>. QED
      BY <1>1, <3>1, OpenUpdate
  <2>. HIDE DEF r
  <2>3. /\ task'[t] = r /\ \A u \in Task \ {t} : task'[u] = task[u]
        /\ latest'[k] = latest[k] + 1 /\ \A j \in Key \ {k} : latest'[j] = latest[j]
    BY <1>1, <2>1
  <2>4. AnswersBounded'
    BY <1>1 DEF Orderly, AnswersBounded, Fresh
  <2>5. \A u \in Task \ {t} : Pending(u)' =>
          /\ Pending(u) /\ task'[u].key \in Key
          /\ 0 < task'[u].generation /\ task'[u].generation <= latest[task'[u].key]
          /\ task'[u].generation \in Nat /\ latest[task'[u].key] \in Nat
    BY <1>1, <2>3 DEF Orderly, GenerationsDistinct, Pending, ListKey, TaskState
  <2>6. GenerationsDistinct'
    <3>1. \A u \in Task : Pending(u)' =>
            0 < task'[u].generation /\ task'[u].generation <= latest'[task'[u].key]
      BY <1>1, <2>2, <2>3, <2>5
    <3>2. \A u, w \in Task : Pending(u)' /\ Pending(w)' /\ u # w /\ task'[u].key = task'[w].key =>
            task'[u].generation # task'[w].generation
      <4>1. \A u \in Task \ {t} : Pending(u)' /\ task'[u].key = k => task'[u].generation < task'[t].generation
        BY <1>1, <2>2, <2>3, <2>5
      <4>2. \A u, w \in Task \ {t} : Pending(u)' /\ Pending(w)' /\ u # w /\ task'[u].key = task'[w].key =>
              task'[u].generation # task'[w].generation
        BY <2>3, <2>5 DEF Orderly, GenerationsDistinct
      <4>3. task'[t].key = k
        BY <2>2, <2>3
      <4>. QED
        BY <2>5, <4>1, <4>2, <4>3
    <3>. QED
      BY <3>1, <3>2 DEF GenerationsDistinct
  <2>7. FetchesBounded'
    <3>. SUFFICES ASSUME NEW u \in Task, task'[u].step = "put", task'[u].key \in ListKey
                  PROVE  /\ task'[u].version <= server[task'[u].key]
                         /\ ~Outdated(u)' =>
                              /\ task'[u].version >= promised[task'[u].key]
                              /\ cached[task'[u].key] # None =>
                                   task'[u].version >= cached[task'[u].key].version
      BY <1>1 DEF FetchesBounded
    <3>1. task'[u] = task[u]
      BY <2>2, <2>3
    <3>2. ~Outdated(u)' => ~Outdated(u)
      BY <1>1, <2>3, <3>1 DEF Outdated, TaskState, ListKey
    <3>. QED
      BY <3>1, <3>2 DEF Orderly, FetchesBounded
  <2>. QED
    BY <2>4, <2>6, <2>7 DEF Orderly
<1>. QED
  BY <1>2, <1>3

\* An answer is computed from data at least as new as what is cached and as the
\* last invalidation.
LEMMA FetchKeepsOrder ==
  ASSUME TypeOK, Orderly, NEW t \in Task, Fetch(t)
  PROVE  Orderly'
<1>. DEFINE k == task[t].key
            r == [task[t] EXCEPT !.step = "put", !.version = server[k]]
<1>1. /\ task[t] \in TaskState /\ task \in [Task -> TaskState] /\ k \in Key
      /\ UNCHANGED <<server, cached, latest, promised>> /\ task[t].step = "fetch"
      /\ server[k] \in Nat
  BY DEF Fetch, TypeOK, TasksOK, entries, loop, history
<1>2. task' = [task EXCEPT ![t] = r]
  BY DEF Fetch
<1>3. r.step = "put" /\ r.key = k /\ r.version = server[k] /\ r.generation = task[t].generation
  BY <1>1, FetchUpdate
<1>. HIDE DEF r
<1>4. task'[t] = r /\ \A u \in Task \ {t} : task'[u] = task[u]
  BY <1>1, <1>2
<1>5. AnswersBounded'
  BY <1>1 DEF Orderly, AnswersBounded, Fresh
<1>6. GenerationsDistinct'
  <2>1. \A u \in Task : /\ Pending(u)' <=> Pending(u)
                        /\ task'[u].key = task[u].key /\ task'[u].generation = task[u].generation
    BY <1>1, <1>3, <1>4 DEF Pending
  <2>. QED
    BY <1>1, <2>1 DEF Orderly, GenerationsDistinct
<1>7. FetchesBounded'
  <2>. SUFFICES ASSUME NEW u \in Task, task'[u].step = "put", task'[u].key \in ListKey
                PROVE  /\ task'[u].version <= server[task'[u].key]
                       /\ ~Outdated(u)' =>
                            /\ task'[u].version >= promised[task'[u].key]
                            /\ cached[task'[u].key] # None =>
                                 task'[u].version >= cached[task'[u].key].version
    BY <1>1 DEF FetchesBounded
  <2>1. CASE u = t
    <3>1. /\ promised[k] <= server[k]
          /\ cached[k] # None => cached[k].version <= server[k]
      BY <1>3, <1>4, <2>1 DEF Orderly, AnswersBounded
    <3>2. promised[k] \in Nat /\ (cached[k] # None => cached[k].version \in Nat)
      BY <1>1 DEF TypeOK, AnswerOrNone
    <3>. QED
      BY <1>1, <1>3, <1>4, <2>1, <3>1, <3>2
  <2>2. CASE u # t
    <3>1. task'[u] = task[u] /\ (~Outdated(u)' => ~Outdated(u))
      BY <1>1, <1>4, <2>2 DEF Outdated
    <3>. QED
      BY <3>1 DEF Orderly, FetchesBounded
  <2>. QED
    BY <2>1, <2>2
<1>. QED
  BY <1>5, <1>6, <1>7 DEF Orderly

\* What a put does to the other tasks.
LEMMA PutOnTasks ==
  ASSUME TypeOK, NEW t \in Task, Put(t)
  PROVE  \A u \in Task : (task'[u] = task[u] /\ u # t) \/ ~Pending(u)'
<1>. DEFINE gone == {j \in Key : flight[j] # None /\ flight'[j] = None}
<1>1. task \in [Task -> TaskState]
  BY DEF TypeOK, TasksOK
<1>2. task' = [Dropped(gone) EXCEPT ![t] = [task[t] EXCEPT !.step = "finish"]]
  BY DEF Put
<1>. SUFFICES ASSUME NEW u \in Task
              PROVE  (task'[u] = task[u] /\ u # t) \/ ~Pending(u)'
  OBVIOUS
<1>3. task[u] \in TaskState
  BY <1>1
<1>4. CASE u = t
  <2>1. task'[u] = [task[u] EXCEPT !.step = "finish"]
    BY <1>2, <1>4 DEF Dropped
  <2>. QED
    BY <1>3, <2>1 DEF TaskState, Pending
<1>5. CASE u # t
  <2>1. task'[u] = task[u] \/ task'[u] = [task[u] EXCEPT !.step = "fallback"]
    BY <1>2, <1>5 DEF Dropped
  <2>2. CASE task'[u] = [task[u] EXCEPT !.step = "fallback"]
    BY <1>3, <2>2 DEF TaskState, Pending
  <2>. QED
    BY <1>5, <2>1, <2>2
<1>. QED
  BY <1>4, <1>5

\* An answer that is stored has the latest generation, so every other fetch of
\* the key is outdated.
LEMMA PutKeepsOrder ==
  ASSUME TypeOK, Orderly, NEW t \in Task, Put(t)
  PROVE  Orderly'
<1>. DEFINE k == task[t].key
            v == task[t].version
            g == task[t].generation
<1>1. /\ k \in Key /\ v \in Nat /\ g \in Nat /\ task[t].step = "put"
      /\ UNCHANGED <<server, promised>> /\ task \in [Task -> TaskState]
  BY DEF Put, TypeOK, TasksOK, TaskState, loop, history
<1>2. \A u \in Task : (task'[u] = task[u] /\ u # t) \/ ~Pending(u)'
  BY PutOnTasks
<1>3. CASE Outdated(t)
  BY <1>1, <1>2, <1>3, QuietKeepsOrder DEF Put, entries
<1>4. CASE ~Outdated(t)
  <2>1. Store(k, v, g)
    BY <1>4 DEF Put
  <2>2. \A j \in ListKey :
          /\ latest'[j] = latest[j]
          /\ cached'[j] = IF j = k THEN [version |-> v, generation |-> g, stale |-> FALSE]
                          ELSE cached[j]
    BY <1>1, <2>1, StoreOnLists
  <2>3. k \in ListKey =>
          /\ g = latest[k] /\ v <= server[k] /\ v >= promised[k]
    <3>1. k \in ListKey => latest[k] \in Nat /\ g <= latest[k]
      BY <1>1 DEF Orderly, GenerationsDistinct, Pending, TypeOK
    <3>. QED
      BY <1>1, <1>4, <3>1 DEF Outdated, Orderly, FetchesBounded
  <2>. HIDE DEF v, g
  <2>4. AnswersBounded'
    <3>. SUFFICES ASSUME NEW j \in ListKey
                  PROVE  /\ promised[j] <= server[j]
                         /\ cached'[j] # None => cached'[j].version <= server[j]
                         /\ Fresh(j)' => cached'[j].version >= promised[j]
      BY <1>1 DEF AnswersBounded
    <3>1. CASE j = k
      BY <2>2, <2>3, <3>1 DEF Orderly, AnswersBounded
    <3>2. CASE j # k
      BY <2>2, <3>2 DEF Orderly, AnswersBounded, Fresh
    <3>. QED
      BY <3>1, <3>2
  <2>5. GenerationsDistinct'
    BY <1>2, <2>2 DEF Orderly, GenerationsDistinct, Pending
  <2>6. FetchesBounded'
    <3>. SUFFICES ASSUME NEW u \in Task, task'[u].step = "put", task'[u].key \in ListKey
                  PROVE  /\ task'[u].version <= server[task'[u].key]
                         /\ ~Outdated(u)' =>
                              /\ task'[u].version >= promised[task'[u].key]
                              /\ cached'[task'[u].key] # None =>
                                   task'[u].version >= cached'[task'[u].key].version
      BY <1>1 DEF FetchesBounded
    <3>1. task'[u] = task[u] /\ u # t /\ Pending(u)
      BY <1>2 DEF Pending
    <3>2. Outdated(u)' <=> Outdated(u)
      BY <2>2, <3>1 DEF Outdated, Pending
    <3>3. CASE task[u].key = k
      <4>1. /\ task[u].generation # task[t].generation
            /\ task[u].generation <= latest[k] /\ task[t].generation = latest[k]
        BY <1>1, <2>3, <3>1, <3>3 DEF Orderly, GenerationsDistinct, Pending, g
      <4>2. Outdated(u)
        BY <1>1, <3>3, <4>1 DEF Outdated, TaskState, TypeOK
      <4>. QED
        BY <3>1, <3>2, <4>2 DEF Orderly, FetchesBounded
    <3>4. CASE task[u].key # k
      BY <2>2, <3>1, <3>2, <3>4 DEF Orderly, FetchesBounded
    <3>. QED
      BY <3>3, <3>4
  <2>. QED
    BY <2>4, <2>5, <2>6 DEF Orderly
<1>. QED
  BY <1>3, <1>4

\* An invalidation outdates every fetch of the keys it names.
LEMMA InvalidateKeepsOrder ==
  ASSUME TypeOK, Orderly, NEW K, InvalidateKeys(K), UNCHANGED <<server, task>>
  PROVE  Orderly'
<1>1. \A k \in Key :
        /\ cached'[k] = None <=> cached[k] = None
        /\ cached[k] # None => cached'[k].version = cached[k].version
        /\ k \in K => ~Fresh(k)' /\ promised'[k] = server[k]
        /\ k \notin K => cached'[k] = cached[k] /\ promised'[k] = promised[k] /\ latest'[k] = latest[k]
        /\ k \in K /\ HasEntry(k) => latest'[k] = latest[k] + 1
        /\ k \in K /\ ~HasEntry(k) => latest'[k] = latest[k]
  BY InvalidateOnKeys
<1>2. \A k \in Key : latest[k] \in Nat /\ server[k] \in Nat /\ latest'[k] >= latest[k]
  BY DEF InvalidateKeys, TypeOK
<1>3. ListKey \subseteq Key
  BY DEF ListKey
<1>4. AnswersBounded'
  <2>. SUFFICES ASSUME NEW k \in ListKey
                PROVE  /\ promised'[k] <= server[k]
                       /\ cached'[k] # None => cached'[k].version <= server[k]
                       /\ Fresh(k)' => cached'[k].version >= promised'[k]
    BY DEF AnswersBounded
  <2>1. CASE k \in K
    BY <1>1, <1>2, <1>3, <2>1 DEF Orderly, AnswersBounded
  <2>2. CASE k \notin K
    BY <1>1, <1>3, <2>2 DEF Orderly, AnswersBounded, Fresh
  <2>. QED
    BY <2>1, <2>2
<1>5. GenerationsDistinct'
  <2>1. \A t \in Task : Pending(t) => task[t].key \in Key /\ task[t].generation \in Nat
    BY <1>3 DEF Pending, TypeOK, TasksOK, TaskState
  <2>2. \A t \in Task : Pending(t)' <=> Pending(t)
    BY DEF Pending
  <2>3. \A t \in Task : Pending(t)' =>
          0 < task'[t].generation /\ task'[t].generation <= latest'[task'[t].key]
    <3>. SUFFICES ASSUME NEW t \in Task, Pending(t)
                  PROVE  0 < task[t].generation /\ task[t].generation <= latest'[task[t].key]
      BY <2>2
    <3>1. 0 < task[t].generation /\ task[t].generation <= latest[task[t].key]
      BY DEF Orderly, GenerationsDistinct
    <3>2. /\ latest[task[t].key] \in Nat /\ latest'[task[t].key] \in Nat
          /\ latest'[task[t].key] >= latest[task[t].key]
      BY <1>2, <2>1, InvalidateType
    <3>. QED
      BY <2>1, <3>1, <3>2
  <2>. QED
    BY <2>2, <2>3 DEF Orderly, GenerationsDistinct
<1>6. FetchesBounded'
  <2>. SUFFICES ASSUME NEW t \in Task, task[t].step = "put", task[t].key \in ListKey
                PROVE  /\ task[t].version <= server[task[t].key]
                       /\ ~Outdated(t)' =>
                            /\ task[t].version >= promised'[task[t].key]
                            /\ cached'[task[t].key] # None =>
                                 task[t].version >= cached'[task[t].key].version
    BY DEF FetchesBounded
  <2>. DEFINE k == task[t].key
  <2>1. /\ k \in Key /\ task[t].generation \in Nat
        /\ 0 < task[t].generation /\ task[t].generation <= latest[k]
    BY <1>3 DEF Orderly, GenerationsDistinct, Pending, TypeOK, TasksOK, TaskState
  <2>2. CASE k \in K
    <3>1. HasEntry(k)
      BY <1>2, <2>1 DEF HasEntry
    <3>2. Outdated(t)'
      BY <1>1, <1>2, <2>1, <2>2, <3>1 DEF Outdated
    <3>. QED
      BY <3>2 DEF Orderly, FetchesBounded
  <2>3. CASE k \notin K
    <3>1. Outdated(t)' <=> Outdated(t)
      BY <1>1, <2>1, <2>3 DEF Outdated
    <3>. QED
      BY <1>1, <2>1, <2>3, <3>1 DEF Orderly, FetchesBounded
  <2>. QED
    BY <2>2, <2>3
<1>. QED
  BY <1>4, <1>5, <1>6 DEF Orderly

\* New data make no answer newer than the data.
LEMMA ChangeKeepsOrder ==
  ASSUME TypeOK, Orderly, NEW k \in Key, Change(k)
  PROVE  Orderly'
<1>1. /\ server' = [server EXCEPT ![k] = server[k] + 1]
      /\ UNCHANGED <<cached, latest, promised, task>>
  BY DEF Change, entries, loop, history
<1>2. \A j \in Key : server'[j] \in Nat /\ server[j] \in Nat /\ server'[j] >= server[j]
  BY <1>1 DEF TypeOK
<1>3. ListKey \subseteq Key
  BY DEF ListKey
<1>4. \A j \in Key : promised[j] \in Nat /\ (cached[j] # None => cached[j].version \in Nat)
  BY DEF TypeOK, AnswerOrNone
<1>5. AnswersBounded'
  <2>. SUFFICES ASSUME NEW j \in ListKey
                PROVE  /\ promised[j] <= server'[j]
                       /\ cached[j] # None => cached[j].version <= server'[j]
                       /\ Fresh(j) => cached[j].version >= promised[j]
    BY <1>1 DEF AnswersBounded, Fresh
  <2>1. /\ promised[j] <= server[j]
        /\ cached[j] # None => cached[j].version <= server[j]
        /\ Fresh(j) => cached[j].version >= promised[j]
    BY DEF Orderly, AnswersBounded
  <2>. QED
    BY <1>2, <1>3, <1>4, <2>1
<1>6. GenerationsDistinct'
  BY <1>1 DEF Orderly, GenerationsDistinct, Pending
<1>7. FetchesBounded'
  <2>1. \A t \in Task : task[t].step = "put" => task[t].version \in Nat
    BY DEF TypeOK, TasksOK
  <2>. QED
    BY <1>1, <1>2, <1>3, <2>1 DEF Orderly, FetchesBounded, Outdated
<1>. QED
  BY <1>5, <1>6, <1>7 DEF Orderly

\* An answer that expires promises less.
LEMMA ExpireKeepsOrder ==
  ASSUME TypeOK, Orderly, NEW k \in Key, Expire(k)
  PROVE  Orderly'
<1>1. UNCHANGED <<server, latest, promised, task>>
  BY DEF Expire, loop
<1>2. \A j \in Key : /\ cached'[j] # None <=> cached[j] # None
                     /\ cached[j] # None => cached'[j].version = cached[j].version
                     /\ Fresh(j)' => Fresh(j)
  <2>1. \A j \in Key \ {k} : cached'[j] = cached[j]
    BY ExpireOnKeys
  <2>. QED
    BY <2>1, ExpireOnKeys DEF Fresh
<1>3. ListKey \subseteq Key
  BY DEF ListKey
<1>4. AnswersBounded'
  <2>1. \A j \in Key : Fresh(j) => cached[j] # None
    BY DEF Fresh
  <2>. QED
    BY <1>1, <1>2, <1>3, <2>1 DEF Orderly, AnswersBounded
<1>5. GenerationsDistinct'
  BY <1>1 DEF Orderly, GenerationsDistinct, Pending
<1>6. FetchesBounded'
  BY <1>1, <1>2, <1>3 DEF Orderly, FetchesBounded, Outdated
<1>. QED
  BY <1>4, <1>5, <1>6 DEF Orderly

\* Every step keeps Orderly.
LEMMA NextOrder == TypeOK /\ Orderly /\ [Next]_vars => Orderly'
<1>. SUFFICES ASSUME TypeOK, Orderly, [Next]_vars PROVE Orderly'
  OBVIOUS
<1>. USE DEF entries, loop, history
<1>1. ASSUME UNCHANGED <<server, cached, latest, promised, task>> PROVE Orderly'
  BY <1>1, QuietKeepsOrder
<1>2. ASSUME NEW t \in Task, NEW r \in TaskState, task' = [task EXCEPT ![t] = r],
             r.step \notin {"fetch", "put"}, UNCHANGED <<server, cached, latest, promised>>
      PROVE  Orderly'
  <2>1. \A u \in Task : task'[u] = task[u] \/ ~Pending(u)'
    BY <1>2 DEF TypeOK, TasksOK, Pending
  <2>. QED
    BY <1>2, <2>1, QuietKeepsOrder
<1>3. ASSUME NEW t \in Task, TaskStep(t)
      PROVE  Orderly'
  <2>1. task[t] \in TaskState
    BY DEF TypeOK, TasksOK
  <2>2. CASE Peek(t)
    <3>. DEFINE r == [task[t] EXCEPT !.step = "begin"]
    <3>1. r \in TaskState /\ r.step = "begin"
      BY <2>1 DEF TaskState, Steps
    <3>2. /\ UNCHANGED <<server, cached, latest, promised>>
          /\ task' = [task EXCEPT ![t] = Idle] \/ task' = [task EXCEPT ![t] = r]
      BY <2>2 DEF Peek
    <3>. HIDE DEF r
    <3>. QED
      BY <1>2, <3>1, <3>2, IdleType
  <2>3. CASE FetchFails(t)
    <3>. DEFINE r == [task[t] EXCEPT !.step = "fail"]
    <3>1. r \in TaskState /\ r.step = "fail"
      BY <2>1 DEF TaskState, Steps
    <3>2. UNCHANGED <<server, cached, latest, promised>> /\ task' = [task EXCEPT ![t] = r]
      BY <2>3 DEF FetchFails
    <3>. HIDE DEF r
    <3>. QED
      BY <1>2, <3>1, <3>2
  <2>4. CASE FinishFetch(t)
    <3>1. \A u \in Task : task'[u] = task[u] \/ task'[u] = Idle
      BY <2>4 DEF FinishFetch
    <3>2. \A u \in Task : task'[u] = task[u] \/ ~Pending(u)'
      BY <3>1, IdleType DEF Pending
    <3>. QED
      BY <2>4, <3>2, QuietKeepsOrder DEF FinishFetch
  <2>5. CASE Fallback(t)
    BY <1>2, <2>5, IdleType DEF Fallback
  <2>. QED
    BY <1>3, <2>2, <2>3, <2>4, <2>5, BeginKeepsOrder, FetchKeepsOrder, PutKeepsOrder DEF TaskStep
<1>4. CASE Invalidate \/ DeleteSession
  BY <1>4, InvalidateKeepsOrder DEF Invalidate, DeleteSession
<1>5. CASE OnWsEnvelopes \/ Notified \/ OtherWakeup \/ WriteMemo
  BY <1>1, <1>5 DEF OnWsEnvelopes, Notified, OtherWakeup, WriteMemo
<1>6. ASSUME NEW k \in Key, ReadList(k) \/ CheckMemo(k)
      PROVE  Orderly'
  BY <1>1, <1>6, SwrReadKeepsOrder DEF ReadList, CheckMemo
<1>7. CASE ReadDetail
  <2>1. detail.key \in Key
    BY <1>7 DEF ReadDetail, TypeOK, SpanKey
  <2>. QED
    BY <1>7, <2>1, SwrReadKeepsOrder DEF ReadDetail
<1>8. ASSUME NEW k \in Key, Search(k)
      PROVE  Orderly'
  BY <1>8, SpawnKeepsOrder DEF Search
<1>9. CASE UNCHANGED vars
  BY <1>1, <1>9 DEF vars
<1>. QED
  BY <1>3, <1>4, <1>5, <1>6, <1>7, <1>8, <1>9, ChangeKeepsOrder, ExpireKeepsOrder DEF Next, Draw

\* Of the fetches under way for a list key at most one can still store its answer,
\* and that answer is not older than the cached one or the last invalidation.
THEOREM FetchesOrderly == Spec => []Orderly
<1>1. Init => Orderly
  <2>1. Init => AnswersBounded
    BY DEF Init, AnswersBounded, Fresh, ListKey
  <2>2. Init => GenerationsDistinct /\ FetchesBounded
    BY DEF Init, GenerationsDistinct, FetchesBounded, Pending, Idle
  <2>. QED
    BY <2>1, <2>2 DEF Orderly
<1>2. TypeOK /\ Orderly /\ [Next]_vars => Orderly'
  BY NextOrder
<1>. QED
  BY <1>1, <1>2, CacheTypeCorrect, PTL DEF Spec

-----------------------------------------------------------------------------
(* The refinement.                                                         *)

\* A step that leaves the list keys' answers alone is not seen by the contract.
LEMMA Stutter ==
  ASSUME UNCHANGED <<server, promised>>, \A k \in ListKey : cached'[k] = cached[k]
  PROVE  UNCHANGED Contract!contract
<1>1. \A k \in ListKey : Value(k)' = Value(k) /\ Fresh(k)' = Fresh(k)
  BY DEF Value, Fresh
<1>2. [k \in ListKey |-> Value(k)]' = [k \in ListKey |-> Value(k)]
  BY <1>1
<1>3. [k \in ListKey |-> Fresh(k)]' = [k \in ListKey |-> Fresh(k)]
  BY <1>1
<1>. QED
  BY <1>2, <1>3 DEF Contract!contract

\* At first nothing is on show.
LEMMA ContractInit == Init => Contract!Init
BY CacheAssumption DEF Init, Contract!Init, Value, Fresh, ListKey

\* An answer that is stored for a list key is an answer of the contract.
LEMMA PutAnswers ==
  ASSUME TypeOK, Orderly, NEW t \in Task, Put(t)
  PROVE  [Contract!Next]_(Contract!contract)
<1>. DEFINE k == task[t].key
            v == task[t].version
            g == task[t].generation
<1>1. /\ k \in Key /\ v \in Nat /\ g \in Nat /\ task[t].step = "put"
      /\ UNCHANGED <<server, promised>>
  BY DEF Put, TypeOK, TasksOK, TaskState, loop, history
<1>2. CASE Outdated(t)
  BY <1>1, <1>2, Stutter DEF Put, entries
<1>3. CASE ~Outdated(t)
  <2>1. \A j \in ListKey :
          cached'[j] = IF j = k THEN [version |-> v, generation |-> g, stale |-> FALSE]
                       ELSE cached[j]
    <3>1. Store(k, v, g)
      BY <1>3 DEF Put
    <3>. QED
      BY <1>1, <3>1, StoreOnLists
  <2>2. k \in ListKey => /\ v <= server[k] /\ v >= promised[k]
                         /\ cached[k] # None => v >= cached[k].version
    BY <1>1, <1>3 DEF Orderly, FetchesBounded
  <2>. HIDE DEF k, v, g
  <2>3. CASE k \notin ListKey
    BY <1>1, <2>1, <2>3, Stutter
  <2>4. CASE k \in ListKey
    <3>1. [version |-> v, generation |-> g, stale |-> FALSE] # None
      <4>1. [version |-> v, generation |-> g, stale |-> FALSE]
              \in [version : Nat, generation : Nat, stale : BOOLEAN]
        BY <1>1
      <4>. QED
        BY <4>1, CacheAssumption
    <3>2. \A j \in ListKey : /\ Value(j)' = IF j = k THEN v ELSE Value(j)
                             /\ Fresh(j)' = IF j = k THEN TRUE ELSE Fresh(j)
      <4>. DEFINE r == [version |-> v, generation |-> g, stale |-> FALSE]
      <4>1. r.version = v /\ r.stale = FALSE /\ r # None
        BY <3>1
      <4>2. \A j \in ListKey : cached'[j] = IF j = k THEN r ELSE cached[j]
        BY <2>1
      <4>. HIDE DEF r
      <4>. SUFFICES ASSUME NEW j \in ListKey
                    PROVE  /\ Value(j)' = IF j = k THEN v ELSE Value(j)
                           /\ Fresh(j)' = IF j = k THEN TRUE ELSE Fresh(j)
        OBVIOUS
      <4>3. CASE j = k
        BY <4>1, <4>2, <4>3 DEF Value, Fresh
      <4>4. CASE j # k
        BY <4>2, <4>4 DEF Value, Fresh
      <4>. QED
        BY <4>3, <4>4
    <3>3. [j \in ListKey |-> Value(j)]' = [[j \in ListKey |-> Value(j)] EXCEPT ![k] = v]
      BY <2>4, <3>2
    <3>4. [j \in ListKey |-> Fresh(j)]' = [[j \in ListKey |-> Fresh(j)] EXCEPT ![k] = TRUE]
      BY <2>4, <3>2
    <3>5. Value(k) # None => v >= Value(k)
      BY <2>2, <2>4 DEF Value
    <3>6. v \in 0..server[k]
      BY <1>1, <2>2, <2>4 DEF TypeOK
    <3>7. /\ [j \in ListKey |-> server[j]][k] = server[k]
          /\ [j \in ListKey |-> promised[j]][k] = promised[k]
          /\ [j \in ListKey |-> Value(j)][k] = Value(k)
      BY <2>4
    <3>8. Contract!Answer(k, v)
      BY <1>1, <2>2, <2>4, <3>3, <3>4, <3>5, <3>7 DEF Contract!Answer
    <3>. QED
      BY <2>4, <3>6, <3>7, <3>8 DEF Contract!Next
  <2>. QED
    BY <2>3, <2>4
<1>. QED
  BY <1>2, <1>3

\* An invalidation is one of the contract, for the list keys among its keys.
LEMMA InvalidationInvalidates ==
  ASSUME TypeOK, Orderly, NEW K, InvalidateKeys(K), UNCHANGED server
  PROVE  Contract!Next
<1>. DEFINE L == K \cap ListKey
<1>1. \A k \in ListKey :
        /\ Value(k)' = Value(k)
        /\ Fresh(k)' = IF k \in L THEN FALSE ELSE Fresh(k)
        /\ promised'[k] = IF k \in L THEN server[k] ELSE promised[k]
  <2>. SUFFICES ASSUME NEW k \in ListKey
                PROVE  /\ Value(k)' = Value(k)
                       /\ Fresh(k)' = IF k \in L THEN FALSE ELSE Fresh(k)
                       /\ promised'[k] = IF k \in L THEN server[k] ELSE promised[k]
    OBVIOUS
  <2>1. k \in Key
    BY DEF ListKey
  <2>2. /\ cached'[k] = None <=> cached[k] = None
        /\ cached[k] # None => cached'[k].version = cached[k].version
        /\ k \in K => ~Fresh(k)' /\ promised'[k] = server[k]
        /\ k \notin K => cached'[k] = cached[k] /\ promised'[k] = promised[k]
    BY <2>1, InvalidateOnKeys
  <2>3. Value(k)' = Value(k)
    BY <2>2 DEF Value
  <2>4. Fresh(k)' = IF k \in L THEN FALSE ELSE Fresh(k)
    BY <2>2 DEF Fresh
  <2>. QED
    BY <2>2, <2>3, <2>4
<1>2. [k \in ListKey |-> Value(k)]' = [k \in ListKey |-> Value(k)]
  BY <1>1
<1>3. [k \in ListKey |-> Fresh(k)]' =
        [k \in ListKey |-> IF k \in L THEN FALSE ELSE [j \in ListKey |-> Fresh(j)][k]]
  BY <1>1
<1>4. [k \in ListKey |-> promised[k]]' =
        [k \in ListKey |-> IF k \in L THEN [j \in ListKey |-> server[j]][k]
                           ELSE [j \in ListKey |-> promised[j]][k]]
  BY <1>1
<1>5. L \in SUBSET ListKey
  OBVIOUS
<1>. HIDE DEF L
<1>6. Contract!Invalidate(L)
  BY <1>2, <1>3, <1>4 DEF Contract!Invalidate
<1>. QED
  BY <1>5, <1>6 DEF Contract!Next

\* New data are new data of the contract, or of a key it does not see.
LEMMA ChangeChanges ==
  ASSUME TypeOK, NEW k \in Key, Change(k)
  PROVE  [Contract!Next]_(Contract!contract)
<1>1. /\ server' = [server EXCEPT ![k] = server[k] + 1]
      /\ UNCHANGED <<cached, promised>> /\ server \in [Key -> Nat]
  BY DEF Change, entries, loop, history, TypeOK
<1>2. /\ [j \in ListKey |-> Value(j)]' = [j \in ListKey |-> Value(j)]
      /\ [j \in ListKey |-> Fresh(j)]' = [j \in ListKey |-> Fresh(j)]
  BY <1>1 DEF Value, Fresh
<1>3. CASE k \in ListKey
  <2>1. \A j \in ListKey : server'[j] = IF j = k THEN server[k] + 1 ELSE server[j]
    BY <1>1 DEF ListKey
  <2>2. [j \in ListKey |-> server[j]]' =
          [[j \in ListKey |-> server[j]] EXCEPT ![k] = [j \in ListKey |-> server[j]][k] + 1]
    BY <1>3, <2>1
  <2>3. Contract!Change(k)
    BY <1>1, <1>2, <2>2 DEF Contract!Change
  <2>. QED
    BY <1>3, <2>3 DEF Contract!Next
<1>4. CASE k \notin ListKey
  <2>1. [j \in ListKey |-> server[j]]' = [j \in ListKey |-> server[j]]
    BY <1>1, <1>4 DEF ListKey
  <2>. QED
    BY <1>1, <1>2, <2>1 DEF Contract!contract
<1>. QED
  BY <1>3, <1>4

\* An answer that expires grows old.
LEMMA ExpiryAges ==
  ASSUME TypeOK, NEW k \in Key, Expire(k)
  PROVE  [Contract!Next]_(Contract!contract)
<1>1. /\ UNCHANGED <<server, promised>> /\ cached'[k] # None /\ cached[k] # None
      /\ cached'[k].version = cached[k].version /\ ~Fresh(k)'
      /\ \A j \in Key \ {k} : cached'[j] = cached[j]
  BY ExpireOnKeys DEF Expire
<1>2. \A j \in ListKey : /\ Value(j)' = Value(j)
                         /\ Fresh(j)' = IF j = k THEN FALSE ELSE Fresh(j)
  BY <1>1 DEF Value, Fresh, ListKey
<1>3. [j \in ListKey |-> Value(j)]' = [j \in ListKey |-> Value(j)]
  BY <1>2
<1>4. CASE k \in ListKey
  <2>1. [j \in ListKey |-> Fresh(j)]' = [[j \in ListKey |-> Fresh(j)] EXCEPT ![k] = FALSE]
    BY <1>2, <1>4
  <2>2. Contract!Age(k)
    BY <1>1, <1>3, <2>1 DEF Contract!Age
  <2>. QED
    BY <1>4, <2>2 DEF Contract!Next
<1>5. CASE k \notin ListKey
  BY <1>1, <1>5, Stutter DEF ListKey
<1>. QED
  BY <1>4, <1>5

\* Every step is a step of the contract or is not seen by it.
LEMMA ContractStep == TypeOK /\ Orderly /\ [Next]_vars => [Contract!Next]_(Contract!contract)
<1>. SUFFICES ASSUME TypeOK, Orderly, [Next]_vars PROVE [Contract!Next]_(Contract!contract)
  OBVIOUS
<1>. USE DEF entries, loop, history
<1>1. ASSUME UNCHANGED <<server, cached, promised>> PROVE [Contract!Next]_(Contract!contract)
  BY <1>1, Stutter
<1>2. ASSUME NEW t \in Task,
             Peek(t) \/ BeginFetch(t) \/ Fetch(t) \/ FetchFails(t) \/ FinishFetch(t) \/ Fallback(t)
      PROVE  [Contract!Next]_(Contract!contract)
  BY <1>1, <1>2 DEF Peek, BeginFetch, Fetch, FetchFails, FinishFetch, Fallback
<1>3. CASE Invalidate \/ DeleteSession
  BY <1>3, InvalidationInvalidates DEF Invalidate, DeleteSession
<1>4. CASE OnWsEnvelopes \/ Notified \/ OtherWakeup \/ ReadDetail \/ WriteMemo
  BY <1>1, <1>4 DEF OnWsEnvelopes, Notified, OtherWakeup, ReadDetail, WriteMemo
<1>5. ASSUME NEW k \in Key, ReadList(k) \/ CheckMemo(k) \/ Search(k)
      PROVE  [Contract!Next]_(Contract!contract)
  BY <1>1, <1>5 DEF ReadList, CheckMemo, Search
<1>6. CASE UNCHANGED vars
  BY <1>1, <1>6 DEF vars
<1>. QED
  BY <1>2, <1>3, <1>4, <1>5, <1>6, PutAnswers, ChangeChanges, ExpiryAges DEF Next, Draw, TaskStep

\* For keys that are not evicted the cache never goes back to an older answer and
\* never presents as fresh one that an invalidation has overtaken.
THEOREM CacheKeepsContract == Spec => KeepsContract
<1>1. Init => Contract!Init
  BY ContractInit
<1>2. TypeOK /\ Orderly /\ [Next]_vars => [Contract!Next]_(Contract!contract)
  BY ContractStep
<1>. QED
  BY <1>1, <1>2, CacheTypeCorrect, FetchesOrderly, PTL DEF Spec, KeepsContract, Contract!Spec
==============================================================================

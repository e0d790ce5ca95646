-------------------------- MODULE Normalize_proofs ---------------------------
(***************************************************************************)
(* What holds of Normalize for any trace, any number of workers, and calls *)
(* that fail anywhere: rows are right and filed right, and what            *)
(* normalization derives is complete: no pointer, conversation id or       *)
(* session counter is missing once every span it depends on has been       *)
(* normalized to its end; tool counts, pairs and announcements are right   *)
(* but for the cases TurnsRecounted, PairedUp and InsertMeansNew name.     *)
(* Pointers are exact while calls do not overlap.                          *)
(***************************************************************************)
EXTENDS Normalize, LeastNatural_proofs, FiniteSetTheorems, TLAPS

-----------------------------------------------------------------------------
(* Lineages, and the ancestor queries of SpanTree.                         *)

\* Every depth a walk may reach holds a span.
LEMMA AtType ==
  ASSUME NEW s \in Span, NEW i \in Depths(s)
  PROVE  At(s, i) \in Span
<1>1. Lineage[s] \in Seq(Span)
  BY LineageAssumption
<1>2. CASE i = 0
  BY <1>2 DEF At
<1>3. CASE i # 0
  <2>1. i \in 1..Len(Lineage[s])
    BY <1>1, <1>3 DEF Depths
  <2>2. Lineage[s][i] \in Span
    BY <1>1, <2>1
  <2>. QED
    BY <1>3, <2>2 DEF At
<1>. QED
  BY <1>2, <1>3

\* ORDER BY depth LIMIT 1 returns the row of the least depth, or no row.
LEMMA ClosestIsLeast ==
  ASSUME NEW s \in Span, NEW D \in SUBSET Depths(s), Closest(s, D) # None
  PROVE  \E i \in D : /\ Closest(s, D) = At(s, i)
                      /\ \A j \in D : i <= j
<1>1. \E i \in D : \A j \in D : i <= j
  BY DEF Closest
<1>2. Closest(s, D) = At(s, CHOOSE i \in D : \A j \in D : i <= j)
  BY <1>1 DEF Closest
<1>. QED
  BY <1>1, <1>2

\* A query that sees some least depth returns the span there.
LEMMA LeastIsClosest ==
  ASSUME NEW s \in Span, NEW D \in SUBSET Depths(s),
         NEW i \in D, \A j \in D : i <= j
  PROVE  /\ Closest(s, D) = At(s, i)
         /\ Closest(s, D) # None
<1>. DEFINE least == CHOOSE k \in D : \A j \in D : k <= j
<1>1. least \in D /\ \A j \in D : least <= j
  OBVIOUS
<1>2. D \subseteq Nat
  BY DEF Depths
<1>3. least = i
  <2>. HIDE DEF least
  <2>. QED
    BY <1>1, <1>2
<1>4. Closest(s, D) = At(s, i)
  BY <1>1, <1>3 DEF Closest
<1>. QED
  BY <1>4, AtType, NoneAssumption

\* A query that misses no nearer row than the one it returns, returns what a
\* query over all rows would.
LEMMA NothingNearerMissed ==
  ASSUME NEW s \in Span, NEW E \in SUBSET Depths(s), NEW D \in SUBSET E,
         Closest(s, D) # None,
         \A i \in D, j \in E : j < i => j \in D
  PROVE  Closest(s, D) = Closest(s, E)
<1>1. PICK i \in D : Closest(s, D) = At(s, i) /\ \A j \in D : i <= j
  BY ClosestIsLeast
<1>2. \A j \in E : i <= j
  BY <1>1 DEF Depths
<1>3. Closest(s, E) = At(s, i)
  BY <1>2, LeastIsClosest
<1>. QED
  BY <1>1, <1>3

\* The candidates for a pointer are spans.
LEMMA CandidatesType ==
  ASSUME NEW c \in Column, NEW s \in Span
  PROVE  Candidates[c][s] \in SUBSET Span
BY AtType DEF Candidates

\* The nearest of some candidate depths is a candidate.
LEMMA ClosestIsCandidate ==
  ASSUME NEW c \in Column, NEW s \in Span, NEW D \in SUBSET Depths(s),
         \A i \in D : i > 0 /\ Kind[At(s, i)] \in Wanted[c],
         Closest(s, D) # None
  PROVE  Closest(s, D) \in Candidates[c][s]
<1>1. PICK i \in D : Closest(s, D) = At(s, i)
  BY ClosestIsLeast
<1>. QED
  BY <1>1 DEF Candidates

\* A conversation id read off some depths is that of one of the spans there.
LEMMA ConversationType ==
  ASSUME NEW s \in Span, NEW D \in SUBSET Depths(s)
  PROVE  ConversationAt(s, D) \in Conversation \cup {None}
<1>. DEFINE held == {i \in D : ConvAttr[At(s, i)] # None}
<1>1. CASE Closest(s, held) = None
  BY <1>1 DEF ConversationAt
<1>2. CASE Closest(s, held) # None
  <2>1. PICK i \in held : Closest(s, held) = At(s, i)
    BY <1>2, ClosestIsLeast
  <2>2. At(s, i) \in Span
    BY AtType
  <2>3. ConversationAt(s, D) = ConvAttr[At(s, i)]
    BY <1>2, <2>1 DEF ConversationAt
  <2>. QED
    BY <2>2, <2>3, AttributeAssumption
<1>. QED
  BY <1>1, <1>2

\* An id read off an unbroken chain of rows is the one the whole lineage gives.
LEMMA UnbrokenIsExact ==
  ASSUME NEW s \in Span, NEW D \in SUBSET Depths(s),
         \A i \in D, j \in Depths(s) : j < i => j \in D,
         ConversationAt(s, D) # None
  PROVE  ConversationAt(s, D) = TrueConversation[s]
<1>. DEFINE held == {i \in D : ConvAttr[At(s, i)] # None}
            all  == {i \in Depths(s) : ConvAttr[At(s, i)] # None}
<1>1. Closest(s, held) # None
  BY DEF ConversationAt
<1>2. Closest(s, held) = Closest(s, all)
  BY <1>1, NothingNearerMissed
<1>3. TrueConversation[s] = ConversationAt(s, Depths(s))
  BY DEF TrueConversation
<1>. QED
  BY <1>2, <1>3 DEF ConversationAt

\* A span's own conversation id is the nearest.
LEMMA OwnConversation ==
  ASSUME NEW s \in Span, ConvAttr[s] # None
  PROVE  TrueConversation[s] = ConvAttr[s]
<1>. DEFINE all == {i \in Depths(s) : ConvAttr[At(s, i)] # None}
<1>1. Len(Lineage[s]) \in Nat /\ WalkDepth \in Nat
  BY LineageAssumption, DepthAssumption
<1>2. 0 \in all
  BY <1>1 DEF Depths, At
<1>3. \A j \in all : 0 <= j
  BY DEF Depths
<1>4. Closest(s, all) = At(s, 0) /\ Closest(s, all) # None
  BY <1>2, <1>3, LeastIsClosest
<1>5. TrueConversation[s] = ConversationAt(s, Depths(s))
  BY DEF TrueConversation
<1>. QED
  BY <1>4, <1>5 DEF ConversationAt, At

-----------------------------------------------------------------------------
(* The order of depths.                                                    *)

\* ORDER BY depth LIMIT 1 returns a row when there is one.
LEMMA SomeIsClosest ==
  ASSUME NEW s \in Span, NEW D \in SUBSET Depths(s), D # {}
  PROVE  \E i \in D : /\ Closest(s, D) = At(s, i)
                      /\ Closest(s, D) # None
                      /\ \A j \in D : i <= j
<1>1. D \in SUBSET Nat
  BY DEF Depths
<1>2. PICK i \in D : \A j \in D : i <= j
  BY <1>1, LeastNatural
<1>. QED
  BY <1>2, LeastIsClosest

\* The lineage of an ancestor is the rest of the lineage.
LEMMA LineageAbove ==
  ASSUME NEW s \in Span, NEW j \in Depths(s)
  PROVE  /\ At(s, j) \in Span
         /\ Len(Lineage[At(s, j)]) = Len(Lineage[s]) - j
         /\ \A m \in 0..(Len(Lineage[s]) - j) : At(At(s, j), m) = At(s, j + m)
<1>1. Lineage[s] \in Seq(Span) /\ Len(Lineage[s]) \in Nat /\ j \in 0..Len(Lineage[s])
  BY LineageAssumption DEF Depths
<1>2. CASE j = 0
  BY <1>1, <1>2 DEF At
<1>3. CASE j # 0
  <2>1. j \in 1..Len(Lineage[s]) /\ At(s, j) = Lineage[s][j]
    BY <1>1, <1>3 DEF At
  <2>2. Lineage[At(s, j)] = SubSeq(Lineage[s], j + 1, Len(Lineage[s]))
    BY <2>1, LineageAssumption
  <2>3. /\ Len(Lineage[At(s, j)]) = Len(Lineage[s]) - j
        /\ \A m \in 1..(Len(Lineage[s]) - j) :
             Lineage[At(s, j)][m] = Lineage[s][j + m]
    BY <1>1, <2>1, <2>2
  <2>. QED
    BY <1>1, <2>1, <2>3, AtType DEF At
<1>. QED
  BY <1>2, <1>3

\* A span is no proper ancestor of itself.
LEMMA NoCycle ==
  ASSUME NEW s \in Span, NEW i \in 1..Len(Lineage[s])
  PROVE  At(s, i) # s
<1>1. Lineage[s] \in Seq(Span)
  BY LineageAssumption
<1>2. At(s, i) = Lineage[s][i] /\ Lineage[s][i] \in Span
  BY <1>1 DEF At
<1>3. Lineage[At(s, i)] = SubSeq(Lineage[s], i + 1, Len(Lineage[s]))
  BY <1>2, LineageAssumption
<1>4. Len(Lineage[At(s, i)]) = Len(Lineage[s]) - i
  BY <1>1, <1>3
<1>. QED
  BY <1>1, <1>4

-----------------------------------------------------------------------------
(* Queries.                                                                *)

\* The rows a walk sees lie on the lineage.
LEMMA VisibleType ==
  ASSUME NEW s \in Span
  PROVE  Visible(s) \in SUBSET Depths(s)
BY DEF Visible

\* A walk returns, for each column, a span or NULL.
LEMMA NearestType ==
  ASSUME NEW s \in Span
  PROVE  NearestAncestors(s) \in [Column -> Span \cup {None}]
<1>. SUFFICES ASSUME NEW c \in Column
              PROVE  NearestAncestors(s)[c] \in Span \cup {None}
  BY DEF NearestAncestors
<1>. DEFINE seen == {i \in Visible(s) : /\ i > 0
                                        /\ At(s, i) \in projected
                                        /\ Kind[At(s, i)] \in Wanted[c]}
<1>1. NearestAncestors(s)[c] = Closest(s, seen)
  BY DEF NearestAncestors
<1>2. seen \in SUBSET Depths(s)
  BY DEF Visible
<1>. HIDE DEF seen
<1>3. Closest(s, seen) \in Span \cup {None}
  BY <1>2, ClosestIsLeast, AtType
<1>. QED
  BY <1>1, <1>3

LEMMA NearestConversationType ==
  ASSUME NEW s \in Span
  PROVE  NearestConversation(s) \in Conversation \cup {None}
<1>1. {i \in Visible(s) : row[At(s, i)] = "real"} \in SUBSET Depths(s)
  BY DEF Visible
<1>. QED
  BY <1>1, ConversationType DEF NearestConversation

\* Counting rows gives a natural number.
LEMMA CountType ==
  ASSUME NEW S \in SUBSET Span
  PROVE  Cardinality(S) \in Nat
BY SpanAssumption, FS_Subset, FS_CardinalityType

-----------------------------------------------------------------------------
(* Type correctness, one lemma for each action.                            *)

LEMMA TypeInit == Init => TypeOK
BY DEF Init, TypeOK, TablesOK, CallsOK, Job, NoJob, Nothing, Statement, Resolving,
       Table, RowState

\* A call moves to its next statement with other local variables.
LEMMA CallMoves ==
  ASSUME CallsOK, NEW w \in Worker, NEW l \in Statement, NEW j \in Job,
         pc' = [pc EXCEPT ![w] = l],
         job' = [job EXCEPT ![w] = j],
         l # "idle" => j.span \in Span,
         l \in Resolving => j.target \in Span
  PROVE  CallsOK'
BY DEF CallsOK

\* A call moves to its next statement and keeps its local variables.
LEMMA CallGoes ==
  ASSUME CallsOK, NEW w \in Worker, NEW l \in Statement,
         pc[w] # "idle",
         pc' = [pc EXCEPT ![w] = l],
         job' = job,
         l \in Resolving => job[w].target \in Span
  PROVE  CallsOK'
BY DEF CallsOK

\* The locals of a call may be assigned values of their types.
LEMMA LocalsType ==
  ASSUME NEW j \in Job
  PROVE  /\ \A s \in Span : [j EXCEPT !.span = s] \in Job
         /\ \A r \in RowState : [j EXCEPT !.prev = r] \in Job
         /\ \A s \in Span \cup {None} : [j EXCEPT !.mate = s] \in Job
         /\ \A s \in Span \cup {None} : [j EXCEPT !.target = s] \in Job
         /\ \A S \in SUBSET Span : [j EXCEPT !.todo = S] \in Job
         /\ \A c \in Conversation \cup {None} : [j EXCEPT !.conv = c] \in Job
BY DEF Job

LEMMA NoJobType == NoJob \in Job
BY DEF NoJob, Nothing, Job, RowState

LEMMA TypeReceive ==
  ASSUME TypeOK, NEW w \in Worker, NEW s \in Span, Receive(w, s)
  PROVE  TypeOK'
<1>. DEFINE j == [NoJob EXCEPT !.span = s]
<1>1. j \in Job /\ j.span = s
  BY NoJobType, LocalsType DEF NoJob
<1>2. CallsOK'
  BY <1>1, CallMoves DEF TypeOK, Receive, Goto, Statement, Resolving
<1>3. TablesOK'
  BY DEF TypeOK, TablesOK, Receive, tables, spanTable, projections
<1>. QED
  BY <1>2, <1>3 DEF TypeOK

LEMMA TypeLookup ==
  ASSUME TypeOK, NEW w \in Worker, Lookup(w)
  PROVE  TypeOK'
<1>. DEFINE j == [job[w] EXCEPT !.prev = row[job[w].span]]
<1>1. job[w] \in Job /\ job[w].span \in Span
  BY DEF TypeOK, CallsOK, Lookup
<1>2. j \in Job /\ j.span = job[w].span
  BY <1>1, LocalsType DEF TypeOK, TablesOK, Job
<1>3. job' = [job EXCEPT ![w] = j] /\ pc' = [pc EXCEPT ![w] = "upsert"]
  BY DEF Lookup, Goto
<1>4. CallsOK'
  BY <1>1, <1>2, <1>3, CallMoves DEF TypeOK, Statement, Resolving
<1>5. TablesOK'
  BY DEF TypeOK, TablesOK, Lookup, tables, history, spanTable, projections
<1>. QED
  BY <1>4, <1>5 DEF TypeOK

LEMMA TypeUpsertSpan ==
  ASSUME TypeOK, NEW w \in Worker, UpsertSpan(w)
  PROVE  TypeOK'
<1>1. CallsOK'
  BY CallGoes DEF TypeOK, UpsertSpan, Goto, Statement, Resolving
<1>2. TablesOK'
  BY DEF TypeOK, TablesOK, UpsertSpan, RowState, history, projections
<1>. QED
  BY <1>1, <1>2 DEF TypeOK

LEMMA TypeEnsurePlaceholder ==
  ASSUME TypeOK, NEW w \in Worker, EnsurePlaceholder(w)
  PROVE  TypeOK'
<1>. DEFINE p == Parent(job[w].span)
<1>1. CallsOK'
  BY CallGoes DEF TypeOK, EnsurePlaceholder, Goto, Statement, Resolving
<1>2. /\ row' \in [Span -> RowState]
      /\ heard' \in [Span -> SUBSET {"placeholder", "insert", "upgrade"}]
  <2>1. CASE row[p] = "absent"
    <3>. HIDE DEF p
    <3>1. /\ row' = [row EXCEPT ![p] = "placeholder"]
          /\ heard' = [heard EXCEPT ![p] = @ \cup {"placeholder"}]
      BY <2>1 DEF EnsurePlaceholder, p
    <3>. QED
      BY <3>1 DEF TypeOK, TablesOK, RowState
  <2>2. CASE row[p] # "absent"
    BY <2>2 DEF TypeOK, TablesOK, EnsurePlaceholder, spanTable
  <2>. QED
    BY <2>1, <2>2
<1>3. crossed' \subseteq Span
  <2>1. \A v \in Worker : pc[v] = "upsert" => job[v].span \in Span
    BY DEF TypeOK, CallsOK
  <2>2. UpsertUnderWay(p) \subseteq Span
    BY <2>1 DEF UpsertUnderWay
  <2>. QED
    BY <2>2 DEF TypeOK, TablesOK, EnsurePlaceholder, p
<1>4. TablesOK'
  BY <1>2, <1>3 DEF TypeOK, TablesOK, EnsurePlaceholder, projections
<1>. QED
  BY <1>1, <1>4 DEF TypeOK

\* The common part of the four projection upserts.
LEMMA TypeInsertProjection ==
  ASSUME TypeOK, NEW s \in Span, InsertProjection(s)
  PROVE  /\ projected' \subseteq Span
         /\ conv' \in [Table -> [Span -> Conversation \cup {None}]]
<1>1. ConvAttr[s] \in Conversation \cup {None}
  BY AttributeAssumption
<1>. QED
  BY <1>1 DEF TypeOK, TablesOK, InsertProjection, Coalesce, Table

\* A call whose span row is complete goes on to resolve its pointers.
LEMMA CallTargets ==
  ASSUME CallsOK, NEW w \in Worker, NEW l \in Statement \ {"idle"},
         pc[w] # "idle",
         pc' = [pc EXCEPT ![w] = l],
         job' = [job EXCEPT ![w].target = job[w].span]
  PROVE  CallsOK'
<1>. DEFINE j == [job[w] EXCEPT !.target = job[w].span]
<1>1. job[w] \in Job /\ job[w].span \in Span
  BY DEF CallsOK
<1>2. j \in Job /\ j.span = job[w].span /\ j.target = job[w].span
  BY <1>1, LocalsType DEF Job
<1>. QED
  BY <1>1, <1>2, CallMoves

LEMMA TypeUpsertAgentRunOrChatTurn ==
  ASSUME TypeOK, NEW w \in Worker, UpsertAgentRunOrChatTurn(w)
  PROVE  TypeOK'
<1>1. job[w].span \in Span
  BY DEF TypeOK, CallsOK, UpsertAgentRunOrChatTurn
<1>2. CallsOK'
  BY CallTargets DEF TypeOK, UpsertAgentRunOrChatTurn, Goto, Statement
<1>3. TablesOK'
  BY <1>1, TypeInsertProjection
     DEF TypeOK, TablesOK, UpsertAgentRunOrChatTurn, history, spanTable
<1>. QED
  BY <1>2, <1>3 DEF TypeOK

LEMMA TypeUpsertToolCall ==
  ASSUME TypeOK, NEW w \in Worker, UpsertToolCall(w)
  PROVE  TypeOK'
<1>1. job[w].span \in Span
  BY DEF TypeOK, CallsOK, UpsertToolCall
<1>2. CallsOK'
  <2>. DEFINE l == IF CallAttr[job[w].span] # None THEN "pair" ELSE "walk"
  <2>1. l \in Statement \ {"idle"}
    BY DEF Statement
  <2>. QED
    BY <2>1, CallTargets DEF TypeOK, UpsertToolCall, Goto
<1>3. TablesOK'
  BY <1>1, TypeInsertProjection
     DEF TypeOK, TablesOK, UpsertToolCall, history, spanTable
<1>. QED
  BY <1>2, <1>3 DEF TypeOK

LEMMA TypePairExternalCalls ==
  ASSUME TypeOK, NEW w \in Worker, PairExternalCalls(w)
  PROVE  TypeOK'
<1>1. job[w].span \in Span
  BY DEF TypeOK, CallsOK, PairExternalCalls
<1>2. paired' \in [Span -> Span \cup {None}]
  BY <1>1 DEF TypeOK, TablesOK, PairExternalCalls, Coalesce
<1>3. TablesOK'
  BY <1>2 DEF TypeOK, TablesOK, PairExternalCalls, spanTable, InsertUnderWay
<1>4. CallsOK'
  BY CallGoes DEF TypeOK, CallsOK, PairExternalCalls, Goto, Statement, Resolving
<1>. QED
  BY <1>3, <1>4 DEF TypeOK

LEMMA TypeLookupToolCall ==
  ASSUME TypeOK, NEW w \in Worker, LookupToolCall(w)
  PROVE  TypeOK'
<1>1. PICK t \in Span \cup {None} : job' = [job EXCEPT ![w].mate = t]
  <2>1. CASE UNCHANGED job
    <3>1. job[w] \in Job
      BY DEF TypeOK, CallsOK
    <3>2. job[w] = [job[w] EXCEPT !.mate = job[w].mate] /\ job[w].mate \in Span \cup {None}
      BY <3>1 DEF Job
    <3>3. job' = [job EXCEPT ![w].mate = job[w].mate]
      BY <2>1, <3>2 DEF TypeOK, CallsOK
    <3>. QED
      BY <3>2, <3>3
  <2>2. CASE \E t \in projected : job' = [job EXCEPT ![w].mate = t]
    BY <2>2 DEF TypeOK, TablesOK
  <2>. QED
    BY <2>1, <2>2 DEF LookupToolCall
<1>2. job[w] \in Job /\ job[w].span \in Span
  BY DEF TypeOK, CallsOK, LookupToolCall
<1>. DEFINE j == [job[w] EXCEPT !.mate = t]
<1>3. j \in Job /\ j.span = job[w].span
  BY <1>2, LocalsType DEF Job
<1>4. CallsOK'
  BY <1>1, <1>2, <1>3, CallMoves DEF TypeOK, LookupToolCall, Goto, Statement, Resolving
<1>5. TablesOK'
  BY DEF TypeOK, TablesOK, LookupToolCall, tables, history, spanTable, projections
<1>. QED
  BY <1>4, <1>5 DEF TypeOK

LEMMA TypeUpsertExternalToolCall ==
  ASSUME TypeOK, NEW w \in Worker, UpsertExternalToolCall(w)
  PROVE  TypeOK'
<1>. DEFINE j == [job[w] EXCEPT !.mate = None, !.target = job[w].span]
<1>1. job[w] \in Job /\ job[w].span \in Span /\ job[w].mate \in Span \cup {None}
  BY DEF TypeOK, CallsOK, UpsertExternalToolCall, Job
<1>2. j \in Job /\ j.span = job[w].span /\ j.target = job[w].span
  BY <1>1 DEF Job
<1>3. job' = [job EXCEPT ![w] = j] /\ pc' = [pc EXCEPT ![w] = "walk"]
  BY DEF UpsertExternalToolCall, Goto
<1>4. CallsOK'
  BY <1>1, <1>2, <1>3, CallMoves DEF TypeOK, Statement
<1>5. paired' \in [Span -> Span \cup {None}]
  BY <1>1 DEF TypeOK, TablesOK, UpsertExternalToolCall, Coalesce
<1>6. TablesOK'
  BY <1>1, <1>5, TypeInsertProjection
     DEF TypeOK, TablesOK, UpsertExternalToolCall, history, spanTable
<1>. QED
  BY <1>4, <1>6 DEF TypeOK

LEMMA TypeSkipProjection ==
  ASSUME TypeOK, NEW w \in Worker, SkipProjection(w)
  PROVE  TypeOK'
<1>1. CallsOK'
  BY CallTargets DEF TypeOK, SkipProjection, Goto, Statement
<1>2. TablesOK'
  BY DEF TypeOK, TablesOK, SkipProjection, tables, history, spanTable, projections
<1>. QED
  BY <1>1, <1>2 DEF TypeOK

LEMMA TypeWalkAncestors ==
  ASSUME TypeOK, NEW w \in Worker, NEW t \in Span, WalkAncestors(w, t)
  PROVE  TypeOK'
<1>. DEFINE f == NearestAncestors(t)
            c == NearestConversation(t)
            j == [job[w] EXCEPT !.target = t, !.todo = @ \ {t}, !.found = f,
                                !.foundConv = c]
<1>1. job[w] \in Job /\ job[w].span \in Span
  BY DEF TypeOK, CallsOK, WalkAncestors
<1>2. f \in [Column -> Span \cup {None}] /\ c \in Conversation \cup {None}
  BY NearestType, NearestConversationType
<1>3. job' = [job EXCEPT ![w] = j] /\ pc' = [pc EXCEPT ![w] = "apply"]
  BY DEF WalkAncestors, Goto
<1>4. j \in Job /\ j.span = job[w].span /\ j.target = t
  <2>. HIDE DEF f, c
  <2>. QED
    BY <1>1, <1>2 DEF Job
<1>. HIDE DEF j
<1>5. CallsOK'
  BY <1>1, <1>3, <1>4, CallMoves DEF TypeOK, Statement
<1>6. TablesOK'
  BY DEF TypeOK, TablesOK, WalkAncestors, tables, history, spanTable, projections
<1>. QED
  BY <1>5, <1>6 DEF TypeOK

\* The updates of one row from the result of its walk.
LEMMA TypeFillIn ==
  ASSUME TypeOK, NEW w \in Worker, NEW t \in Table, NEW cols, NEW rows,
         pc[w] \in Resolving, FillIn(w, t, cols, rows)
  PROVE  /\ ptr' \in [Column -> [Span -> Span \cup {None}]]
         /\ conv' \in [Table -> [Span -> Conversation \cup {None}]]
<1>1. job[w] \in Job /\ job[w].target \in Span
  BY DEF TypeOK, CallsOK
<1>2. /\ job[w].found \in [Column -> Span \cup {None}]
      /\ job[w].foundConv \in Conversation \cup {None}
  BY <1>1 DEF Job
<1>3. ptr' \in [Column -> [Span -> Span \cup {None}]]
  BY <1>2 DEF TypeOK, TablesOK, FillIn, Coalesce
<1>4. conv' \in [Table -> [Span -> Conversation \cup {None}]]
  BY <1>1, <1>2 DEF TypeOK, TablesOK, FillIn, Coalesce
<1>. QED
  BY <1>3, <1>4

LEMMA TypeApplyToProjection ==
  ASSUME TypeOK, NEW w \in Worker, ApplyToProjection(w)
  PROVE  TypeOK'
<1>1. CallsOK'
  BY CallGoes DEF TypeOK, CallsOK, ApplyToProjection, Goto, Statement, Resolving
<1>2. TablesOK'
  BY TypeFillIn DEF TypeOK, TablesOK, ApplyToProjection, Resolving, Table, history, spanTable
<1>. QED
  BY <1>1, <1>2 DEF TypeOK

LEMMA TypeApplyToHooks ==
  ASSUME TypeOK, NEW w \in Worker, ApplyToHooks(w)
  PROVE  TypeOK'
<1>. DEFINE j == [job[w] EXCEPT !.found = Nothing, !.foundConv = None, !.target = None]
<1>1. job[w] \in Job /\ job[w].span \in Span
  BY DEF TypeOK, CallsOK, ApplyToHooks
<1>2. j \in Job /\ j.span = job[w].span
  BY <1>1 DEF Job, Nothing
<1>3. AfterResolve(w) \in Statement \ Resolving
  BY <1>1 DEF AfterResolve, Job, Statement, Resolving
<1>4. CallsOK'
  BY <1>1, <1>2, <1>3, CallMoves DEF TypeOK, ApplyToHooks, Goto
<1>5. TablesOK'
  BY TypeFillIn DEF TypeOK, TablesOK, ApplyToHooks, Resolving, Table, history, spanTable
<1>. QED
  BY <1>4, <1>5 DEF TypeOK

LEMMA TypeListDescendants ==
  ASSUME TypeOK, NEW w \in Worker, ListDescendants(w)
  PROVE  TypeOK'
<1>. DEFINE S == Descendants(job[w].span)
            j == [job[w] EXCEPT !.todo = S]
<1>1. job[w] \in Job /\ job[w].span \in Span
  BY DEF TypeOK, CallsOK, ListDescendants
<1>2. S \in SUBSET Span
  BY DEF Descendants
<1>3. job' = [job EXCEPT ![w] = j] /\ pc' = [pc EXCEPT ![w] = "next"]
  BY DEF ListDescendants, Goto
<1>. HIDE DEF S
<1>4. j \in Job /\ j.span = job[w].span
  BY <1>1, <1>2, LocalsType DEF Job
<1>5. CallsOK'
  BY <1>1, <1>3, <1>4, CallMoves DEF TypeOK, Statement, Resolving
<1>6. TablesOK'
  BY DEF TypeOK, TablesOK, ListDescendants, tables, history, spanTable, projections
<1>. QED
  BY <1>5, <1>6 DEF TypeOK

LEMMA TypeReadConversation ==
  ASSUME TypeOK, NEW w \in Worker, ReadConversation(w)
  PROVE  TypeOK'
<1>. DEFINE c == NearestConversation(job[w].span)
            j == [job[w] EXCEPT !.conv = c]
            l == IF c # None THEN "session"
                 ELSE IF job[w].span \in Eventful THEN "derive" ELSE "refresh"
<1>1. job[w] \in Job /\ job[w].span \in Span
  BY DEF TypeOK, CallsOK, ReadConversation
<1>2. c \in Conversation \cup {None}
  BY <1>1, NearestConversationType
<1>3. /\ job' = [job EXCEPT ![w] = j]
      /\ pc' = [pc EXCEPT ![w] = l]
      /\ l \in Statement \ Resolving
  BY DEF ReadConversation, Goto, Statement, Resolving
<1>. HIDE DEF c, l
<1>4. j \in Job /\ j.span = job[w].span
  BY <1>1, <1>2, LocalsType DEF Job
<1>5. CallsOK'
  BY <1>1, <1>3, <1>4, CallMoves DEF TypeOK
<1>6. TablesOK'
  BY DEF TypeOK, TablesOK, ReadConversation, tables, history, spanTable, projections
<1>. QED
  BY <1>5, <1>6 DEF TypeOK

LEMMA TypeUpsertSession ==
  ASSUME TypeOK, NEW w \in Worker, UpsertSession(w)
  PROVE  TypeOK'
<1>1. CallsOK'
  BY CallGoes DEF TypeOK, UpsertSession, Goto, Statement, Resolving
<1>2. NewSession \in Counters
  BY DEF NewSession, Counters
<1>3. session' \in [Conversation -> Counters \cup {None}]
  BY <1>2 DEF TypeOK, TablesOK, UpsertSession, Coalesce
<1>4. TablesOK'
  BY <1>3 DEF TypeOK, TablesOK, UpsertSession, history, spanTable, projections
<1>. QED
  BY <1>1, <1>4 DEF TypeOK

LEMMA TypeRecountSession ==
  ASSUME TypeOK, NEW w \in Worker, RecountSession(w)
  PROVE  TypeOK'
<1>. DEFINE c == job[w].conv
            n == [chat_turn |-> Cardinality(Members("chat", c)),
                  tool_call |-> Cardinality(Members("execute_tool", c)),
                  agent_run |-> Cardinality(Members("invoke_agent", c))]
            l == IF job[w].span \in Eventful THEN "derive" ELSE "refresh"
<1>1. \A kind : Cardinality(Members(kind, c)) \in Nat
  <2>1. \A kind : Members(kind, c) \in SUBSET Span
    BY DEF TypeOK, TablesOK, Members
  <2>. QED
    BY <2>1, CountType
<1>2. n \in Counters
  BY <1>1 DEF Counters
<1>3. session' = [session EXCEPT ![c] = n] /\ pc' = [pc EXCEPT ![w] = l]
  BY DEF RecountSession, Goto
<1>4. session' \in [Conversation -> Counters \cup {None}]
  <2>. HIDE DEF n, c
  <2>. QED
    BY <1>2, <1>3 DEF TypeOK, TablesOK
<1>5. l \in Statement \ Resolving
  BY DEF Statement, Resolving
<1>6. CallsOK'
  BY <1>3, <1>5, CallGoes DEF TypeOK, RecountSession
<1>7. TablesOK'
  BY <1>4 DEF TypeOK, TablesOK, RecountSession, history, spanTable, projections
<1>. QED
  BY <1>6, <1>7 DEF TypeOK

LEMMA TypeDeriveFromEvents ==
  ASSUME TypeOK, NEW w \in Worker, DeriveFromEvents(w)
  PROVE  TypeOK'
<1>. DEFINE j == [job[w] EXCEPT !.after = "refresh", !.target = job[w].span]
<1>1. job[w] \in Job /\ job[w].span \in Span /\ job[w].conv \in Conversation \cup {None}
  BY DEF TypeOK, CallsOK, DeriveFromEvents, Job
<1>2. j \in Job /\ j.span = job[w].span /\ j.target = job[w].span
  BY <1>1 DEF Job
<1>3. job' = [job EXCEPT ![w] = j] /\ pc' = [pc EXCEPT ![w] = "walk"]
  BY DEF DeriveFromEvents, Goto
<1>4. CallsOK'
  BY <1>1, <1>2, <1>3, CallMoves DEF TypeOK, Statement
<1>5. conv' \in [Table -> [Span -> Conversation \cup {None}]]
  BY <1>1 DEF TypeOK, TablesOK, DeriveFromEvents, Coalesce, Table
<1>6. TablesOK'
  BY <1>1, <1>5 DEF TypeOK, TablesOK, DeriveFromEvents, history, spanTable
<1>. QED
  BY <1>4, <1>6 DEF TypeOK

LEMMA TypeRefreshToolCount ==
  ASSUME TypeOK, NEW w \in Worker, RefreshToolCount(w)
  PROVE  TypeOK'
<1>1. CallsOK'
  BY CallGoes DEF TypeOK, RefreshToolCount, Goto, Statement, Resolving
<1>2. \A s : Cardinality(ToolCallsOf(s)) \in Nat
  <2>1. \A s : ToolCallsOf(s) \in SUBSET Span
    BY DEF TypeOK, TablesOK, ToolCallsOf
  <2>. QED
    BY <2>1, CountType
<1>3. toolCount' \in [Span -> Nat]
  BY <1>2 DEF TypeOK, TablesOK, RefreshToolCount
<1>4. TablesOK'
  BY <1>3 DEF TypeOK, TablesOK, RefreshToolCount, history, spanTable
<1>. QED
  BY <1>1, <1>4 DEF TypeOK

\* A call is over, with or without success.
LEMMA CallEnds ==
  ASSUME CallsOK, NEW w \in Worker,
         pc' = [pc EXCEPT ![w] = "idle"],
         job' = [job EXCEPT ![w] = NoJob]
  PROVE  CallsOK'
BY NoJobType, CallMoves DEF Statement, Resolving

LEMMA TypeAnnounce ==
  ASSUME TypeOK, NEW w \in Worker, Announce(w)
  PROVE  TypeOK'
<1>1. job[w].span \in Span
  BY DEF TypeOK, CallsOK, Announce
<1>2. CallsOK'
  BY CallEnds DEF TypeOK, Announce, Goto
<1>3. heard' \in [Span -> SUBSET {"placeholder", "insert", "upgrade"}]
  BY <1>1 DEF TypeOK, TablesOK, Announce
<1>4. TablesOK'
  BY <1>1, <1>3 DEF TypeOK, TablesOK, Announce, projections
<1>. QED
  BY <1>2, <1>4 DEF TypeOK

LEMMA TypeFail ==
  ASSUME TypeOK, NEW w \in Worker, Fail(w)
  PROVE  TypeOK'
<1>1. CallsOK'
  BY CallEnds DEF TypeOK, Fail, Goto
<1>2. TablesOK'
  BY DEF TypeOK, TablesOK, Fail, tables, history, spanTable, projections
<1>. QED
  BY <1>1, <1>2 DEF TypeOK

LEMMA TypeStutter ==
  ASSUME TypeOK, UNCHANGED vars
  PROVE  TypeOK'
BY DEF TypeOK, TablesOK, CallsOK, vars, tables, history, spanTable, projections

LEMMA TypeNext ==
  ASSUME TypeOK, [Next]_vars
  PROVE  TypeOK'
<1>1. ASSUME NEW w \in Worker, Step(w) PROVE TypeOK'
  BY <1>1, TypeLookup, TypeUpsertSpan, TypeEnsurePlaceholder,
     TypeUpsertAgentRunOrChatTurn, TypeUpsertToolCall, TypePairExternalCalls,
     TypeLookupToolCall, TypeUpsertExternalToolCall, TypeSkipProjection,
     TypeWalkAncestors, TypeApplyToProjection, TypeApplyToHooks,
     TypeListDescendants, TypeReadConversation, TypeUpsertSession,
     TypeRecountSession, TypeDeriveFromEvents, TypeRefreshToolCount,
     TypeAnnounce DEF Step
<1>. QED
  BY <1>1, TypeReceive, TypeFail, TypeStutter DEF Next, SteadyNext

\* No statement, however calls interleave or fail, puts a value of the wrong
\* type into a table, or leaves a call without the row it is working on.
THEOREM TypeCorrect == Spec => []TypeOK
<1>1. Init => TypeOK
  BY TypeInit
<1>2. TypeOK /\ [Next]_vars => TypeOK'
  BY TypeNext
<1>. QED
  BY <1>1, <1>2, PTL DEF Spec

-----------------------------------------------------------------------------
(***************************************************************************)
(* Normalize implements SpanLedger and files every row under the right     *)
(* conversation, for any trace, any number of workers, and calls that fail *)
(* anywhere.                                                               *)
(***************************************************************************)

(* What a walk returns.                                                    *)

\* A walk past the span itself sees nothing unless the span is real, and the
\* projected rows it finds are real ancestors of the wanted kind.
LEMMA WalkFindsReal ==
  ASSUME TypeOK, RowsReal, NEW s \in Span, NEW c \in Column,
         NearestAncestors(s)[c] # None
  PROVE  /\ NearestAncestors(s)[c] \in Candidates[c][s]
         /\ row[NearestAncestors(s)[c]] = "real"
<1>. DEFINE seen == {i \in Visible(s) : /\ i > 0
                                        /\ At(s, i) \in projected
                                        /\ Kind[At(s, i)] \in Wanted[c]}
<1>1. NearestAncestors(s)[c] = Closest(s, seen)
  BY DEF NearestAncestors
<1>2. seen \in SUBSET Depths(s)
  BY DEF Visible
<1>3. \A i \in seen : i > 0 /\ Kind[At(s, i)] \in Wanted[c] /\ At(s, i) \in projected
  OBVIOUS
<1>. HIDE DEF seen
<1>4. PICK i \in seen : Closest(s, seen) = At(s, i)
  BY <1>1, <1>2, ClosestIsLeast
<1>5. row[At(s, i)] = "real"
  BY <1>3, <1>4 DEF RowsReal
<1>6. Closest(s, seen) \in Candidates[c][s]
  BY <1>1, <1>2, <1>3, ClosestIsCandidate
<1>. QED
  BY <1>1, <1>4, <1>5, <1>6

\* A walk that finds a conversation id has come up an unbroken chain of real
\* spans, so it has missed no nearer id.
LEMMA WalkFindsExact ==
  ASSUME NEW s \in Span, NearestConversation(s) # None
  PROVE  NearestConversation(s) = TrueConversation[s]
<1>. DEFINE D == {i \in Visible(s) : row[At(s, i)] = "real"}
<1>1. D \in SUBSET Depths(s)
  BY DEF Visible
<1>2. ASSUME NEW i \in D, NEW j \in Depths(s), j < i
      PROVE  j \in D
  <2>1. i \in Nat /\ j \in Nat
    BY <1>1 DEF Depths
  <2>2. \A k \in 0..(i - 1) : row[At(s, k)] = "real"
    BY DEF Visible
  <2>3. row[At(s, j)] = "real"
    BY <1>2, <2>1, <2>2
  <2>4. \A k \in 0..(j - 1) : k \in 0..(i - 1)
    BY <1>2, <2>1
  <2>5. j \in Visible(s)
    BY <2>2, <2>3, <2>4 DEF Visible
  <2>. QED
    BY <2>3, <2>5
<1>3. NearestConversation(s) = ConversationAt(s, D)
  BY DEF NearestConversation
<1>. HIDE DEF D
<1>. QED
  BY <1>1, <1>2, <1>3, UnbrokenIsExact

-----------------------------------------------------------------------------
(* How a step preserves the invariant.                                     *)

RowsKept == \A x \in Span : row[x] = "real" => row'[x] = "real"

\* Steps of one call leave what the others rely on.
LEMMA OthersTrusted ==
  ASSUME TypeOK, NEW v \in Worker, Trusted(v), RowsKept,
         pc'[v] = pc[v], job'[v] = job[v]
  PROVE  Trusted(v)'
<1>1. job[v] \in Job
  BY DEF TypeOK, CallsOK
<1>2. pc[v] # "idle" => job[v].span \in Span
  BY DEF TypeOK, CallsOK
<1>3. WorksOnReal(v)'
  BY <1>1, <1>2 DEF Trusted, WorksOnReal, RowsKept, Job
<1>4. FoundReal(v)'
  BY <1>1 DEF Trusted, FoundReal, RowsKept, Job
<1>5. CarriesExact(v)'
  BY DEF Trusted, CarriesExact
<1>. QED
  BY <1>3, <1>4, <1>5 DEF Trusted

\* It is enough to look at the call that takes the step and at the tables.
LEMMA TrustStep ==
  ASSUME Trustworthy, TypeOK', NEW w \in Worker, RowsKept,
         \A v \in Worker \ {w} : pc'[v] = pc[v] /\ job'[v] = job[v],
         RowsReal', ConversationExact', Trusted(w)'
  PROVE  Trustworthy'
<1>1. ASSUME NEW v \in Worker, v # w
      PROVE  Trusted(v)'
  BY <1>1, OthersTrusted DEF Trustworthy
<1>. QED
  BY <1>1 DEF Trustworthy

LEMMA TablesTrusted ==
  ASSUME Trustworthy, RowsKept, UNCHANGED <<projected, hooked, conv>>
  PROVE  RowsReal' /\ ConversationExact'
BY DEF Trustworthy, TypeOK, TablesOK, RowsKept, RowsReal, ConversationExact

\* A statement that only moves its call on is harmless past the upsert.
LEMMA TrustMove ==
  ASSUME Trustworthy, TypeOK', NEW w \in Worker, NEW l,
         pc[w] \notin {"idle", "lookup", "upsert", "apply", "apply_hooks"},
         pc' = [pc EXCEPT ![w] = l],
         UNCHANGED <<row, projected, hooked, conv, job>>
  PROVE  Trustworthy'
<1>1. RowsKept
  BY DEF RowsKept
<1>2. Trusted(w)
  BY DEF Trustworthy
<1>3. Trusted(w)'
  BY <1>2 DEF Trusted, WorksOnReal, FoundReal, CarriesExact
<1>. QED
  BY <1>1, <1>3, TablesTrusted, TrustStep DEF Trustworthy, TypeOK, CallsOK

\* A statement that changes neither rows nor conversations, but the locals of
\* its call.
LEMMA TrustLocals ==
  ASSUME Trustworthy, TypeOK', NEW w \in Worker, NEW l, NEW j,
         pc' = [pc EXCEPT ![w] = l],
         job' = [job EXCEPT ![w] = j],
         UNCHANGED <<row, projected, hooked, conv>>,
         Trusted(w)'
  PROVE  Trustworthy'
<1>1. RowsKept
  BY DEF RowsKept
<1>. QED
  BY <1>1, TablesTrusted, TrustStep DEF Trustworthy, TypeOK, CallsOK

LEMMA TrustReceive ==
  ASSUME Trustworthy, TypeOK', NEW w \in Worker, NEW s \in Span, Receive(w, s)
  PROVE  Trustworthy'
<1>. DEFINE j == [NoJob EXCEPT !.span = s]
<1>1. job' = [job EXCEPT ![w] = j] /\ pc' = [pc EXCEPT ![w] = "lookup"]
  BY DEF Receive, Goto
<1>2. job'[w] = j /\ pc'[w] = "lookup"
  BY <1>1 DEF Trustworthy, TypeOK, CallsOK
<1>3. Trusted(w)'
  BY <1>2 DEF NoJob, Nothing, Trusted, WorksOnReal, FoundReal, CarriesExact
<1>. QED
  BY <1>1, <1>3, TrustLocals DEF Receive, tables, spanTable, projections

LEMMA TrustLookup ==
  ASSUME Trustworthy, TypeOK', NEW w \in Worker, Lookup(w)
  PROVE  Trustworthy'
<1>. DEFINE j == [job[w] EXCEPT !.prev = row[job[w].span]]
<1>1. job' = [job EXCEPT ![w] = j] /\ pc' = [pc EXCEPT ![w] = "upsert"]
  BY DEF Lookup, Goto
<1>2. job'[w] = j /\ pc'[w] = "upsert" /\ job[w] \in Job /\ Trusted(w) /\ row' = row
  BY <1>1 DEF Trustworthy, TypeOK, CallsOK, Lookup, tables, spanTable
<1>3. Trusted(w)'
  BY <1>2 DEF Lookup, Job, Trusted, WorksOnReal, FoundReal, CarriesExact
<1>. QED
  BY <1>1, <1>3, TrustLocals DEF Lookup, tables, spanTable, projections

LEMMA TrustUpsertSpan ==
  ASSUME Trustworthy, TypeOK', NEW w \in Worker, UpsertSpan(w)
  PROVE  Trustworthy'
<1>1. job[w].span \in Span /\ job[w] \in Job /\ Trusted(w)
  BY DEF Trustworthy, TypeOK, CallsOK, UpsertSpan
<1>2. /\ row \in [Span -> RowState]
      /\ row' = [row EXCEPT ![job[w].span] = "real"]
  BY DEF Trustworthy, TypeOK, TablesOK, UpsertSpan
<1>3. RowsKept
  BY <1>1, <1>2 DEF RowsKept
<1>4. Trusted(w)'
  <2>1. job' = job /\ row'[job[w].span] = "real" /\ pc[w] = "upsert"
    BY <1>1, <1>2 DEF UpsertSpan
  <2>2. WorksOnReal(w)'
    BY <1>1, <1>3, <2>1 DEF Trusted, WorksOnReal, RowsKept, Job
  <2>3. FoundReal(w)'
    BY <1>1, <2>1 DEF Trusted, FoundReal
  <2>4. CarriesExact(w)'
    BY <1>1, <2>1 DEF Trusted, CarriesExact
  <2>. QED
    BY <2>2, <2>3, <2>4 DEF Trusted
<1>. QED
  BY <1>3, <1>4, TablesTrusted, TrustStep
     DEF Trustworthy, TypeOK, CallsOK, UpsertSpan, Goto, projections

LEMMA TrustEnsurePlaceholder ==
  ASSUME Trustworthy, TypeOK', NEW w \in Worker, EnsurePlaceholder(w)
  PROVE  Trustworthy'
<1>1. RowsKept
  <2>. DEFINE p == Parent(job[w].span)
  <2>1. CASE row[p] = "absent"
    <3>1. row' = [row EXCEPT ![p] = "placeholder"]
      BY <2>1 DEF EnsurePlaceholder
    <3>. HIDE DEF p
    <3>. QED
      BY <2>1, <3>1 DEF RowsKept, Trustworthy, TypeOK, TablesOK
  <2>2. CASE row[p] # "absent"
    BY <2>2 DEF EnsurePlaceholder, RowsKept, spanTable
  <2>. QED
    BY <2>1, <2>2
<1>2. Trusted(w) /\ job[w] \in Job /\ job[w].span \in Span
  BY DEF Trustworthy, TypeOK, CallsOK, EnsurePlaceholder
<1>3. job' = job /\ pc[w] = "parent"
  BY DEF EnsurePlaceholder
<1>4. Trusted(w)'
  <2>1. WorksOnReal(w)'
    BY <1>1, <1>2, <1>3 DEF Trusted, WorksOnReal, RowsKept, Job
  <2>2. FoundReal(w)' /\ CarriesExact(w)'
    BY <1>2, <1>3 DEF Trusted, FoundReal, CarriesExact
  <2>. QED
    BY <2>1, <2>2 DEF Trusted
<1>. QED
  BY <1>1, <1>4, TablesTrusted, TrustStep
     DEF Trustworthy, TypeOK, CallsOK, EnsurePlaceholder, Goto, projections

\* The common part of the four projection upserts.
LEMMA TrustInsertProjection ==
  ASSUME Trustworthy, NEW s \in Span, row[s] = "real",
         InsertProjection(s), UNCHANGED <<row, hooked>>
  PROVE  RowsReal' /\ ConversationExact'
<1>1. RowsReal'
  BY DEF Trustworthy, RowsReal, InsertProjection
<1>2. ASSUME NEW t \in Table, NEW x \in Span
      PROVE  conv'[t][x] \in {None, TrueConversation[x]}
  <2>1. conv \in [Table -> [Span -> Conversation \cup {None}]]
    BY DEF Trustworthy, TypeOK, TablesOK
  <2>2. conv[t][x] \in {None, TrueConversation[x]}
    BY DEF Trustworthy, ConversationExact
  <2>3. CASE t = "projection" /\ x = s
    <3>1. conv'[t][x] = Coalesce(ConvAttr[s], conv[t][x])
      BY <2>1, <2>3 DEF InsertProjection
    <3>. QED
      BY <2>2, <2>3, <3>1, OwnConversation DEF Coalesce
  <2>4. CASE ~(t = "projection" /\ x = s)
    <3>1. conv'[t][x] = conv[t][x]
      BY <2>1, <2>4 DEF InsertProjection
    <3>. QED
      BY <2>2, <3>1
  <2>. QED
    BY <2>3, <2>4
<1>. QED
  BY <1>1, <1>2 DEF ConversationExact

\* A call whose span row is complete goes on to resolve its pointers.
LEMMA TrustTargets ==
  ASSUME Trustworthy, NEW w \in Worker, NEW j,
         pc[w] \in {"project", "insert", "derive"},
         pc'[w] \in {"pair", "walk"},
         j.target = job[w].span,
         job'[w] = j,
         /\ j.span = job[w].span
         /\ j.todo = job[w].todo
         /\ j.found = job[w].found
         /\ j.foundConv = job[w].foundConv
         /\ j.conv = job[w].conv,
         row' = row
  PROVE  Trusted(w)'
<1>1. Trusted(w) /\ job[w].span \in Span
  BY DEF Trustworthy, TypeOK, CallsOK
<1>2. WorksOnReal(w)'
  BY <1>1 DEF Trusted, WorksOnReal
<1>3. FoundReal(w)'
  BY <1>1 DEF Trusted, FoundReal
<1>4. CarriesExact(w)'
  BY <1>1 DEF Trusted, CarriesExact
<1>. QED
  BY <1>2, <1>3, <1>4 DEF Trusted

LEMMA TrustUpsertAgentRunOrChatTurn ==
  ASSUME Trustworthy, TypeOK', NEW w \in Worker, UpsertAgentRunOrChatTurn(w)
  PROVE  Trustworthy'
<1>1. Trusted(w) /\ job[w] \in Job /\ job[w].span \in Span
  BY DEF Trustworthy, TypeOK, CallsOK, UpsertAgentRunOrChatTurn
<1>2. row' = row /\ hooked' = hooked /\ RowsKept
  BY DEF UpsertAgentRunOrChatTurn, spanTable, RowsKept
<1>3. row[job[w].span] = "real"
  BY <1>1 DEF Trusted, WorksOnReal, UpsertAgentRunOrChatTurn
<1>4. RowsReal' /\ ConversationExact'
  BY <1>1, <1>2, <1>3, TrustInsertProjection DEF UpsertAgentRunOrChatTurn
<1>. DEFINE j == [job[w] EXCEPT !.target = job[w].span]
<1>5. job'[w] = j
  BY DEF Trustworthy, TypeOK, CallsOK, UpsertAgentRunOrChatTurn
<1>6. Trusted(w)'
  BY <1>1, <1>2, <1>5, TrustTargets
     DEF Trustworthy, TypeOK, CallsOK, Job, UpsertAgentRunOrChatTurn, Goto
<1>. QED
  BY <1>2, <1>4, <1>6, TrustStep
     DEF Trustworthy, TypeOK, CallsOK, UpsertAgentRunOrChatTurn, Goto

LEMMA TrustUpsertToolCall ==
  ASSUME Trustworthy, TypeOK', NEW w \in Worker, UpsertToolCall(w)
  PROVE  Trustworthy'
<1>1. Trusted(w) /\ job[w] \in Job /\ job[w].span \in Span
  BY DEF Trustworthy, TypeOK, CallsOK, UpsertToolCall
<1>2. row' = row /\ hooked' = hooked /\ RowsKept
  BY DEF UpsertToolCall, spanTable, RowsKept
<1>3. row[job[w].span] = "real"
  BY <1>1 DEF Trusted, WorksOnReal, UpsertToolCall
<1>4. RowsReal' /\ ConversationExact'
  BY <1>1, <1>2, <1>3, TrustInsertProjection DEF UpsertToolCall
<1>. DEFINE j == [job[w] EXCEPT !.target = job[w].span]
<1>5. job'[w] = j
  BY DEF Trustworthy, TypeOK, CallsOK, UpsertToolCall
<1>6. Trusted(w)'
  BY <1>1, <1>2, <1>5, TrustTargets
     DEF Trustworthy, TypeOK, CallsOK, Job, UpsertToolCall, Goto
<1>. QED
  BY <1>2, <1>4, <1>6, TrustStep
     DEF Trustworthy, TypeOK, CallsOK, UpsertToolCall, Goto

LEMMA TrustPairExternalCalls ==
  ASSUME Trustworthy, TypeOK', NEW w \in Worker, PairExternalCalls(w)
  PROVE  Trustworthy'
BY TrustMove DEF PairExternalCalls, Goto, spanTable

LEMMA TrustLookupToolCall ==
  ASSUME Trustworthy, TypeOK', NEW w \in Worker, LookupToolCall(w)
  PROVE  Trustworthy'
<1>1. Trusted(w) /\ job[w] \in Job /\ job[w].span \in Span
  BY DEF Trustworthy, TypeOK, CallsOK, LookupToolCall
<1>2. pc' = [pc EXCEPT ![w] = "insert"] /\ pc[w] = "project" /\ row' = row
  BY DEF LookupToolCall, Goto, tables, spanTable
<1>3. CASE UNCHANGED job
  BY <1>2, <1>3, TrustMove DEF LookupToolCall, tables, spanTable, projections
<1>4. CASE \E t : job' = [job EXCEPT ![w].mate = t]
  <2>1. PICK t : job' = [job EXCEPT ![w].mate = t]
    BY <1>4
  <2>. DEFINE j == [job[w] EXCEPT !.mate = t]
  <2>2. job' = [job EXCEPT ![w] = j] /\ job'[w] = j /\ pc'[w] = "insert"
    BY <1>2, <2>1 DEF Trustworthy, TypeOK, CallsOK
  <2>3. Trusted(w)'
    BY <1>1, <1>2, <2>2 DEF Job, Trusted, WorksOnReal, FoundReal, CarriesExact
  <2>. QED
    BY <1>2, <2>2, <2>3, TrustLocals DEF LookupToolCall, tables, spanTable, projections
<1>. QED
  BY <1>3, <1>4 DEF LookupToolCall

LEMMA TrustUpsertExternalToolCall ==
  ASSUME Trustworthy, TypeOK', NEW w \in Worker, UpsertExternalToolCall(w)
  PROVE  Trustworthy'
<1>1. Trusted(w) /\ job[w] \in Job /\ job[w].span \in Span
  BY DEF Trustworthy, TypeOK, CallsOK, UpsertExternalToolCall
<1>2. row' = row /\ hooked' = hooked /\ RowsKept
  BY DEF UpsertExternalToolCall, spanTable, RowsKept
<1>3. row[job[w].span] = "real"
  BY <1>1 DEF Trusted, WorksOnReal, UpsertExternalToolCall
<1>4. RowsReal' /\ ConversationExact'
  BY <1>1, <1>2, <1>3, TrustInsertProjection DEF UpsertExternalToolCall
<1>. DEFINE j == [job[w] EXCEPT !.mate = None, !.target = job[w].span]
<1>5. /\ job'[w] = j
      /\ pc[w] = "insert"
      /\ pc'[w] = "walk"
      /\ \A v \in Worker \ {w} : pc'[v] = pc[v] /\ job'[v] = job[v]
  <2>1. job' = [job EXCEPT ![w] = j]
    BY DEF UpsertExternalToolCall
  <2>. HIDE DEF j
  <2>. QED
    BY <2>1 DEF Trustworthy, TypeOK, CallsOK, UpsertExternalToolCall, Goto
<1>6. /\ j.span = job[w].span
      /\ j.todo = job[w].todo
      /\ j.target = job[w].span
      /\ j.found = job[w].found
      /\ j.foundConv = job[w].foundConv
      /\ j.conv = job[w].conv
  BY <1>1 DEF Job
<1>. HIDE DEF j
<1>7. Trusted(w)'
  BY <1>2, <1>5, <1>6, TrustTargets
<1>. QED
  BY <1>2, <1>4, <1>5, <1>7, TrustStep

LEMMA TrustSkipProjection ==
  ASSUME Trustworthy, TypeOK', NEW w \in Worker, SkipProjection(w)
  PROVE  Trustworthy'
<1>1. job[w] \in Job /\ row' = row
  BY DEF Trustworthy, TypeOK, CallsOK, SkipProjection, tables, spanTable
<1>. DEFINE j == [job[w] EXCEPT !.target = job[w].span]
<1>2. job'[w] = j
  BY DEF Trustworthy, TypeOK, CallsOK, SkipProjection
<1>3. Trusted(w)'
  BY <1>1, <1>2, TrustTargets
     DEF Trustworthy, TypeOK, CallsOK, Job, SkipProjection, Goto
<1>4. job' = [job EXCEPT ![w] = j] /\ pc' = [pc EXCEPT ![w] = "walk"]
  BY DEF SkipProjection, Goto
<1>. QED
  BY <1>3, <1>4, TrustLocals DEF SkipProjection, tables, spanTable, projections

LEMMA TrustWalkAncestors ==
  ASSUME Trustworthy, TypeOK', NEW w \in Worker, NEW t \in Span, WalkAncestors(w, t)
  PROVE  Trustworthy'
<1>. DEFINE f == NearestAncestors(t)
            c == NearestConversation(t)
            j == [job[w] EXCEPT !.target = t, !.todo = @ \ {t}, !.found = f,
                                !.foundConv = c]
<1>1. job' = [job EXCEPT ![w] = j] /\ pc' = [pc EXCEPT ![w] = "apply"]
  BY DEF WalkAncestors, Goto
<1>2. Trusted(w) /\ job[w] \in Job
  BY DEF Trustworthy, TypeOK, CallsOK
<1>3. row[t] = "real" /\ row[job[w].span] = "real"
  BY <1>2, NoneAssumption
     DEF Trusted, WorksOnReal, Trustworthy, TypeOK, CallsOK, WalkAncestors
<1>4. \A k \in Column : f[k] # None => f[k] \in Candidates[k][t] /\ row[f[k]] = "real"
  BY WalkFindsReal DEF Trustworthy
<1>5. c # None => c = TrueConversation[t]
  BY WalkFindsExact
<1>. HIDE DEF f, c
<1>6. /\ j.span = job[w].span
      /\ j.todo = job[w].todo \ {t}
      /\ j.target = t
      /\ j.found = f
      /\ j.foundConv = c
      /\ j.conv = job[w].conv
  BY <1>2 DEF Job
<1>. HIDE DEF j
<1>7. job'[w] = j /\ pc'[w] = "apply" /\ row' = row
  BY <1>1 DEF Trustworthy, TypeOK, CallsOK, WalkAncestors, tables, spanTable
<1>8. WorksOnReal(w)'
  BY <1>2, <1>3, <1>6, <1>7 DEF Trusted, WorksOnReal
<1>9. FoundReal(w)'
  BY <1>4, <1>6, <1>7 DEF FoundReal
<1>10. CarriesExact(w)'
  BY <1>2, <1>5, <1>6, <1>7 DEF Trusted, CarriesExact
<1>. QED
  BY <1>1, <1>8, <1>9, <1>10, TrustLocals
     DEF Trusted, WalkAncestors, tables, spanTable, projections

\* The updates of one row from the result of its walk file it correctly.
LEMMA TrustFillIn ==
  ASSUME Trustworthy, NEW w \in Worker, NEW t \in Table, NEW cols, NEW rows,
         pc[w] \in {"apply", "apply_hooks"}, FillIn(w, t, cols, rows)
  PROVE  ConversationExact'
<1>1. job[w] \in Job /\ job[w].target \in Span /\ Trusted(w)
  BY DEF Trustworthy, TypeOK, CallsOK, Resolving
<1>2. conv \in [Table -> [Span -> Conversation \cup {None}]]
  BY DEF Trustworthy, TypeOK, TablesOK
<1>3. job[w].foundConv \in {None, TrueConversation[job[w].target]}
  BY <1>1 DEF Trusted, CarriesExact
<1>4. ASSUME NEW u \in Table, NEW x \in Span
      PROVE  conv'[u][x] \in {None, TrueConversation[x]}
  <2>1. conv[u][x] \in {None, TrueConversation[x]}
    BY DEF Trustworthy, ConversationExact
  <2>2. \/ conv'[u][x] = conv[u][x]
        \/ x = job[w].target /\ conv'[u][x] = Coalesce(conv[u][x], job[w].foundConv)
    BY <1>1, <1>2 DEF FillIn
  <2>. QED
    BY <1>3, <2>1, <2>2 DEF Coalesce
<1>. QED
  BY <1>4 DEF ConversationExact

LEMMA TrustApplyToProjection ==
  ASSUME Trustworthy, TypeOK', NEW w \in Worker, ApplyToProjection(w)
  PROVE  Trustworthy'
<1>1. ConversationExact'
  BY TrustFillIn DEF ApplyToProjection, Table
<1>2. RowsReal' /\ RowsKept
  BY DEF ApplyToProjection, spanTable, RowsKept, RowsReal, Trustworthy
<1>3. Trusted(w)
  BY DEF Trustworthy
<1>4. pc[w] = "apply" /\ pc'[w] = "apply_hooks" /\ job' = job /\ row' = row
  BY DEF Trustworthy, TypeOK, CallsOK, ApplyToProjection, Goto, spanTable
<1>5. Trusted(w)'
  BY <1>3, <1>4 DEF Trusted, WorksOnReal, FoundReal, CarriesExact
<1>. QED
  BY <1>1, <1>2, <1>5, TrustStep
     DEF Trustworthy, TypeOK, CallsOK, ApplyToProjection, Goto

LEMMA TrustApplyToHooks ==
  ASSUME Trustworthy, TypeOK', NEW w \in Worker, ApplyToHooks(w)
  PROVE  Trustworthy'
<1>. DEFINE j == [job[w] EXCEPT !.found = Nothing, !.foundConv = None, !.target = None]
<1>1. ConversationExact'
  BY TrustFillIn DEF ApplyToHooks, Table
<1>2. RowsReal' /\ RowsKept
  BY DEF ApplyToHooks, spanTable, RowsKept, RowsReal, Trustworthy
<1>3. Trusted(w) /\ job[w] \in Job
  BY DEF Trustworthy, TypeOK, CallsOK
<1>4. job' = [job EXCEPT ![w] = j]
  BY DEF ApplyToHooks
<1>5. /\ j.span = job[w].span
      /\ j.todo = job[w].todo
      /\ j.target = None
      /\ j.found = Nothing
      /\ j.foundConv = None
      /\ j.conv = job[w].conv
  BY <1>3 DEF Job
<1>. HIDE DEF j
<1>6. pc[w] = "apply_hooks" /\ job'[w] = j /\ row' = row
  BY <1>4 DEF Trustworthy, TypeOK, CallsOK, ApplyToHooks, spanTable
<1>7. WorksOnReal(w)'
  BY <1>3, <1>5, <1>6 DEF Trusted, WorksOnReal
<1>8. FoundReal(w)'
  BY <1>5, <1>6 DEF FoundReal, Nothing
<1>9. CarriesExact(w)'
  BY <1>3, <1>5, <1>6 DEF Trusted, CarriesExact
<1>10. \A v \in Worker \ {w} : pc'[v] = pc[v] /\ job'[v] = job[v]
  BY <1>4 DEF Trustworthy, TypeOK, CallsOK, ApplyToHooks, Goto
<1>. QED
  BY <1>1, <1>2, <1>7, <1>8, <1>9, <1>10, TrustStep DEF Trusted

LEMMA TrustListDescendants ==
  ASSUME Trustworthy, TypeOK', NEW w \in Worker, ListDescendants(w)
  PROVE  Trustworthy'
<1>. DEFINE S == Descendants(job[w].span)
            j == [job[w] EXCEPT !.todo = S]
<1>1. job' = [job EXCEPT ![w] = j] /\ pc' = [pc EXCEPT ![w] = "next"]
  BY DEF ListDescendants, Goto
<1>2. Trusted(w) /\ job[w] \in Job
  BY DEF Trustworthy, TypeOK, CallsOK
<1>3. \A d \in S : row[d] = "real"
  <2>. SUFFICES ASSUME NEW d \in S
                PROVE  row[d] = "real"
    OBVIOUS
  <2>1. PICK i \in 1..Len(Lineage[d]) : \A k \in 0..(i - 1) : row[At(d, k)] = "real"
    BY DEF Descendants
  <2>2. 0 \in 0..(i - 1)
    BY <2>1
  <2>. QED
    BY <2>1, <2>2 DEF At
<1>. HIDE DEF S
<1>4. /\ j.span = job[w].span
      /\ j.todo = S
      /\ j.target = job[w].target
      /\ j.found = job[w].found
      /\ j.foundConv = job[w].foundConv
      /\ j.conv = job[w].conv
  BY <1>2 DEF Job
<1>. HIDE DEF j
<1>5. pc[w] = "forward" /\ pc'[w] = "next" /\ job'[w] = j /\ row' = row
  BY <1>1 DEF Trustworthy, TypeOK, CallsOK, ListDescendants, tables, spanTable
<1>6. Trusted(w)'
  BY <1>2, <1>3, <1>4, <1>5 DEF Trusted, WorksOnReal, FoundReal, CarriesExact
<1>. QED
  BY <1>1, <1>6, TrustLocals DEF ListDescendants, tables, spanTable, projections

LEMMA TrustReadConversation ==
  ASSUME Trustworthy, TypeOK', NEW w \in Worker, ReadConversation(w)
  PROVE  Trustworthy'
<1>. DEFINE c == NearestConversation(job[w].span)
            j == [job[w] EXCEPT !.conv = c]
            l == IF c # None THEN "session"
                 ELSE IF job[w].span \in Eventful THEN "derive" ELSE "refresh"
<1>1. job' = [job EXCEPT ![w] = j] /\ pc' = [pc EXCEPT ![w] = l]
  BY DEF ReadConversation, Goto
<1>2. Trusted(w) /\ job[w] \in Job /\ job[w].span \in Span
  BY DEF Trustworthy, TypeOK, CallsOK, ReadConversation
<1>3. c # None => c = TrueConversation[job[w].span]
  BY <1>2, WalkFindsExact
<1>. HIDE DEF c, l
<1>4. /\ j.span = job[w].span
      /\ j.todo = job[w].todo
      /\ j.target = job[w].target
      /\ j.found = job[w].found
      /\ j.foundConv = job[w].foundConv
      /\ j.conv = c
  BY <1>2 DEF Job
<1>. HIDE DEF j
<1>5. pc[w] = "next" /\ job'[w] = j /\ row' = row
  BY <1>1 DEF Trustworthy, TypeOK, CallsOK, ReadConversation, tables, spanTable
<1>6. WorksOnReal(w)'
  BY <1>2, <1>4, <1>5 DEF Trusted, WorksOnReal
<1>7. FoundReal(w)'
  BY <1>2, <1>4, <1>5 DEF Trusted, FoundReal
<1>8. CarriesExact(w)'
  BY <1>2, <1>3, <1>4, <1>5 DEF Trusted, CarriesExact
<1>. QED
  BY <1>1, <1>6, <1>7, <1>8, TrustLocals
     DEF Trusted, ReadConversation, tables, spanTable, projections

LEMMA TrustUpsertSession ==
  ASSUME Trustworthy, TypeOK', NEW w \in Worker, UpsertSession(w)
  PROVE  Trustworthy'
BY TrustMove DEF UpsertSession, Goto, spanTable, projections

LEMMA TrustRecountSession ==
  ASSUME Trustworthy, TypeOK', NEW w \in Worker, RecountSession(w)
  PROVE  Trustworthy'
BY TrustMove DEF RecountSession, Goto, spanTable, projections

LEMMA TrustDeriveFromEvents ==
  ASSUME Trustworthy, TypeOK', NEW w \in Worker, DeriveFromEvents(w)
  PROVE  Trustworthy'
<1>. DEFINE s == job[w].span
            j == [job[w] EXCEPT !.after = "refresh", !.target = s]
<1>1. job' = [job EXCEPT ![w] = j] /\ pc' = [pc EXCEPT ![w] = "walk"]
  BY DEF DeriveFromEvents, Goto
<1>2. Trusted(w) /\ job[w] \in Job /\ s \in Span
  BY DEF Trustworthy, TypeOK, CallsOK, DeriveFromEvents
<1>3. /\ j.span = job[w].span
      /\ j.todo = job[w].todo
      /\ j.target = job[w].span
      /\ j.found = job[w].found
      /\ j.foundConv = job[w].foundConv
      /\ j.conv = job[w].conv
  BY <1>2 DEF Job
<1>. HIDE DEF j
<1>4. pc[w] = "derive" /\ pc'[w] = "walk" /\ job'[w] = j /\ row' = row
  BY <1>1 DEF Trustworthy, TypeOK, CallsOK, DeriveFromEvents, spanTable
<1>5. Trusted(w)'
  BY <1>3, <1>4, TrustTargets
<1>6. row[s] = "real" /\ job[w].conv \in {None, TrueConversation[s]}
  BY <1>2, <1>4 DEF Trusted, WorksOnReal, CarriesExact
<1>7. RowsReal'
  BY <1>4, <1>6 DEF Trustworthy, RowsReal, DeriveFromEvents
<1>8. ConversationExact'
  <2>. SUFFICES ASSUME NEW t \in Table, NEW x \in Span
                PROVE  conv'[t][x] \in {None, TrueConversation[x]}
    BY DEF ConversationExact
  <2>1. conv \in [Table -> [Span -> Conversation \cup {None}]]
    BY DEF Trustworthy, TypeOK, TablesOK
  <2>2. conv[t][x] \in {None, TrueConversation[x]}
    BY DEF Trustworthy, ConversationExact
  <2>3. \/ conv'[t][x] = conv[t][x]
        \/ x = s /\ conv'[t][x] = Coalesce(conv[t][x], job[w].conv)
    BY <1>2, <2>1 DEF DeriveFromEvents
  <2>. QED
    BY <1>6, <2>2, <2>3 DEF Coalesce
<1>. QED
  BY <1>1, <1>4, <1>5, <1>7, <1>8, TrustStep
     DEF Trustworthy, TypeOK, CallsOK, RowsKept

LEMMA TrustRefreshToolCount ==
  ASSUME Trustworthy, TypeOK', NEW w \in Worker, RefreshToolCount(w)
  PROVE  Trustworthy'
BY TrustMove DEF RefreshToolCount, Goto, spanTable

\* A call that is over relies on nothing.
LEMMA TrustEnds ==
  ASSUME Trustworthy, TypeOK', NEW w \in Worker,
         pc' = [pc EXCEPT ![w] = "idle"],
         job' = [job EXCEPT ![w] = NoJob],
         UNCHANGED <<row, projected, hooked, conv>>
  PROVE  Trustworthy'
<1>1. pc'[w] = "idle" /\ job'[w] = NoJob
  BY DEF Trustworthy, TypeOK, CallsOK
<1>2. Trusted(w)'
  BY <1>1 DEF NoJob, Nothing, Trusted, WorksOnReal, FoundReal, CarriesExact
<1>. QED
  BY <1>2, TrustLocals

LEMMA TrustNext ==
  ASSUME Trustworthy, [Next]_vars
  PROVE  Trustworthy'
<1>1. TypeOK'
  BY TypeNext DEF Trustworthy
<1>2. ASSUME NEW w \in Worker, Step(w)
      PROVE  Trustworthy'
  <2>1. CASE Announce(w)
    BY <1>1, <2>1, TrustEnds DEF Announce, Goto, projections
  <2>. QED
    BY <1>1, <1>2, <2>1, TrustLookup, TrustUpsertSpan, TrustEnsurePlaceholder,
       TrustUpsertAgentRunOrChatTurn, TrustUpsertToolCall, TrustPairExternalCalls,
       TrustLookupToolCall, TrustUpsertExternalToolCall, TrustSkipProjection,
       TrustWalkAncestors, TrustApplyToProjection, TrustApplyToHooks,
       TrustListDescendants, TrustReadConversation, TrustUpsertSession,
       TrustRecountSession, TrustDeriveFromEvents, TrustRefreshToolCount DEF Step
<1>3. ASSUME NEW w \in Worker, Fail(w)
      PROVE  Trustworthy'
  BY <1>1, <1>3, TrustEnds DEF Fail, Goto, tables, spanTable, projections
<1>4. CASE UNCHANGED vars
  BY <1>1, <1>4
     DEF Trustworthy, RowsReal, ConversationExact, Trusted, WorksOnReal, FoundReal,
         CarriesExact, vars, tables, spanTable, projections
<1>. QED
  BY <1>1, <1>2, <1>3, <1>4, TrustReceive DEF Next, SteadyNext

LEMMA TrustInit == Init => Trustworthy
BY TypeInit DEF Init, Trustworthy, RowsReal, ConversationExact, Trusted, WorksOnReal,
   FoundReal, CarriesExact, NoJob, Nothing

\* Whatever a call in progress has read, and whatever the tables have derived
\* from it, stays right while other calls run between its statements.
THEOREM AlwaysTrustworthy == Spec => []Trustworthy
<1>. QED
  BY TrustInit, TrustNext, PTL DEF Spec

\* No row is ever filed under a conversation other than its own: the walk of
\* walk_ancestors cannot pass over a carrier of gen_ai.conversation.id.
THEOREM NeverMisfiled == Spec => []ConversationExact
<1>1. Trustworthy => ConversationExact
  BY DEF Trustworthy
<1>. QED
  BY <1>1, AlwaysTrustworthy, PTL

-----------------------------------------------------------------------------
(* The step correspondence with SpanLedger.                                *)

LEMMA LedgerInit == Init => Ledger!Init
BY DEF Init, Ledger!Init

\* The two updates that follow a walk link one span.
LEMMA LedgerFillIn ==
  ASSUME Trustworthy, TypeOK', NEW w \in Worker, NEW t \in Table, NEW cols, NEW rows,
         pc[w] \in {"apply", "apply_hooks"},
         FillIn(w, t, cols, rows), row' = row
  PROVE  Ledger!Next
<1>. DEFINE s == job[w].target
<1>1. s \in Span /\ job[w] \in Job /\ Trusted(w)
  BY DEF Trustworthy, TypeOK, CallsOK, Resolving
<1>2. row[s] = "real"
  BY <1>1, NoneAssumption DEF Trusted, WorksOnReal
<1>3. ptr' \in [Column -> [Span -> Span \cup {None}]]
  BY DEF TypeOK, TablesOK
<1>4. ASSUME NEW c \in Column, NEW x \in Span, ptr'[c][x] # ptr[c][x]
      PROVE  /\ x = s
             /\ ptr[c][x] = None
             /\ ptr'[c][x] \in Candidates[c][x]
             /\ row[ptr'[c][x]] = "real"
  <2>1. x = s /\ ptr'[c][x] = Coalesce(ptr[c][x], job[w].found[c])
    BY <1>4 DEF FillIn
  <2>2. ptr[c][x] = None /\ ptr'[c][x] = job[w].found[c]
    BY <1>4, <2>1 DEF Coalesce
  <2>3. job[w].found[c] # None
    BY <1>4, <2>2
  <2>. QED
    BY <1>1, <2>1, <2>2, <2>3 DEF Trusted, FoundReal
<1>5. Ledger!Link(s)
  BY <1>2, <1>3, <1>4 DEF Ledger!Link
<1>. QED
  BY <1>1, <1>5 DEF Ledger!Next

\* Every statement changes the span table and the pointers as one step of
\* SpanLedger does, or not at all.
LEMMA LedgerNext ==
  ASSUME Trustworthy, [Next]_vars
  PROVE  [Ledger!Next]_(Ledger!ledger)
<1>1. TypeOK'
  BY TypeNext DEF Trustworthy
<1>2. ASSUME NEW w \in Worker, UpsertSpan(w)
      PROVE  Ledger!Next \/ UNCHANGED <<row, ptr>>
  <2>. DEFINE s == job[w].span
  <2>1. s \in Span /\ row \in [Span -> RowState]
    BY <1>2 DEF Trustworthy, TypeOK, TablesOK, CallsOK, UpsertSpan
  <2>2. row' = [row EXCEPT ![s] = "real"] /\ ptr' = ptr
    BY <1>2 DEF UpsertSpan, projections
  <2>3. CASE row[s] = "real"
    BY <2>1, <2>2, <2>3
  <2>4. CASE row[s] # "real"
    <3>1. Ledger!Land(s)
      BY <2>2, <2>4 DEF Ledger!Land
    <3>. QED
      BY <2>1, <3>1 DEF Ledger!Next
  <2>. QED
    BY <2>3, <2>4
<1>3. ASSUME NEW w \in Worker, EnsurePlaceholder(w)
      PROVE  Ledger!Next \/ UNCHANGED <<row, ptr>>
  <2>. DEFINE p == Parent(job[w].span)
  <2>1. ptr' = ptr
    BY <1>3 DEF EnsurePlaceholder, projections
  <2>2. CASE row[p] = "absent" /\ p \in Span
    <3>1. Ledger!Reserve(p)
      BY <1>3, <2>1, <2>2 DEF EnsurePlaceholder, Ledger!Reserve
    <3>. QED
      BY <2>2, <3>1 DEF Ledger!Next
  <2>3. CASE row[p] = "absent" /\ p \notin Span
    <3>1. row' = [row EXCEPT ![p] = "placeholder"]
      BY <1>3, <2>3 DEF EnsurePlaceholder
    <3>2. row' = row
      <4>. HIDE DEF p
      <4>. QED
        BY <2>3, <3>1 DEF Trustworthy, TypeOK, TablesOK
    <3>. QED
      BY <2>1, <3>2
  <2>4. CASE row[p] # "absent"
    BY <1>3, <2>1, <2>4 DEF EnsurePlaceholder, spanTable
  <2>. QED
    BY <2>2, <2>3, <2>4
<1>4. ASSUME NEW w \in Worker, ApplyToProjection(w)
      PROVE  Ledger!Next
  BY <1>1, <1>4, LedgerFillIn DEF ApplyToProjection, Table, spanTable
<1>5. ASSUME NEW w \in Worker, ApplyToHooks(w)
      PROVE  Ledger!Next
  BY <1>1, <1>5, LedgerFillIn, SMTT(30) DEF ApplyToHooks, Table, spanTable
<1>6. ASSUME NEW w \in Worker,
             \/ \E s \in Span : Receive(w, s)
             \/ Lookup(w)
             \/ UpsertAgentRunOrChatTurn(w)
             \/ UpsertToolCall(w)
             \/ PairExternalCalls(w)
             \/ LookupToolCall(w)
             \/ UpsertExternalToolCall(w)
             \/ SkipProjection(w)
             \/ \E t \in Span : WalkAncestors(w, t)
             \/ ListDescendants(w)
             \/ ReadConversation(w)
             \/ UpsertSession(w)
             \/ RecountSession(w)
             \/ DeriveFromEvents(w)
             \/ RefreshToolCount(w)
             \/ Announce(w)
             \/ Fail(w)
      PROVE  UNCHANGED <<row, ptr>>
  BY <1>6 DEF Receive, Lookup, UpsertAgentRunOrChatTurn, UpsertToolCall,
     PairExternalCalls, LookupToolCall, UpsertExternalToolCall, SkipProjection,
     WalkAncestors, ListDescendants, ReadConversation, UpsertSession, RecountSession,
     DeriveFromEvents, RefreshToolCount, Announce, Fail, tables, spanTable, projections
<1>7. CASE UNCHANGED vars
  BY <1>7 DEF vars, tables, spanTable, projections, Ledger!ledger
<1>. QED
  BY <1>2, <1>3, <1>4, <1>5, <1>6, <1>7 DEF Next, SteadyNext, Step, Ledger!ledger

\* Normalization implements SpanLedger, for every trace and any concurrency:
\* no row is downgraded, no pointer rewritten, and none is dangling.
THEOREM ImplementsLedger == Spec => KeepsLedger
<1>. QED
  BY LedgerInit, LedgerNext, AlwaysTrustworthy, PTL DEF Spec, KeepsLedger, Ledger!Spec

-----------------------------------------------------------------------------
(* What a walk finds.                                                      *)

LEMMA AccountableTypes ==
  ASSUME Accountable
  PROVE  /\ TypeOK
         /\ \A w \in Worker :
              /\ job[w] \in Job
              /\ pc[w] \in Statement
              /\ Active(w) => job[w].span \in Span
              /\ pc[w] \in Resolving => job[w].target \in Span
              /\ Trusted(w)
              /\ InStep(w)
BY DEF Accountable, Trustworthy, TypeOK, CallsOK, Active

\* A walk that reaches a depth passes every lesser one.
LEMMA DepthsBelow ==
  ASSUME NEW s \in Span, NEW i \in Depths(s), NEW j \in 0..i
  PROVE  i \in Nat /\ j \in Depths(s)
BY LineageAssumption, DepthAssumption DEF Depths

\* An unbroken chain of real rows is visible to a walk.
LEMMA RealIsVisible ==
  ASSUME NEW s \in Span, NEW i \in Depths(s), RealPath(s, i)
  PROVE  i \in Visible(s) /\ row[At(s, i)] = "real"
<1>1. i \in Nat
  BY DEF Depths
<1>. QED
  BY <1>1 DEF RealPath, Visible

\* A walk finds an ancestor for each pointer column that has one within an
\* unbroken chain of real rows.
LEMMA WalkFillsColumn ==
  ASSUME NEW s \in Span, NEW k \in Column, NEW i \in Depths(s), Linkable(s, k, i)
  PROVE  NearestAncestors(s)[k] # None
<1>. DEFINE seen == {d \in Visible(s) : /\ d > 0
                                        /\ At(s, d) \in projected
                                        /\ Kind[At(s, d)] \in Wanted[k]}
<1>1. k # "conv"
  BY DEF Column
<1>2. i \in seen
  BY <1>1, RealIsVisible DEF Linkable, Source
<1>3. seen \in SUBSET Depths(s)
  BY DEF Visible
<1>4. NearestAncestors(s)[k] = Closest(s, seen)
  BY DEF NearestAncestors
<1>. HIDE DEF seen
<1>. QED
  BY <1>2, <1>3, <1>4, SomeIsClosest

\* A walk that reaches a conversation id finds it.
LEMMA ReachesFinds ==
  ASSUME NEW s \in Span, NEW c \in Conversation, Reaches(s, c)
  PROVE  NearestConversation(s) = c
<1>. DEFINE D == {i \in Visible(s) : row[At(s, i)] = "real"}
            held == {i \in D : ConvAttr[At(s, i)] # None}
<1>1. PICK i \in Depths(s) :
        /\ RealPath(s, i)
        /\ ConvAttr[At(s, i)] = c
        /\ \A j \in 0..(i - 1) : ConvAttr[At(s, j)] = None
  BY DEF Reaches
<1>2. c # None
  BY NoneAssumption
<1>3. i \in held
  BY <1>1, <1>2, RealIsVisible
<1>4. held \in SUBSET Depths(s)
  BY DEF Visible
<1>5. ASSUME NEW j \in held
      PROVE  i <= j
  <2>1. i \in Nat /\ j \in Nat
    BY <1>4 DEF Depths
  <2>. QED
    BY <1>1, <2>1
<1>6. NearestConversation(s) = ConversationAt(s, D)
  BY DEF NearestConversation
<1>7. Closest(s, held) = At(s, i) /\ Closest(s, held) # None
  <2>. HIDE DEF held
  <2>. QED
    BY <1>3, <1>4, <1>5, LeastIsClosest
<1>. QED
  BY <1>1, <1>6, <1>7 DEF ConversationAt

\* Whatever id a walk finds, it reaches; and it finds one if there is a carrier
\* within an unbroken chain of real rows.
LEMMA WalkReaches ==
  ASSUME NEW s \in Span
  PROVE  /\ NearestConversation(s) # None => Reaches(s, NearestConversation(s))
         /\ \A i \in Depths(s) :
              RealPath(s, i) /\ ConvAttr[At(s, i)] # None => NearestConversation(s) # None
<1>. DEFINE D == {i \in Visible(s) : row[At(s, i)] = "real"}
            held == {i \in D : ConvAttr[At(s, i)] # None}
<1>1. NearestConversation(s) = ConversationAt(s, D)
  BY DEF NearestConversation
<1>2. held \in SUBSET Depths(s)
  BY DEF Visible
<1>3. CASE held = {}
  <2>1. Closest(s, held) = None
    BY <1>3 DEF Closest
  <2>2. NearestConversation(s) = None
    BY <1>1, <2>1 DEF ConversationAt
  <2>. QED
    BY <1>3, <2>2, RealIsVisible
<1>4. CASE held # {}
  <2>1. PICK i \in held : /\ Closest(s, held) = At(s, i)
                          /\ Closest(s, held) # None
                          /\ \A j \in held : i <= j
    <3>. HIDE DEF held
    <3>. QED
      BY <1>2, <1>4, SomeIsClosest
  <2>2. NearestConversation(s) = ConvAttr[At(s, i)] /\ ConvAttr[At(s, i)] # None
    BY <1>1, <2>1 DEF ConversationAt
  <2>3. i \in Nat /\ i \in Depths(s)
    BY <1>2 DEF Depths
  <2>4. RealPath(s, i)
    <3>1. row[At(s, i)] = "real" /\ \A j \in 0..(i - 1) : row[At(s, j)] = "real"
      BY DEF Visible
    <3>. QED
      BY <2>3, <3>1 DEF RealPath
  <2>5. ASSUME NEW j \in 0..(i - 1)
        PROVE  ConvAttr[At(s, j)] = None
    <3>1. j < i /\ j \in Nat /\ j \in 0..i /\ 0..j \subseteq 0..i
      BY <2>3
    <3>2. RealPath(s, j) /\ j \in Depths(s)
      BY <2>3, <2>4, <3>1, DepthsBelow DEF RealPath
    <3>3. j \in D
      BY <3>2, RealIsVisible
    <3>. QED
      BY <2>1, <2>3, <3>1, <3>3
  <2>. QED
    BY <2>2, <2>3, <2>4, <2>5 DEF Reaches
<1>. QED
  BY <1>3, <1>4

\* A walk from an ancestor on the way to the carrier reaches the same id.
LEMMA ReachesAbove ==
  ASSUME NEW s \in Span, NEW c, NEW i \in Depths(s), NEW j \in 0..i,
         RealPath(s, i), ConvAttr[At(s, i)] = c,
         \A d \in 0..(i - 1) : ConvAttr[At(s, d)] = None
  PROVE  At(s, j) \in Span /\ row[At(s, j)] = "real" /\ Reaches(At(s, j), c)
<1>. DEFINE u == At(s, j)
            m == i - j
<1>1. /\ i \in Nat /\ j \in Nat /\ j <= i /\ m \in 0..i
      /\ i <= Len(Lineage[s]) /\ Len(Lineage[s]) \in Nat
      /\ i <= WalkDepth /\ WalkDepth \in Nat
  BY LineageAssumption, DepthAssumption DEF Depths
<1>2. j \in Depths(s)
  BY DepthsBelow
<1>3. /\ u \in Span
      /\ Len(Lineage[u]) = Len(Lineage[s]) - j
      /\ \A d \in 0..(Len(Lineage[s]) - j) : At(u, d) = At(s, j + d)
  BY <1>2, LineageAbove
<1>. HIDE DEF u
<1>4. m \in Depths(u)
  BY <1>1, <1>3 DEF Depths
<1>5. \A d \in 0..m : At(u, d) = At(s, j + d) /\ j + d \in 0..i
  BY <1>1, <1>3
<1>6. RealPath(u, m) /\ ConvAttr[At(u, m)] = c
  BY <1>1, <1>5 DEF RealPath
<1>7. \A d \in 0..(m - 1) : ConvAttr[At(u, d)] = None
  <2>. SUFFICES ASSUME NEW d \in 0..(m - 1)
                PROVE  ConvAttr[At(u, d)] = None
    OBVIOUS
  <2>1. At(u, d) = At(s, j + d) /\ j + d \in 0..(i - 1)
    BY <1>1, <1>5
  <2>. QED
    BY <2>1
<1>. QED
  BY <1>3, <1>4, <1>6, <1>7 DEF Reaches, RealPath, u

-----------------------------------------------------------------------------
(* How a step preserves the invariant.                                     *)

OthersStay(w) == \A v \in Worker \ {w} : pc'[v] = pc[v] /\ job'[v] = job[v]

RowsGrow == RowsKept /\ projected \subseteq projected' /\ hooked \subseteq hooked'

SlotsKept == \A s \in Span, k \in Slot : Held(s, k) # None => Held(s, k)' # None

\* Whatever call w was still to fill on account of its span, it has filled or is
\* still to fill.
KeepsFilling(w) ==
  \A s \in Span : \A k \in Slot, i \in Depths(s) : \A j \in 0..i :
    Linkable(s, k, i) /\ job[w].span = At(s, j) /\ WillFill(w, s, k) =>
      WillFill(w, s, k)' \/ Held(s, k)' # None

\* Whatever call w was still to count, it has counted or is still to count.
KeepsCounting(w) ==
  \A c \in Conversation :
    Reaches(job[w].span, c) /\ WillCount(w, c) => WillCount(w, c)' \/ Fresh(c)'

\* A slot that has come in reach is filled or awaits a span.
LinksAnew ==
  \A s \in Span : \A k \in Slot, i \in Depths(s) :
    Linkable(s, k, i)' =>
      \/ Linkable(s, k, i)
      \/ Held(s, k)' # None
      \/ \E j \in 0..i : FillAwaits(At(s, j), s, k)'

\* A session that is no longer right awaits a span.
CountsAnew ==
  \A c \in Conversation :
    Fresh(c) => Fresh(c)' \/ \E u \in Span : CountAwaits(u, c)'

\* Rows that are real stay so, and with them what a walk reaches.
LEMMA RealPathKept ==
  ASSUME RowsKept, NEW s \in Span, NEW i \in Depths(s), RealPath(s, i)
  PROVE  RealPath(s, i)'
<1>1. \A j \in 0..i : At(s, j) \in Span
  BY DepthsBelow, AtType
<1>. QED
  BY <1>1 DEF RealPath, RowsKept

LEMMA ReachesKept ==
  ASSUME RowsKept, NEW s \in Span, NEW c, Reaches(s, c)
  PROVE  Reaches(s, c)'
<1>1. PICK i \in Depths(s) :
        /\ RealPath(s, i)
        /\ ConvAttr[At(s, i)] = c
        /\ \A j \in 0..(i - 1) : ConvAttr[At(s, j)] = None
  BY DEF Reaches
<1>2. RealPath(s, i)'
  BY <1>1, RealPathKept
<1>. QED
  BY <1>1, <1>2 DEF Reaches

\* What a call is still to do is written in its own locals.
LEMMA StaysAsItWas ==
  ASSUME NEW v, pc'[v] = pc[v], job'[v] = job[v], NEW s, NEW k, NEW c
  PROVE  /\ WillFill(v, s, k) => WillFill(v, s, k)'
         /\ WillCount(v, c) => WillCount(v, c)'
<1>1. Early(v)' = Early(v) /\ BeforeForward(v)' = BeforeForward(v)
  BY DEF Early, BeforeForward
<1>2. Filling(v, k)' = Filling(v, k) /\ BeforeHooks(v)' = BeforeHooks(v)
  BY DEF Filling, Result, BeforeHooks
<1>3. BeforeRead(v)' = BeforeRead(v)
  BY DEF BeforeRead
<1>. QED
  BY <1>1, <1>2, <1>3 DEF WillFill, WillCount

LEMMA LinksStep ==
  ASSUME LinksOwed, NEW w \in Worker, OthersStay(w), Active(w),
         job'[w].span = job[w].span, landed' = landed,
         SlotsKept, KeepsFilling(w), LinksAnew
  PROVE  LinksOwed'
<1>. SUFFICES ASSUME NEW s \in Span, NEW k \in Slot, NEW i \in Depths(s),
                     Linkable(s, k, i), Held(s, k)' = None
              PROVE  \E j \in 0..i : FillAwaits(At(s, j), s, k)'
  BY DEF LinksOwed, LinksAnew
<1>1. PICK j \in 0..i : FillAwaits(At(s, j), s, k)
  BY DEF LinksOwed, SlotsKept
<1>2. ASSUME NEW v \in Worker, Active(v)', job'[v].span = At(s, j)
      PROVE  WillFill(v, s, k)'
  <2>1. CASE v = w
    BY <1>1, <1>2, <2>1 DEF FillAwaits, KeepsFilling
  <2>2. CASE v # w
    <3>1. pc'[v] = pc[v] /\ job'[v] = job[v]
      BY <2>2 DEF OthersStay
    <3>2. WillFill(v, s, k)
      BY <1>1, <1>2, <3>1 DEF FillAwaits, Active
    <3>. QED
      BY <3>1, <3>2, StaysAsItWas
  <2>. QED
    BY <2>1, <2>2
<1>. QED
  BY <1>1, <1>2 DEF FillAwaits

LEMMA CountsStep ==
  ASSUME CountsOwed, NEW w \in Worker, OthersStay(w), Active(w),
         job'[w].span = job[w].span, landed' = landed,
         RowsKept, KeepsCounting(w), CountsAnew
  PROVE  CountsOwed'
<1>. SUFFICES ASSUME NEW c \in Conversation, ~ Fresh(c)', ~ Fresh(c)
              PROVE  \E u \in Span : CountAwaits(u, c)'
  BY DEF CountsOwed, CountsAnew
<1>1. PICK u \in Span : CountAwaits(u, c)
  BY DEF CountsOwed
<1>2. ASSUME NEW v \in Worker, Active(v)', job'[v].span = u
      PROVE  WillCount(v, c)'
  <2>1. CASE v = w
    BY <1>1, <1>2, <2>1 DEF CountAwaits, KeepsCounting
  <2>2. CASE v # w
    <3>1. pc'[v] = pc[v] /\ job'[v] = job[v]
      BY <2>2 DEF OthersStay
    <3>2. WillCount(v, c)
      BY <1>1, <1>2, <3>1 DEF CountAwaits, Active
    <3>. QED
      BY <3>1, <3>2, StaysAsItWas
  <2>. QED
    BY <2>1, <2>2
<1>3. Reaches(u, c)'
  BY <1>1, ReachesKept DEF CountAwaits
<1>. QED
  BY <1>1, <1>2, <1>3 DEF CountAwaits

\* Steps of one call leave the others in step.
LEMMA OthersInStep ==
  ASSUME TypeOK, RowsGrow, NEW v \in Worker, Trusted(v), InStep(v),
         pc'[v] = pc[v], job'[v] = job[v]
  PROVE  InStep(v)'
<1>1. job[v].foundConv # None => job[v].target \in Span
  BY DEF Trusted, CarriesExact, TypeOK, CallsOK, Resolving
<1>2. job[v].foundConv # None => Reaches(job[v].target, job[v].foundConv)'
  BY <1>1, ReachesKept DEF InStep, RowsGrow
<1>3. (job[v].foundConv # None => Reaches(job[v].target, job[v].foundConv))'
  BY <1>2 DEF Reaches, RealPath
<1>. QED
  BY <1>3 DEF InStep, RowsGrow, Active, Projected

\* It is enough to look at the call that takes the step and at the tables.
LEMMA AccountStep ==
  ASSUME Accountable, Trustworthy', NEW w \in Worker, OthersStay(w), Active(w),
         job'[w].span = job[w].span, landed' = landed, RowsGrow,
         LandedWhole', InStep(w)',
         SlotsKept, KeepsFilling(w), LinksAnew,
         KeepsCounting(w), CountsAnew
  PROVE  Accountable'
<1>1. ASSUME NEW v \in Worker, v # w
      PROVE  InStep(v)'
  BY <1>1, AccountableTypes, OthersInStep DEF OthersStay
<1>2. LinksOwed' /\ CountsOwed'
  BY LinksStep, CountsStep DEF Accountable, RowsGrow
<1>. QED
  BY <1>1, <1>2 DEF Accountable

RealsSame == \A x \in Span : row'[x] = "real" <=> row[x] = "real"

\* A walk would find no more than it would have.
LEMMA SameLinks ==
  ASSUME RealsSame, UNCHANGED <<projected, hooked>>,
         NEW s \in Span, NEW k \in Slot, NEW i \in Depths(s), Linkable(s, k, i)'
  PROVE  Linkable(s, k, i)
<1>1. \A j \in 0..i : At(s, j) \in Span
  BY DepthsBelow, AtType
<1>2. RealPath(s, i)
  BY <1>1 DEF Linkable, RealPath, RealsSame
<1>3. Slots(s)' = Slots(s)
  BY DEF Slots, ProjectionColumns, HookColumns
<1>. QED
  BY <1>2, <1>3 DEF Linkable, Source

\* The sessions stay as right as they were.
LEMMA SameCounts ==
  ASSUME UNCHANGED <<projected, session>>,
         conv'["projection"] = conv["projection"], NEW c
  PROVE  Fresh(c)' <=> Fresh(c)
<1>1. \A kind : Members(kind, c)' = Members(kind, c)
  BY DEF Members
<1>. QED
  BY <1>1 DEF Fresh, Counted

\* A statement that changes no row that a walk or a count reads.
LEMMA StaticStep ==
  ASSUME Accountable, Trustworthy', NEW w \in Worker, OthersStay(w), Active(w),
         job'[w].span = job[w].span, RealsSame,
         UNCHANGED <<projected, hooked, ptr, conv, session, landed>>,
         InStep(w)', KeepsFilling(w), KeepsCounting(w)
  PROVE  Accountable'
<1>1. RowsGrow
  BY DEF RowsGrow, RowsKept, RealsSame
<1>2. LandedWhole'
  BY DEF Accountable, LandedWhole, RealsSame, Trustworthy, TypeOK, TablesOK
<1>3. SlotsKept
  BY DEF SlotsKept, Held
<1>4. LinksAnew
  BY SameLinks DEF LinksAnew
<1>5. CountsAnew
  BY SameCounts DEF CountsAnew
<1>. QED
  BY <1>1, <1>2, <1>3, <1>4, <1>5, AccountStep

\* A statement before the first walk.
LEMMA EarlyStep ==
  ASSUME Accountable, Trustworthy', NEW w \in Worker, OthersStay(w), Active(w),
         job'[w].span = job[w].span, RealsSame,
         UNCHANGED <<projected, hooked, ptr, conv, session, landed>>,
         InStep(w)', Early(w)', job'[w].after = "forward"
  PROVE  Accountable'
<1>1. KeepsFilling(w)
  BY DEF KeepsFilling, WillFill
<1>2. BeforeRead(w)'
  BY DEF Early, BeforeRead
<1>3. KeepsCounting(w)
  BY <1>2 DEF KeepsCounting, WillCount
<1>. QED
  BY <1>1, <1>3, StaticStep

\* A call that has not walked yet is as Receive left it.
LEMMA EarlyLocals ==
  ASSUME Accountable, NEW w \in Worker, Active(w), Early(w)
  PROVE  /\ job[w].after = "forward"
         /\ job[w].todo = {}
         /\ job[w].foundConv = None
         /\ job[w].span \in Span
<1>1. InStep(w) /\ Trusted(w) /\ job[w] \in Job /\ job[w].span \in Span
  BY AccountableTypes
<1>. QED
  BY <1>1 DEF Early, InStep, Trusted, CarriesExact, Job

LEMMA AccountLookup ==
  ASSUME Accountable, Trustworthy', NEW w \in Worker, Lookup(w)
  PROVE  Accountable'
<1>. DEFINE j == [job[w] EXCEPT !.prev = row[job[w].span]]
<1>1. Active(w) /\ Early(w) /\ job[w] \in Job /\ pc[w] = "lookup"
  BY AccountableTypes DEF Lookup, Active, Early
<1>2. /\ job[w].after = "forward" /\ job[w].todo = {} /\ job[w].foundConv = None
      /\ job[w].span \in Span
  BY <1>1, EarlyLocals
<1>3. /\ pc' = [pc EXCEPT ![w] = "upsert"] /\ job' = [job EXCEPT ![w] = j]
      /\ pc \in [Worker -> Statement] /\ job \in [Worker -> Job]
  BY DEF Lookup, Goto, Accountable, Trustworthy, TypeOK, CallsOK
<1>4. /\ pc'[w] = "upsert" /\ OthersStay(w) /\ job'[w] = j
      /\ j.span = job[w].span /\ j.after = "forward" /\ j.todo = {}
      /\ j.foundConv = None
  BY <1>1, <1>2, <1>3 DEF Job, OthersStay
<1>5. InStep(w)'
  BY <1>4 DEF InStep, Projected, Active
<1>. QED
  BY <1>1, <1>4, <1>5, EarlyStep
     DEF Early, RealsSame, Lookup, tables, history, spanTable, projections

\* Before its first walk, a call only moves on, and notes its target.
LEMMA EarlyInStep ==
  ASSUME Accountable, NEW w \in Worker, Active(w), Early(w), Early(w)',
         job'[w].span = job[w].span, job'[w].after = job[w].after,
         job'[w].todo = job[w].todo, job'[w].foundConv = job[w].foundConv,
         pc'[w] \in Projected /\ Kind[job[w].span] # "other" => job[w].span \in projected',
         pc'[w] \in {"pair", "walk"} => job'[w].target = job[w].span,
         pc'[w] = "insert" => Kind[job[w].span] = "external_tool"
  PROVE  InStep(w)' /\ job'[w].after = "forward"
BY EarlyLocals DEF InStep, Early, Active

\* Before its first walk, a call is still to fill and to count everything.
LEMMA EarlyKeeps ==
  ASSUME NEW w, Early(w)', job'[w].after = "forward"
  PROVE  KeepsFilling(w) /\ KeepsCounting(w)
BY DEF Early, BeforeRead, KeepsFilling, WillFill, KeepsCounting, WillCount

\* A call moves on, with the locals it had or with others.
LEMMA MovesOn ==
  ASSUME Accountable, NEW w \in Worker, NEW l,
         pc' = [pc EXCEPT ![w] = l], job' = job
  PROVE  OthersStay(w) /\ pc'[w] = l /\ job'[w] = job[w]
BY DEF Accountable, Trustworthy, TypeOK, CallsOK, OthersStay

LEMMA MovesWith ==
  ASSUME Accountable, NEW w \in Worker, NEW l, NEW j,
         pc' = [pc EXCEPT ![w] = l], job' = [job EXCEPT ![w] = j]
  PROVE  OthersStay(w) /\ pc'[w] = l /\ job'[w] = j
BY DEF Accountable, Trustworthy, TypeOK, CallsOK, OthersStay

LEMMA AccountEnsurePlaceholder ==
  ASSUME Accountable, Trustworthy', NEW w \in Worker, EnsurePlaceholder(w)
  PROVE  Accountable'
<1>. DEFINE p == Parent(job[w].span)
<1>1. Active(w) /\ Early(w) /\ pc[w] = "parent"
  BY DEF EnsurePlaceholder, Active, Early
<1>2. OthersStay(w) /\ pc'[w] = "project" /\ job'[w] = job[w]
  BY MovesOn DEF EnsurePlaceholder, Goto
<1>3. Early(w)'
  BY <1>2 DEF Early
<1>4. InStep(w)' /\ job'[w].after = "forward"
  BY <1>1, <1>2, <1>3, EarlyInStep DEF Projected
<1>5. RealsSame
  <2>1. row \in [Span -> RowState]
    BY DEF Accountable, Trustworthy, TypeOK, TablesOK
  <2>2. CASE row[p] = "absent"
    <3>1. row' = [row EXCEPT ![p] = "placeholder"]
      BY <2>2 DEF EnsurePlaceholder
    <3>. HIDE DEF p
    <3>. QED
      BY <2>1, <2>2, <3>1 DEF RealsSame
  <2>3. CASE row[p] # "absent"
    BY <2>3 DEF EnsurePlaceholder, spanTable, RealsSame
  <2>. QED
    BY <2>2, <2>3
<1>. QED
  BY <1>1, <1>2, <1>3, <1>4, <1>5, EarlyStep
     DEF EnsurePlaceholder, history, projections

LEMMA AccountLookupToolCall ==
  ASSUME Accountable, Trustworthy', NEW w \in Worker, LookupToolCall(w)
  PROVE  Accountable'
<1>1. Active(w) /\ Early(w) /\ pc[w] = "project" /\ job[w] \in Job
  BY AccountableTypes DEF LookupToolCall, Active, Early
<1>2. /\ OthersStay(w) /\ pc'[w] = "insert"
      /\ \E t : job'[w] = [job[w] EXCEPT !.mate = t] \/ job'[w] = job[w]
  <2>1. CASE job' = job
    BY <2>1, MovesOn DEF LookupToolCall, Goto
  <2>2. CASE job' # job
    <3>1. PICK t : job' = [job EXCEPT ![w] = [job[w] EXCEPT !.mate = t]]
      BY <2>2 DEF LookupToolCall
    <3>2. pc' = [pc EXCEPT ![w] = "insert"]
      BY DEF LookupToolCall, Goto
    <3>3. /\ OthersStay(w) /\ pc'[w] = "insert"
          /\ job'[w] = [job[w] EXCEPT !.mate = t]
      BY <3>1, <3>2, MovesWith
    <3>. QED
      BY <3>3
  <2>. QED
    BY <2>1, <2>2
<1>3. Early(w)'
  BY <1>2 DEF Early
<1>4. /\ job'[w].span = job[w].span /\ job'[w].after = job[w].after
      /\ job'[w].todo = job[w].todo /\ job'[w].foundConv = job[w].foundConv
  BY <1>1, <1>2 DEF Job
<1>5. InStep(w)' /\ job'[w].after = "forward"
  BY <1>1, <1>2, <1>3, <1>4, EarlyInStep DEF LookupToolCall, Projected
<1>. QED
  BY <1>1, <1>2, <1>3, <1>4, <1>5, EarlyStep
     DEF LookupToolCall, RealsSame, tables, history, spanTable, projections

LEMMA AccountSkipProjection ==
  ASSUME Accountable, Trustworthy', NEW w \in Worker, SkipProjection(w)
  PROVE  Accountable'
<1>. DEFINE j == [job[w] EXCEPT !.target = job[w].span]
<1>1. Active(w) /\ Early(w) /\ pc[w] = "project" /\ job[w] \in Job
  BY AccountableTypes DEF SkipProjection, Active, Early
<1>2. OthersStay(w) /\ pc'[w] = "walk" /\ job'[w] = j
  <2>1. job' = [job EXCEPT ![w] = j]
    BY DEF SkipProjection
  <2>2. pc' = [pc EXCEPT ![w] = "walk"]
    BY DEF SkipProjection, Goto
  <2>. HIDE DEF j
  <2>. QED
    BY <2>1, <2>2, MovesWith
<1>3. /\ job'[w].span = job[w].span /\ job'[w].after = job[w].after
      /\ job'[w].todo = job[w].todo /\ job'[w].foundConv = job[w].foundConv
      /\ job'[w].target = job[w].span
  BY <1>1, <1>2 DEF Job
<1>4. Early(w)'
  BY <1>1, <1>2, <1>3, EarlyLocals DEF Early
<1>5. InStep(w)' /\ job'[w].after = "forward"
  BY <1>1, <1>2, <1>3, <1>4, EarlyInStep DEF SkipProjection
<1>. QED
  BY <1>1, <1>2, <1>3, <1>4, <1>5, EarlyStep
     DEF SkipProjection, RealsSame, tables, history, spanTable, projections

LEMMA AccountPairExternalCalls ==
  ASSUME Accountable, Trustworthy', NEW w \in Worker, PairExternalCalls(w)
  PROVE  Accountable'
<1>1. Active(w) /\ Early(w) /\ pc[w] = "pair" /\ InStep(w)
  BY AccountableTypes DEF PairExternalCalls, Active, Early
<1>2. OthersStay(w) /\ pc'[w] = "walk" /\ job'[w] = job[w]
  BY MovesOn DEF PairExternalCalls, Goto
<1>3. Early(w)'
  BY <1>1, <1>2, EarlyLocals DEF Early
<1>4. InStep(w)' /\ job'[w].after = "forward"
  BY <1>1, <1>2, <1>3, EarlyInStep DEF PairExternalCalls, InStep, Projected, Statement
<1>. QED
  BY <1>1, <1>2, <1>3, <1>4, EarlyStep
     DEF PairExternalCalls, RealsSame, history, spanTable

\* A span that no call has normalized, and that no call has walked from yet,
\* can be awaited for anything.
LEMMA AwaitsAll ==
  ASSUME NEW u \in Span, u \notin landed',
         \A v \in Worker : Active(v)' /\ job'[v].span = u =>
                             Early(v)' /\ job'[v].after = "forward"
  PROVE  /\ \A s, k : FillAwaits(u, s, k)'
         /\ \A c : Reaches(u, c)' => CountAwaits(u, c)'
BY DEF FillAwaits, WillFill, CountAwaits, WillCount, BeforeRead, Early

LEMMA AccountUpsertSpan ==
  ASSUME Accountable, Trustworthy', NEW w \in Worker, UpsertSpan(w)
  PROVE  Accountable'
<1>1. Active(w) /\ Early(w) /\ pc[w] = "upsert" /\ job[w].span \in Span
  BY AccountableTypes DEF UpsertSpan, Active, Early
<1>. PICK u \in Span : u = job[w].span
  BY <1>1
<1>2. OthersStay(w) /\ pc'[w] \in {"parent", "project"} /\ job' = job
  BY MovesOn DEF UpsertSpan, Goto
<1>3. Early(w)'
  BY <1>2 DEF Early
<1>4. InStep(w)' /\ job'[w].after = "forward"
  BY <1>1, <1>2, <1>3, EarlyInStep DEF Projected
<1>5. /\ UNCHANGED <<projected, hooked, ptr, conv, session, landed>>
      /\ row \in [Span -> RowState]
      /\ row' = [row EXCEPT ![u] = "real"]
  BY DEF UpsertSpan, projections, history, Accountable, Trustworthy, TypeOK, TablesOK
<1>6. RowsGrow /\ SlotsKept
  BY <1>5 DEF RowsGrow, RowsKept, SlotsKept, Held
<1>7. LandedWhole'
  BY <1>5 DEF Accountable, LandedWhole, Trustworthy, TypeOK, TablesOK
<1>8. CountsAnew
  BY <1>5, SameCounts DEF CountsAnew
<1>9. ASSUME row[u] # "real"
      PROVE  \A s, k : FillAwaits(u, s, k)'
  <2>1. u \notin landed'
    BY <1>5, <1>9 DEF Accountable, LandedWhole
  <2>2. ASSUME NEW v \in Worker, Active(v)', job'[v].span = u
        PROVE  Early(v)' /\ job'[v].after = "forward"
    <3>1. CASE v = w
      BY <1>3, <1>4, <3>1
    <3>2. CASE v # w
      <4>1. pc'[v] = pc[v] /\ Active(v)
        BY <1>2, <2>2, <3>2 DEF OthersStay, Active
      <4>2. pc[v] \in {"lookup", "upsert"}
        BY <1>2, <1>9, <2>2, <4>1, AccountableTypes DEF Trusted, WorksOnReal, Active
      <4>. QED
        BY <1>2, <4>1, <4>2, EarlyLocals DEF Early
    <3>. QED
      BY <3>1, <3>2
  <2>. QED
    BY <1>1, <2>1, <2>2, AwaitsAll
<1>10. ASSUME NEW s \in Span, NEW k \in Slot, NEW i \in Depths(s),
              Linkable(s, k, i)', ~ Linkable(s, k, i)
       PROVE  \E j \in 0..i : FillAwaits(At(s, j), s, k)'
  <2>1. Slots(s)' = Slots(s)
    BY <1>5 DEF Slots, ProjectionColumns, HookColumns
  <2>2. RealPath(s, i)' /\ ~ RealPath(s, i)
    BY <1>5, <1>10, <2>1 DEF Linkable, Source
  <2>3. PICK j \in 0..i : row[At(s, j)] # "real"
    BY <2>2 DEF RealPath
  <2>4. row'[At(s, j)] = "real" /\ At(s, j) \in Span
    BY <2>2, DepthsBelow, AtType DEF RealPath
  <2>5. At(s, j) = u
    BY <1>5, <2>3, <2>4
  <2>. QED
    BY <1>9, <2>3, <2>5
<1>11. LinksAnew
  BY <1>10 DEF LinksAnew
<1>12. KeepsFilling(w) /\ KeepsCounting(w)
  BY <1>3, <1>4, EarlyKeeps
<1>. QED
  BY <1>1, <1>2, <1>4, <1>5, <1>6, <1>7, <1>8, <1>11, <1>12, AccountStep

\* The projection upserts: a new row awaits its own span, and so does every row
\* that may now point at it.
LEMMA AccountInsertProjection ==
  ASSUME Accountable, Trustworthy', NEW w \in Worker, NEW u \in Span,
         job[w].span = u, job'[w].span = u, pc[w] \in {"project", "insert"},
         Kind[u] # "other", InsertProjection(u),
         OthersStay(w), Early(w)', job'[w].after = "forward", InStep(w)',
         UNCHANGED <<row, hooked, ptr, session, landed>>
  PROVE  Accountable'
<1>1. Active(w) /\ Early(w) /\ row[u] = "real"
  BY AccountableTypes DEF Active, Early, Trusted, WorksOnReal
<1>2. /\ projected' = projected \cup {u}
      /\ conv \in [Table -> [Span -> Conversation \cup {None}]]
      /\ conv' = [conv EXCEPT !["projection"][u] = Coalesce(ConvAttr[u], @)]
  BY DEF InsertProjection, Accountable, Trustworthy, TypeOK, TablesOK
<1>3. /\ conv'["projection"][u] = Coalesce(ConvAttr[u], conv["projection"][u])
      /\ \A s \in Span \ {u} : conv'["projection"][s] = conv["projection"][s]
  BY <1>2 DEF Table
<1>4. RowsGrow /\ SlotsKept
  BY <1>2, <1>3 DEF RowsGrow, RowsKept, SlotsKept, Held, Coalesce
<1>5. LandedWhole'
  BY <1>2, <1>3 DEF Accountable, LandedWhole, Coalesce
<1>6. ASSUME u \notin projected
      PROVE  /\ \A s, k : FillAwaits(u, s, k)'
             /\ \A c : Reaches(u, c)' => CountAwaits(u, c)'
  <2>1. u \notin landed'
    BY <1>6 DEF Accountable, LandedWhole
  <2>2. ASSUME NEW v \in Worker, Active(v)', job'[v].span = u
        PROVE  Early(v)' /\ job'[v].after = "forward"
    <3>1. CASE v = w
      BY <3>1
    <3>2. CASE v # w
      <4>1. pc'[v] = pc[v] /\ job'[v] = job[v] /\ Active(v)
        BY <2>2, <3>2 DEF OthersStay, Active
      <4>2. InStep(v) /\ pc[v] \in Statement /\ pc[v] \notin Projected
        BY <1>6, <2>2, <4>1, AccountableTypes DEF InStep
      <4>3. Early(v)
        BY <4>1, <4>2 DEF Early, Projected, Active
      <4>. QED
        BY <4>1, <4>3, EarlyLocals DEF Early
    <3>. QED
      BY <3>1, <3>2
  <2>. QED
    BY <2>1, <2>2, AwaitsAll
<1>7. LinksAnew
  <2>. SUFFICES ASSUME NEW s \in Span, NEW k \in Slot, NEW i \in Depths(s),
                       Linkable(s, k, i)', ~ Linkable(s, k, i)
                PROVE  \E j \in 0..i : FillAwaits(At(s, j), s, k)'
    BY DEF LinksAnew
  <2>1. i \in Nat /\ At(s, 0) = s
    BY DEF Depths, At
  <2>2. RealPath(s, i) /\ Source(s, k, i)
    BY DEF Linkable, RealPath, Source
  <2>3. CASE s = u \/ At(s, i) = u
    <3>1. u \notin projected
      BY <1>2, <2>2, <2>3 DEF Linkable, Slots, ProjectionColumns, HookColumns
    <3>. QED
      BY <1>6, <2>1, <2>3, <3>1
  <2>4. CASE s # u /\ At(s, i) # u
    BY <1>2, <2>2, <2>4 DEF Linkable, Slots, ProjectionColumns, HookColumns
  <2>. QED
    BY <2>3, <2>4
<1>8. CountsAnew
  <2>1. CASE u \in projected
    <3>1. conv["projection"][u] \in {None, TrueConversation[u]}
      BY DEF Accountable, Trustworthy, ConversationExact, Table
    <3>2. conv'["projection"][u] = conv["projection"][u]
      BY <1>3, <2>1, <3>1, OwnConversation DEF Accountable, LandedWhole, Coalesce
    <3>3. conv'["projection"] = conv["projection"] /\ projected' = projected
      BY <1>2, <2>1, <3>2 DEF Table
    <3>. QED
      BY <3>3, SameCounts DEF CountsAnew
  <2>2. CASE u \notin projected
    <3>. SUFFICES ASSUME NEW c \in Conversation, Fresh(c)
                  PROVE  Fresh(c)' \/ CountAwaits(u, c)'
      BY DEF CountsAnew
    <3>1. conv'["projection"][u] = ConvAttr[u]
      BY <1>3, <2>2, AttributeAssumption DEF Accountable, LandedWhole, Coalesce
    <3>2. CASE ConvAttr[u] = c
      <4>1. 0 \in Depths(u) /\ At(u, 0) = u
        BY LineageAssumption, DepthAssumption DEF Depths, At
      <4>2. RealPath(u, 0)'
        BY <1>1, <4>1 DEF RealPath
      <4>3. Reaches(u, c)'
        BY <3>2, <4>1, <4>2 DEF Reaches
      <4>. QED
        BY <1>6, <2>2, <4>3
    <3>3. CASE ConvAttr[u] # c
      <4>1. projected \subseteq Span
        BY DEF Accountable, Trustworthy, TypeOK, TablesOK
      <4>2. \A kind : Members(kind, c)' = Members(kind, c)
        BY <1>2, <1>3, <2>2, <3>1, <3>3, <4>1 DEF Members
      <4>. QED
        BY <1>2, <1>3, <3>1, <3>3, <4>1, <4>2 DEF Fresh, Counted
    <3>. QED
      BY <3>2, <3>3
  <2>. QED
    BY <2>1, <2>2
<1>9. KeepsFilling(w) /\ KeepsCounting(w)
  BY EarlyKeeps
<1>. QED
  BY <1>1, <1>4, <1>5, <1>7, <1>8, <1>9, AccountStep

LEMMA AccountUpsertAgentRunOrChatTurn ==
  ASSUME Accountable, Trustworthy', NEW w \in Worker, UpsertAgentRunOrChatTurn(w)
  PROVE  Accountable'
<1>. DEFINE j == [job[w] EXCEPT !.target = job[w].span]
<1>1. /\ Active(w) /\ Early(w) /\ pc[w] = "project" /\ job[w] \in Job
      /\ job[w].span \in Span
  BY AccountableTypes DEF UpsertAgentRunOrChatTurn, Active, Early
<1>2. OthersStay(w) /\ pc'[w] = "walk" /\ job'[w] = j
  <2>1. job' = [job EXCEPT ![w] = j]
    BY DEF UpsertAgentRunOrChatTurn
  <2>2. pc' = [pc EXCEPT ![w] = "walk"]
    BY DEF UpsertAgentRunOrChatTurn, Goto
  <2>. HIDE DEF j
  <2>. QED
    BY <2>1, <2>2, MovesWith
<1>3. /\ job'[w].span = job[w].span /\ job'[w].after = job[w].after
      /\ job'[w].todo = job[w].todo /\ job'[w].foundConv = job[w].foundConv
      /\ job'[w].target = job[w].span
  BY <1>1, <1>2 DEF Job
<1>4. Early(w)'
  BY <1>1, <1>2, <1>3, EarlyLocals DEF Early
<1>5. InStep(w)' /\ job'[w].after = "forward"
  BY <1>1, <1>2, <1>3, <1>4, EarlyInStep DEF UpsertAgentRunOrChatTurn, InsertProjection
<1>. QED
  BY <1>1, <1>2, <1>3, <1>4, <1>5, AccountInsertProjection
     DEF UpsertAgentRunOrChatTurn, history, spanTable

LEMMA AccountUpsertToolCall ==
  ASSUME Accountable, Trustworthy', NEW w \in Worker, UpsertToolCall(w)
  PROVE  Accountable'
<1>. DEFINE j == [job[w] EXCEPT !.target = job[w].span]
<1>1. /\ Active(w) /\ Early(w) /\ pc[w] = "project" /\ job[w] \in Job
      /\ job[w].span \in Span
  BY AccountableTypes DEF UpsertToolCall, Active, Early
<1>2. OthersStay(w) /\ pc'[w] \in {"pair", "walk"} /\ job'[w] = j
  <2>1. job' = [job EXCEPT ![w] = j]
    BY DEF UpsertToolCall
  <2>2. pc' = [pc EXCEPT ![w] = (IF CallAttr[job[w].span] # None THEN "pair" ELSE "walk")]
    BY DEF UpsertToolCall, Goto
  <2>. HIDE DEF j
  <2>. QED
    BY <2>1, <2>2, MovesWith
<1>3. /\ job'[w].span = job[w].span /\ job'[w].after = job[w].after
      /\ job'[w].todo = job[w].todo /\ job'[w].foundConv = job[w].foundConv
      /\ job'[w].target = job[w].span
  BY <1>1, <1>2 DEF Job
<1>4. Early(w)'
  BY <1>1, <1>2, <1>3, EarlyLocals DEF Early
<1>5. InStep(w)' /\ job'[w].after = "forward"
  BY <1>1, <1>2, <1>3, <1>4, EarlyInStep DEF UpsertToolCall, InsertProjection
<1>. QED
  BY <1>1, <1>2, <1>3, <1>4, <1>5, AccountInsertProjection
     DEF UpsertToolCall, history, spanTable

LEMMA AccountUpsertExternalToolCall ==
  ASSUME Accountable, Trustworthy', NEW w \in Worker, UpsertExternalToolCall(w)
  PROVE  Accountable'
<1>. DEFINE j == [job[w] EXCEPT !.mate = None, !.target = job[w].span]
<1>1. /\ Active(w) /\ Early(w) /\ pc[w] = "insert" /\ job[w] \in Job
      /\ job[w].span \in Span /\ Kind[job[w].span] = "external_tool"
  BY AccountableTypes DEF UpsertExternalToolCall, Active, Early, InStep
<1>2. OthersStay(w) /\ pc'[w] = "walk" /\ job'[w] = j
  <2>1. job' = [job EXCEPT ![w] = j]
    BY DEF UpsertExternalToolCall
  <2>2. pc' = [pc EXCEPT ![w] = "walk"]
    BY DEF UpsertExternalToolCall, Goto
  <2>. HIDE DEF j
  <2>. QED
    BY <2>1, <2>2, MovesWith
<1>3. /\ job'[w].span = job[w].span /\ job'[w].after = job[w].after
      /\ job'[w].todo = job[w].todo /\ job'[w].foundConv = job[w].foundConv
      /\ job'[w].target = job[w].span
  BY <1>1, <1>2 DEF Job
<1>4. Early(w)'
  BY <1>1, <1>2, <1>3, EarlyLocals DEF Early
<1>5. InStep(w)' /\ job'[w].after = "forward"
  BY <1>1, <1>2, <1>3, <1>4, EarlyInStep DEF UpsertExternalToolCall, InsertProjection
<1>. QED
  BY <1>1, <1>2, <1>3, <1>4, <1>5, AccountInsertProjection
     DEF UpsertExternalToolCall, history, spanTable

-----------------------------------------------------------------------------
(* Resolving pointers.                                                     *)

\* What a walk from its target returns can fill every slot that is in reach.
LEMMA WalkFills ==
  ASSUME NEW s \in Span, NEW k \in Slot, NEW i \in Depths(s), Linkable(s, k, i)
  PROVE  IF k = "conv" THEN NearestConversation(s) # None
         ELSE NearestAncestors(s)[k] # None
BY WalkFillsColumn, WalkReaches DEF Linkable, Source, Slot

\* A call past its first walk goes through its descendants before its events.
LEMMA AfterType ==
  ASSUME Accountable, NEW w \in Worker
  PROVE  job[w].after \in {"forward", "refresh"}
BY AccountableTypes DEF Job

LEMMA AccountWalkAncestors ==
  ASSUME Accountable, Trustworthy', NEW w \in Worker, NEW t \in Span,
         WalkAncestors(w, t)
  PROVE  Accountable'
<1>. DEFINE f == NearestAncestors(t)
            c == NearestConversation(t)
            j == [job[w] EXCEPT !.target = t, !.todo = @ \ {t}, !.found = f,
                                !.foundConv = c]
<1>1. /\ Active(w) /\ job[w] \in Job /\ job[w].span \in Span /\ InStep(w)
      /\ pc[w] \in {"walk", "next"} /\ job[w].after \in {"forward", "refresh"}
      /\ pc[w] = "walk" => t = job[w].target
      /\ pc[w] = "next" => t \in job[w].todo
  BY AccountableTypes, AfterType DEF WalkAncestors, Active
<1>2. OthersStay(w) /\ pc'[w] = "apply" /\ job'[w] = j
  <2>1. job' = [job EXCEPT ![w] = j] /\ pc' = [pc EXCEPT ![w] = "apply"]
    BY DEF WalkAncestors, Goto
  <2>. HIDE DEF j
  <2>. QED
    BY <2>1, MovesWith
<1>3. /\ job'[w].span = job[w].span /\ job'[w].after = job[w].after
      /\ job'[w].target = t /\ job'[w].todo = job[w].todo \ {t}
      /\ job'[w].found = f /\ job'[w].foundConv = c
  <2>. HIDE DEF f, c
  <2>. QED
    BY <1>1, <1>2 DEF Job
<1>4. UNCHANGED <<row, projected, hooked, ptr, conv, session, landed>>
  BY DEF WalkAncestors, tables, history, spanTable, projections
<1>5. InStep(w)'
  <2>1. c # None => Reaches(t, c)
    BY WalkReaches
  <2>2. (job[w].foundConv # None => Reaches(job[w].target, job[w].foundConv))'
    <3>. HIDE DEF c
    <3>. QED
      BY <1>3, <1>4, <2>1 DEF Reaches, RealPath
  <2>3. CASE pc[w] = "walk"
    BY <1>1, <1>2, <1>3, <1>4, <2>2, <2>3 DEF InStep, Active, Projected, Statement
  <2>4. CASE pc[w] = "next"
    BY <1>1, <1>2, <1>3, <1>4, <2>2, <2>4 DEF InStep, Active, Projected, Statement
  <2>. QED
    BY <1>1, <2>3, <2>4
<1>6. KeepsFilling(w)
  <2>. SUFFICES ASSUME NEW s \in Span, NEW k \in Slot, NEW i \in Depths(s),
                       Linkable(s, k, i), WillFill(w, s, k)
                PROVE  WillFill(w, s, k)'
    BY DEF KeepsFilling
  <2>1. ~ Filling(w, k) /\ ~ BeforeForward(w)
    BY <1>1 DEF Filling, BeforeForward, HookColumn
  <2>2. CASE s = t
    <3>1. Result(w, k)' # None
      BY <1>3, <2>2, WalkFills DEF Result
    <3>2. k \notin HookColumn => job[w].after = "forward"
      BY <1>1, <2>1, <2>2 DEF WillFill, Early, InStep, Active
    <3>3. Filling(w, k)'
      BY <1>2, <1>3, <3>1, <3>2 DEF Filling
    <3>. QED
      BY <1>3, <2>2, <3>3 DEF WillFill
  <2>3. CASE s # t
    BY <1>1, <1>2, <1>3, <2>1, <2>3
       DEF WillFill, Early, BeforeForward, BeforeHooks, InStep, Active
  <2>. QED
    BY <2>2, <2>3
<1>7. KeepsCounting(w)
  BY <1>1, <1>2, <1>3 DEF KeepsCounting, WillCount, BeforeRead
<1>. QED
  BY <1>1, <1>2, <1>3, <1>4, <1>5, <1>6, <1>7, StaticStep DEF RealsSame

LEMMA AccountListDescendants ==
  ASSUME Accountable, Trustworthy', NEW w \in Worker, ListDescendants(w)
  PROVE  Accountable'
<1>. DEFINE D == Descendants(job[w].span)
            j == [job[w] EXCEPT !.todo = D]
<1>1. /\ Active(w) /\ job[w] \in Job /\ job[w].span \in Span /\ InStep(w)
      /\ pc[w] = "forward" /\ job[w].after = "forward"
  BY AccountableTypes, AfterType DEF ListDescendants, Active, InStep
<1>2. OthersStay(w) /\ pc'[w] = "next" /\ job'[w] = j
  <2>1. job' = [job EXCEPT ![w] = j] /\ pc' = [pc EXCEPT ![w] = "next"]
    BY DEF ListDescendants, Goto
  <2>. HIDE DEF j
  <2>. QED
    BY <2>1, MovesWith
<1>3. /\ job'[w].span = job[w].span /\ job'[w].after = "forward"
      /\ job'[w].todo = D /\ job'[w].target = job[w].target
      /\ job'[w].foundConv = job[w].foundConv
  <2>. HIDE DEF D
  <2>. QED
    BY <1>1, <1>2 DEF Job
<1>4. UNCHANGED <<row, projected, hooked, ptr, conv, session, landed>>
  BY DEF ListDescendants, tables, history, spanTable, projections
<1>5. InStep(w)'
  <2>1. job[w].span \notin D
    BY <1>1, NoCycle DEF Descendants
  <2>2. job[w].foundConv = None
    BY <1>1, AccountableTypes DEF Trusted, CarriesExact
  <2>. HIDE DEF D
  <2>. QED
    BY <1>1, <1>2, <1>3, <1>4, <2>1, <2>2 DEF InStep, Active, Projected, Statement
<1>6. KeepsFilling(w)
  <2>. SUFFICES ASSUME NEW s \in Span, NEW k \in Slot, NEW i \in Depths(s),
                       NEW d \in 0..i, job[w].span = At(s, d),
                       Linkable(s, k, i), WillFill(w, s, k)
                PROVE  WillFill(w, s, k)'
    BY DEF KeepsFilling
  <2>1. CASE s = job[w].span
    BY <1>1, <1>2, <1>3, <2>1
       DEF WillFill, BeforeHooks, BeforeForward, Early, Filling, InStep
  <2>2. CASE s # job[w].span
    <3>1. d \in Depths(s) /\ d # 0 /\ i \in Nat
      BY <2>2, DepthsBelow DEF At
    <3>2. /\ d \in 1..Len(Lineage[s]) /\ d <= ForwardDepth
      BY <3>1, LineageAssumption, DepthAssumption DEF Depths
    <3>3. \A m \in 0..(d - 1) : row[At(s, m)] = "real"
      BY <3>1 DEF Linkable, RealPath
    <3>4. s \in D
      BY <3>2, <3>3 DEF Descendants
    <3>. QED
      BY <1>3, <3>4 DEF WillFill
  <2>. QED
    BY <2>1, <2>2
<1>7. KeepsCounting(w)
  BY <1>1, <1>2, <1>3 DEF KeepsCounting, WillCount, BeforeRead
<1>. QED
  BY <1>1, <1>2, <1>3, <1>4, <1>5, <1>6, <1>7, StaticStep DEF RealsSame

\* What FillIn leaves in a column, and in a conversation_id.
LEMMA FillInWrites ==
  ASSUME TypeOK, NEW w \in Worker, NEW t \in Table, NEW cols, NEW rows,
         job[w].target \in Span, FillIn(w, t, cols, rows)
  PROVE  /\ \A c \in Column, s \in Span :
              ptr'[c][s] = IF s = job[w].target /\ c \in cols
                           THEN Coalesce(ptr[c][s], job[w].found[c]) ELSE ptr[c][s]
         /\ \A s \in Span :
              conv'[t][s] = IF s = job[w].target /\ s \in rows
                            THEN Coalesce(conv[t][s], job[w].foundConv) ELSE conv[t][s]
         /\ \A u \in Table \ {t} : conv'[u] = conv[u]
         /\ conv' \in [Table -> [Span -> Conversation \cup {None}]]
<1>1. conv \in [Table -> [Span -> Conversation \cup {None}]]
  BY DEF TypeOK, TablesOK
<1>2. \A c \in Column, s \in Span :
        ptr'[c][s] = IF s = job[w].target /\ c \in cols
                     THEN Coalesce(ptr[c][s], job[w].found[c]) ELSE ptr[c][s]
  BY DEF FillIn
<1>3. conv' = [conv EXCEPT ![t][job[w].target] =
                 IF job[w].target \in rows THEN Coalesce(@, job[w].foundConv) ELSE @]
  BY DEF FillIn
<1>4. job[w].foundConv \in Conversation \cup {None}
  BY DEF TypeOK, CallsOK, Job
<1>5. conv' \in [Table -> [Span -> Conversation \cup {None}]]
  BY <1>1, <1>3, <1>4 DEF Coalesce
<1>. QED
  BY <1>1, <1>2, <1>3, <1>5

\* A call that is still to fill in a conversation id has not read its own yet.
LEMMA FillsBeforeItReads ==
  ASSUME Accountable, NEW v \in Worker, Active(v), NEW s, WillFill(v, s, "conv")
  PROVE  BeforeRead(v)
<1>1. InStep(v) /\ job[v].after \in {"forward", "refresh"}
  BY AccountableTypes, AfterType
<1>2. "conv" \notin HookColumn
  BY DEF HookColumn
<1>3. CASE Early(v)
  BY <1>3, EarlyLocals DEF Early, BeforeRead
<1>4. CASE Filling(v, "conv") \/ BeforeForward(v)
  BY <1>1, <1>2, <1>4 DEF Filling, BeforeForward, BeforeRead, InStep, Active
<1>5. CASE s \in job[v].todo
  BY <1>1, <1>5 DEF BeforeRead, InStep, Active
<1>. QED
  BY <1>2, <1>3, <1>4, <1>5 DEF WillFill

LEMMA AccountApplyToProjection ==
  ASSUME Accountable, Trustworthy', NEW w \in Worker, ApplyToProjection(w)
  PROVE  Accountable'
<1>1. /\ Active(w) /\ job[w] \in Job /\ job[w].span \in Span /\ InStep(w)
      /\ pc[w] = "apply" /\ job[w].after \in {"forward", "refresh"}
      /\ job[w].target \in Span /\ TypeOK
  BY AccountableTypes, AfterType DEF ApplyToProjection, Active, Resolving
<1>. PICK x \in Span : x = job[w].target
  BY <1>1
<1>2. OthersStay(w) /\ pc'[w] = "apply_hooks" /\ job' = job
  BY MovesOn DEF ApplyToProjection, Goto
<1>3. UNCHANGED <<row, projected, hooked, session, landed>>
  BY DEF ApplyToProjection, history, spanTable
<1>4. /\ \A c \in Column, s \in Span :
           ptr'[c][s] = IF s = x /\ c \in ProjectionColumns(x)
                        THEN Coalesce(ptr[c][s], job[w].found[c]) ELSE ptr[c][s]
      /\ \A s \in Span :
           conv'["projection"][s] =
             IF s = x /\ s \in projected
             THEN Coalesce(conv["projection"][s], job[w].foundConv)
             ELSE conv["projection"][s]
      /\ conv' \in [Table -> [Span -> Conversation \cup {None}]]
  BY <1>1, FillInWrites DEF ApplyToProjection, Table
<1>5. InStep(w)'
  BY <1>1, <1>2, <1>3 DEF InStep, Active, Projected, Statement, Reaches, RealPath
<1>6. RowsGrow /\ SlotsKept
  BY <1>3, <1>4 DEF RowsGrow, RowsKept, SlotsKept, Held, Slot, Coalesce
<1>7. LandedWhole'
  BY <1>3, <1>4 DEF Accountable, LandedWhole, Coalesce
<1>8. LinksAnew
  BY <1>3, SameLinks DEF LinksAnew, RealsSame
<1>9. KeepsFilling(w)
  <2>. SUFFICES ASSUME NEW s \in Span, NEW k \in Slot, NEW i \in Depths(s),
                       Linkable(s, k, i), WillFill(w, s, k), ~ WillFill(w, s, k)'
                PROVE  Held(s, k)' # None
    BY DEF KeepsFilling
  <2>1. s = x /\ Filling(w, k)
    BY <1>1, <1>2 DEF WillFill, Early, BeforeForward, BeforeHooks
  <2>2. k \notin HookColumn
    BY <1>2, <2>1 DEF WillFill, Filling, Result
  <2>3. k \in Slots(s) /\ k \notin HookColumns(s)
    BY <2>2 DEF Linkable, HookColumns
  <2>4. CASE k = "conv"
    <3>1. s \in projected
      BY <2>3, <2>4 DEF Slots, ProjectionColumns
    <3>. QED
      BY <1>4, <2>1, <2>4, <3>1 DEF Held, Filling, Result, Coalesce
  <2>5. CASE k # "conv"
    <3>1. k \in Column /\ k \in ProjectionColumns(s)
      BY <2>3, <2>5 DEF Slots, Slot
    <3>. QED
      BY <1>4, <2>1, <2>5, <3>1 DEF Held, Filling, Result, Coalesce
  <2>. QED
    BY <2>4, <2>5
<1>10. KeepsCounting(w)
  BY <1>1, <1>2 DEF KeepsCounting, WillCount, BeforeRead
<1>11. CountsAnew
  <2>. SUFFICES ASSUME NEW c \in Conversation, Fresh(c), ~ Fresh(c)'
                PROVE  \E u \in Span : CountAwaits(u, c)'
    BY DEF CountsAnew
  <2>1. c # None /\ "conv" \in Slot
    BY NoneAssumption DEF Slot
  <2>2. /\ x \in projected
        /\ conv["projection"][x] = None
        /\ job[w].foundConv = c
    <3>1. PICK s \in projected :
            ~ (conv'["projection"][s] = c <=> conv["projection"][s] = c)
      <4>. SUFFICES ASSUME \A s \in projected :
                             conv'["projection"][s] = c <=> conv["projection"][s] = c
                    PROVE  FALSE
        OBVIOUS
      <4>1. \A kind : Members(kind, c)' = Members(kind, c)
        BY <1>3 DEF Members
      <4>. QED
        BY <1>3, <4>1 DEF Fresh, Counted
    <3>2. s \in Span
      BY <1>1 DEF TypeOK, TablesOK
    <3>. QED
      BY <1>4, <2>1, <3>1, <3>2 DEF Coalesce
  <2>3. PICK i \in Depths(x) :
          /\ RealPath(x, i)
          /\ ConvAttr[At(x, i)] = c
          /\ \A d \in 0..(i - 1) : ConvAttr[At(x, d)] = None
    BY <1>1, <2>1, <2>2 DEF InStep, Reaches
  <2>4. Linkable(x, "conv", i) /\ Held(x, "conv") = None
    BY <2>2, <2>1, <2>3 DEF Linkable, Slots, Source, Held
  <2>5. PICK d \in 0..i : FillAwaits(At(x, d), x, "conv")
    BY <2>1, <2>4 DEF Accountable, LinksOwed
  <2>6. At(x, d) \in Span /\ Reaches(At(x, d), c)'
    BY <1>6, <2>3, ReachesAbove, ReachesKept DEF RowsGrow
  <2>7. ASSUME NEW v \in Worker, Active(v)', job'[v].span = At(x, d)
        PROVE  BeforeRead(v)'
    <3>1. Active(v) /\ job'[v] = job[v]
      BY <1>1, <1>2, <2>7 DEF OthersStay, Active
    <3>2. BeforeRead(v)
      BY <2>5, <2>7, <3>1, FillsBeforeItReads DEF FillAwaits
    <3>. QED
      BY <1>2, <3>1, <3>2 DEF BeforeRead, OthersStay
  <2>. QED
    BY <1>3, <2>5, <2>6, <2>7 DEF CountAwaits, FillAwaits, WillCount
<1>. QED
  BY <1>1, <1>2, <1>3, <1>5, <1>6, <1>7, <1>8, <1>9, <1>10, <1>11, AccountStep

LEMMA AccountApplyToHooks ==
  ASSUME Accountable, Trustworthy', NEW w \in Worker, ApplyToHooks(w)
  PROVE  Accountable'
<1>. DEFINE j == [job[w] EXCEPT !.found = Nothing, !.foundConv = None, !.target = None]
<1>1. /\ Active(w) /\ job[w] \in Job /\ job[w].span \in Span /\ InStep(w)
      /\ pc[w] = "apply_hooks" /\ job[w].after \in {"forward", "refresh"}
      /\ job[w].target \in Span /\ TypeOK
  BY AccountableTypes, AfterType DEF ApplyToHooks, Active, Resolving
<1>. PICK x \in Span : x = job[w].target
  BY <1>1
<1>2. OthersStay(w) /\ pc'[w] = AfterResolve(w) /\ job'[w] = j
  <2>1. job' = [job EXCEPT ![w] = j] /\ pc' = [pc EXCEPT ![w] = AfterResolve(w)]
    BY DEF ApplyToHooks, Goto
  <2>. HIDE DEF j
  <2>. QED
    BY <2>1, MovesWith
<1>3. /\ job'[w].span = job[w].span /\ job'[w].after = job[w].after
      /\ job'[w].todo = job[w].todo /\ job'[w].foundConv = None
  BY <1>1, <1>2 DEF Job
<1>4. pc'[w] = IF x # job[w].span THEN "next" ELSE job[w].after
  BY <1>2 DEF AfterResolve
<1>5. UNCHANGED <<row, projected, hooked, session, landed>>
  BY DEF ApplyToHooks, history, spanTable
<1>6. /\ \A c \in Column, s \in Span :
           ptr'[c][s] = IF s = x /\ c \in HookColumns(x)
                        THEN Coalesce(ptr[c][s], job[w].found[c]) ELSE ptr[c][s]
      /\ conv'["projection"] = conv["projection"]
  BY <1>1, FillInWrites DEF ApplyToHooks, Table
<1>7. InStep(w)'
  BY <1>1, <1>3, <1>4, <1>5 DEF InStep, Active, Projected, Statement
<1>8. RowsGrow /\ SlotsKept
  BY <1>5, <1>6 DEF RowsGrow, RowsKept, SlotsKept, Held, Slot, Coalesce
<1>9. LandedWhole'
  BY <1>5, <1>6 DEF Accountable, LandedWhole
<1>10. LinksAnew
  BY <1>5, SameLinks DEF LinksAnew, RealsSame
<1>11. KeepsFilling(w)
  <2>. SUFFICES ASSUME NEW s \in Span, NEW k \in Slot, NEW i \in Depths(s),
                       Linkable(s, k, i), WillFill(w, s, k), ~ WillFill(w, s, k)'
                PROVE  Held(s, k)' # None
    BY DEF KeepsFilling
  <2>1. s = x /\ Filling(w, k)
    BY <1>1, <1>3, <1>4 DEF WillFill, Early, BeforeForward, BeforeHooks, InStep
  <2>2. k \in HookColumn
    BY <1>1, <2>1 DEF Filling
  <2>3. k \in Column /\ k # "conv" /\ k \in HookColumns(s)
    BY <2>2 DEF HookColumn, Column, Linkable, Slots, ProjectionColumns
  <2>. QED
    BY <1>6, <2>1, <2>3 DEF Held, Filling, Result, Coalesce
<1>12. KeepsCounting(w)
  BY <1>1, <1>3, <1>4 DEF KeepsCounting, WillCount, BeforeRead
<1>13. CountsAnew
  BY <1>5, <1>6, SameCounts DEF CountsAnew
<1>. QED
  BY <1>1, <1>2, <1>3, <1>5, <1>7, <1>8, <1>9, <1>10, <1>11, <1>12, <1>13, AccountStep

-----------------------------------------------------------------------------
(* Counting the session, deriving from events.                             *)

LEMMA AccountReadConversation ==
  ASSUME Accountable, Trustworthy', NEW w \in Worker, ReadConversation(w)
  PROVE  Accountable'
<1>. DEFINE c == NearestConversation(job[w].span)
            j == [job[w] EXCEPT !.conv = c]
            l == IF c # None THEN "session"
                 ELSE IF job[w].span \in Eventful THEN "derive" ELSE "refresh"
<1>1. /\ Active(w) /\ job[w] \in Job /\ job[w].span \in Span /\ InStep(w)
      /\ pc[w] = "next" /\ job[w].after = "forward" /\ job[w].todo = {}
      /\ job[w].foundConv = None
  BY AccountableTypes, AfterType
     DEF ReadConversation, Active, InStep, Trusted, CarriesExact
<1>2. OthersStay(w) /\ pc'[w] = l /\ job'[w] = j
  <2>1. job' = [job EXCEPT ![w] = j] /\ pc' = [pc EXCEPT ![w] = l]
    BY DEF ReadConversation, Goto
  <2>. HIDE DEF j, l
  <2>. QED
    BY <2>1, MovesWith
<1>3. /\ job'[w].span = job[w].span /\ job'[w].after = "forward"
      /\ job'[w].todo = {} /\ job'[w].foundConv = None /\ job'[w].conv = c
  <2>. HIDE DEF c
  <2>. QED
    BY <1>1, <1>2 DEF Job
<1>4. UNCHANGED <<row, projected, hooked, ptr, conv, session, landed>>
  BY DEF ReadConversation, tables, history, spanTable, projections
<1>5. InStep(w)'
  BY <1>1, <1>2, <1>3, <1>4 DEF InStep, Active, Projected, Statement
<1>6. KeepsFilling(w)
  <2>. HIDE DEF c
  <2>. QED
    BY <1>1, <1>2, <1>3
       DEF KeepsFilling, WillFill, Early, Filling, BeforeForward, BeforeHooks
<1>7. KeepsCounting(w)
  <2>. SUFFICES ASSUME NEW d \in Conversation, Reaches(job[w].span, d)
                PROVE  WillCount(w, d)'
    BY DEF KeepsCounting
  <2>1. c = d /\ d # None
    BY <1>1, ReachesFinds, NoneAssumption
  <2>. HIDE DEF c
  <2>. QED
    BY <1>2, <1>3, <2>1 DEF WillCount
<1>. QED
  BY <1>1, <1>2, <1>3, <1>4, <1>5, <1>6, <1>7, StaticStep DEF RealsSame

\* The statements between reading the conversation and the events.
LEMMA AccountSession ==
  ASSUME Accountable, Trustworthy', NEW w \in Worker, OthersStay(w),
         pc[w] \in {"session", "count"}, job'[w] = job[w],
         pc'[w] \in {"count", IF job[w].span \in Eventful THEN "derive" ELSE "refresh"},
         UNCHANGED <<row, projected, hooked, ptr, conv, landed>>,
         KeepsCounting(w), CountsAnew
  PROVE  Accountable'
<1>1. /\ Active(w) /\ job[w].span \in Span /\ InStep(w) /\ job[w].todo = {}
      /\ job[w].after = "forward"
  BY AccountableTypes, AfterType DEF Active, InStep
<1>2. InStep(w)'
  BY <1>1, AccountableTypes
     DEF InStep, Active, Projected, Statement, Trusted, CarriesExact
<1>3. KeepsFilling(w)
  BY <1>1 DEF KeepsFilling, WillFill, Early, Filling, BeforeForward, BeforeHooks
<1>4. RowsGrow /\ SlotsKept /\ LandedWhole'
  BY DEF RowsGrow, RowsKept, SlotsKept, Held, Accountable, LandedWhole
<1>5. LinksAnew
  BY SameLinks DEF LinksAnew, RealsSame
<1>. QED
  BY <1>1, <1>2, <1>3, <1>4, <1>5, AccountStep

LEMMA CountedType ==
  ASSUME TypeOK, NEW c
  PROVE  Counted(c) \in Counters
<1>1. \A kind : Members(kind, c) \in SUBSET Span
  BY DEF TypeOK, TablesOK, Members
<1>2. \A kind : Cardinality(Members(kind, c)) \in Nat
  BY <1>1, CountType
<1>. QED
  BY <1>2 DEF Counted, Counters

LEMMA AccountUpsertSession ==
  ASSUME Accountable, Trustworthy', NEW w \in Worker, UpsertSession(w)
  PROVE  Accountable'
<1>1. pc[w] = "session" /\ OthersStay(w) /\ pc'[w] = "count" /\ job'[w] = job[w]
  BY MovesOn DEF UpsertSession, Goto
<1>2. /\ UNCHANGED <<row, projected, hooked, ptr, conv, landed>>
      /\ session \in [Conversation -> Counters \cup {None}]
      /\ session' = [session EXCEPT ![job[w].conv] = Coalesce(@, NewSession)]
  BY DEF UpsertSession, history, spanTable, projections, Accountable, Trustworthy,
         TypeOK, TablesOK
<1>3. KeepsCounting(w)
  BY <1>1 DEF KeepsCounting, WillCount, BeforeRead
<1>4. CountsAnew
  <2>. SUFFICES ASSUME NEW c \in Conversation, Fresh(c)
                PROVE  Fresh(c)'
    BY DEF CountsAnew
  <2>1. \A kind : Members(kind, c)' = Members(kind, c)
    BY <1>2 DEF Members
  <2>2. CASE session'[c] = session[c]
    BY <1>2, <2>1, <2>2 DEF Fresh, Counted
  <2>3. CASE session'[c] # session[c]
    <3>1. session[c] = None /\ session'[c] = NewSession
      BY <1>2, <2>3 DEF Coalesce
    <3>2. \A kind : Members(kind, c) = {}
      BY <3>1 DEF Fresh, Members
    <3>3. Counted(c)' = NewSession
      BY <2>1, <3>2, FS_EmptySet DEF Counted, NewSession
    <3>. QED
      BY <1>2, <3>1, <3>3 DEF Fresh
  <2>. QED
    BY <2>2, <2>3
<1>. QED
  BY <1>1, <1>2, <1>3, <1>4, AccountSession

LEMMA AccountRecountSession ==
  ASSUME Accountable, Trustworthy', NEW w \in Worker, RecountSession(w)
  PROVE  Accountable'
<1>. DEFINE l == IF job[w].span \in Eventful THEN "derive" ELSE "refresh"
<1>1. pc[w] = "count" /\ OthersStay(w) /\ pc'[w] = l /\ job'[w] = job[w]
  BY MovesOn DEF RecountSession, Goto
<1>2. /\ UNCHANGED <<row, projected, hooked, ptr, conv, landed>>
      /\ session \in [Conversation -> Counters \cup {None}]
      /\ session' = [session EXCEPT ![job[w].conv] = Counted(job[w].conv)]
      /\ TypeOK
  BY DEF RecountSession, Counted, history, spanTable, projections, Accountable,
         Trustworthy, TypeOK, TablesOK
<1>3. \A c : Counted(c)' = Counted(c)
  BY <1>2 DEF Counted, Members
<1>4. ASSUME NEW c \in Conversation
      PROVE  IF c = job[w].conv THEN Fresh(c)' ELSE Fresh(c) => Fresh(c)'
  <2>1. CASE c = job[w].conv
    <3>1. session'[c] = Counted(c) /\ Counted(c) # None
      BY <1>2, <2>1, CountedType, RowAssumption
    <3>. QED
      BY <1>3, <2>1, <3>1 DEF Fresh
  <2>2. CASE c # job[w].conv
    BY <1>2, <1>3, <2>2 DEF Fresh
  <2>. QED
    BY <2>1, <2>2
<1>5. KeepsCounting(w) /\ CountsAnew
  BY <1>1, <1>4 DEF KeepsCounting, CountsAnew, WillCount, BeforeRead
<1>. QED
  BY <1>1, <1>2, <1>5, AccountSession

\* A new hook row awaits its own span.
LEMMA AccountDeriveFromEvents ==
  ASSUME Accountable, Trustworthy', NEW w \in Worker, DeriveFromEvents(w)
  PROVE  Accountable'
<1>. DEFINE j == [job[w] EXCEPT !.after = "refresh", !.target = job[w].span]
<1>1. /\ Active(w) /\ job[w] \in Job /\ job[w].span \in Span /\ InStep(w)
      /\ pc[w] = "derive" /\ job[w].todo = {} /\ job[w].span \in Eventful
      /\ job[w].foundConv = None
  BY AccountableTypes DEF DeriveFromEvents, Active, InStep, Trusted, CarriesExact
<1>. PICK u \in Span : u = job[w].span
  BY <1>1
<1>2. OthersStay(w) /\ pc'[w] = "walk" /\ job'[w] = j
  <2>1. job' = [job EXCEPT ![w] = j] /\ pc' = [pc EXCEPT ![w] = "walk"]
    BY DEF DeriveFromEvents, Goto
  <2>. HIDE DEF j
  <2>. QED
    BY <2>1, MovesWith
<1>3. /\ job'[w].span = u /\ job'[w].after = "refresh" /\ job'[w].target = u
      /\ job'[w].todo = {} /\ job'[w].foundConv = None
  BY <1>1, <1>2 DEF Job
<1>4. /\ UNCHANGED <<row, projected, ptr, session, landed>>
      /\ hooked' = hooked \cup {u}
      /\ conv'["projection"] = conv["projection"]
  BY DEF DeriveFromEvents, spanTable, history, Accountable, Trustworthy, TypeOK,
         TablesOK, Table
<1>5. InStep(w)'
  BY <1>1, <1>2, <1>3, <1>4 DEF InStep, Active, Projected, Statement
<1>6. RowsGrow /\ SlotsKept
  BY <1>4 DEF RowsGrow, RowsKept, SlotsKept, Held
<1>7. LandedWhole'
  BY <1>1, <1>4 DEF Accountable, LandedWhole
<1>8. ASSUME u \notin hooked, NEW k \in HookColumn
      PROVE  FillAwaits(u, u, k)'
  <2>1. u \notin landed'
    BY <1>1, <1>4, <1>8 DEF Accountable, LandedWhole
  <2>2. ASSUME NEW v \in Worker, Active(v)', job'[v].span = u
        PROVE  BeforeHooks(v)'
    <3>1. CASE v = w
      BY <1>1, <1>2, <1>3, <3>1 DEF BeforeHooks
    <3>2. CASE v # w
      <4>1. pc'[v] = pc[v] /\ job'[v] = job[v] /\ Active(v)
        BY <1>2, <2>2, <3>2 DEF OthersStay, Active
      <4>2. BeforeHooks(v)
        BY <1>1, <1>8, <2>2, <4>1, AccountableTypes, AfterType DEF InStep, BeforeHooks
      <4>. QED
        BY <4>1, <4>2 DEF BeforeHooks
    <3>. QED
      BY <3>1, <3>2
  <2>. QED
    BY <1>8, <2>1, <2>2 DEF FillAwaits, WillFill
<1>9. LinksAnew
  <2>. SUFFICES ASSUME NEW s \in Span, NEW k \in Slot, NEW i \in Depths(s),
                       Linkable(s, k, i)', ~ Linkable(s, k, i)
                PROVE  \E d \in 0..i : FillAwaits(At(s, d), s, k)'
    BY DEF LinksAnew
  <2>1. i \in Nat /\ At(s, 0) = s
    BY DEF Depths, At
  <2>2. s = u /\ k \in HookColumn /\ u \notin hooked
    BY <1>4 DEF Linkable, RealPath, Source, Slots, ProjectionColumns, HookColumns
  <2>. QED
    BY <1>8, <2>1, <2>2
<1>10. KeepsFilling(w)
  BY <1>1, <1>2, <1>3
     DEF KeepsFilling, WillFill, Early, Filling, BeforeForward, BeforeHooks
<1>11. KeepsCounting(w)
  BY <1>1 DEF KeepsCounting, WillCount, BeforeRead
<1>12. CountsAnew
  BY <1>4, SameCounts DEF CountsAnew
<1>. QED
  BY <1>1, <1>2, <1>3, <1>4, <1>5, <1>6, <1>7, <1>9, <1>10, <1>11, <1>12, AccountStep

\* Past the events, nothing is left to do.
LEMMA NothingLeft ==
  ASSUME Accountable, NEW w \in Worker, pc[w] \in {"refresh", "announce"}, NEW s, NEW k,
         NEW c
  PROVE  ~ WillFill(w, s, k) /\ ~ WillCount(w, c)
<1>1. InStep(w) /\ job[w].todo = {}
  BY AccountableTypes DEF InStep
<1>. QED
  BY <1>1 DEF WillFill, Early, Filling, BeforeForward, BeforeHooks, WillCount, BeforeRead

LEMMA AccountRefreshToolCount ==
  ASSUME Accountable, Trustworthy', NEW w \in Worker, RefreshToolCount(w)
  PROVE  Accountable'
<1>1. Active(w) /\ InStep(w) /\ pc[w] = "refresh" /\ job[w].foundConv = None
  BY AccountableTypes DEF RefreshToolCount, Active, Trusted, CarriesExact
<1>2. OthersStay(w) /\ pc'[w] = "announce" /\ job'[w] = job[w]
  BY MovesOn DEF RefreshToolCount, Goto
<1>3. UNCHANGED <<row, projected, hooked, ptr, conv, session, landed>>
  BY DEF RefreshToolCount, history, spanTable
<1>4. InStep(w)'
  BY <1>1, <1>2, <1>3 DEF InStep, Active, Projected, Statement
<1>5. KeepsFilling(w) /\ KeepsCounting(w)
  BY <1>1, NothingLeft DEF KeepsFilling, KeepsCounting
<1>. QED
  BY <1>1, <1>2, <1>3, <1>4, <1>5, StaticStep DEF RealsSame

-----------------------------------------------------------------------------
(* Beginning and ending a call.                                            *)

\* A step that changes no row leaves every link and every count as it was, but
\* for the spans that calls work on and those that have landed.
LEMMA LinksRest ==
  ASSUME Accountable,
         UNCHANGED <<row, projected, hooked, ptr, conv, session>>,
         \A u \in Span : \A s, k : FillAwaits(u, s, k) => FillAwaits(u, s, k)',
         \A u \in Span, c \in Conversation : CountAwaits(u, c) => CountAwaits(u, c)'
  PROVE  LinksOwed' /\ CountsOwed'
<1>1. LinksOwed'
  <2>. SUFFICES ASSUME NEW s \in Span, NEW k \in Slot, NEW i \in Depths(s),
                       Linkable(s, k, i)'
                PROVE  Held(s, k)' # None \/ \E j \in 0..i : FillAwaits(At(s, j), s, k)'
    BY DEF LinksOwed
  <2>1. Linkable(s, k, i) /\ Held(s, k)' = Held(s, k)
    BY SameLinks DEF RealsSame, Held
  <2>2. \A j \in 0..i : At(s, j) \in Span
    BY DepthsBelow, AtType
  <2>. QED
    BY <2>1, <2>2 DEF Accountable, LinksOwed
<1>2. CountsOwed'
  BY SameCounts DEF Accountable, CountsOwed
<1>. QED
  BY <1>1, <1>2

\* A call is over: its span has landed, or it is as if the call had not been.
LEMMA AccountEnds ==
  ASSUME Accountable, Trustworthy', NEW w \in Worker, Active(w),
         pc' = [pc EXCEPT ![w] = "idle"],
         job' = [job EXCEPT ![w] = NoJob],
         UNCHANGED <<row, projected, hooked, ptr, conv, session>>,
         landed' = landed \/ (pc[w] = "announce" /\ landed' = landed \cup {job[w].span})
  PROVE  Accountable'
<1>1. OthersStay(w) /\ pc'[w] = "idle" /\ job'[w] = NoJob
  BY MovesWith
<1>. PICK x \in Span : x = job[w].span
  BY AccountableTypes
<1>2. LandedWhole'
  <2>1. CASE landed' = landed
    BY <2>1 DEF Accountable, LandedWhole
  <2>2. CASE pc[w] = "announce" /\ landed' = landed \cup {x}
    <3>1. /\ row[x] = "real"
          /\ Kind[x] # "other" => x \in projected
          /\ x \in Eventful => x \in hooked
      BY <2>2, AccountableTypes DEF Trusted, WorksOnReal, InStep, Projected, Statement
    <3>. QED
      BY <2>2, <3>1 DEF Accountable, LandedWhole
  <2>. QED
    BY <2>1, <2>2
<1>3. ASSUME NEW v \in Worker
      PROVE  InStep(v)'
  <2>1. CASE v = w
    BY <1>1, <2>1 DEF InStep, Active, Projected, NoJob
  <2>2. CASE v # w
    BY <1>1, <2>2, AccountableTypes, OthersInStep DEF OthersStay, RowsGrow, RowsKept
  <2>. QED
    BY <2>1, <2>2
<1>4. ASSUME NEW u \in Span, NEW s, NEW k, FillAwaits(u, s, k)
      PROVE  FillAwaits(u, s, k)'
  <2>1. u \notin landed'
    BY <1>4, NothingLeft DEF FillAwaits
  <2>2. ASSUME NEW v \in Worker, Active(v)', job'[v].span = u
        PROVE  WillFill(v, s, k)'
    <3>1. v # w /\ pc'[v] = pc[v] /\ job'[v] = job[v]
      BY <1>1, <2>2 DEF OthersStay, Active
    <3>2. WillFill(v, s, k)
      BY <1>4, <2>2, <3>1 DEF FillAwaits, Active
    <3>. QED
      BY <3>1, <3>2, StaysAsItWas
  <2>. QED
    BY <2>1, <2>2 DEF FillAwaits
<1>5. ASSUME NEW u \in Span, NEW c \in Conversation, CountAwaits(u, c)
      PROVE  CountAwaits(u, c)'
  <2>1. u \notin landed'
    BY <1>5, NothingLeft DEF CountAwaits
  <2>2. ASSUME NEW v \in Worker, Active(v)', job'[v].span = u
        PROVE  WillCount(v, c)'
    <3>1. v # w /\ pc'[v] = pc[v] /\ job'[v] = job[v]
      BY <1>1, <2>2 DEF OthersStay, Active
    <3>2. WillCount(v, c)
      BY <1>5, <2>2, <3>1 DEF CountAwaits, Active
    <3>. QED
      BY <3>1, <3>2, StaysAsItWas
  <2>3. Reaches(u, c)'
    BY <1>5, ReachesKept DEF CountAwaits, RowsKept
  <2>. QED
    BY <2>1, <2>2, <2>3 DEF CountAwaits
<1>6. LinksOwed' /\ CountsOwed'
  BY <1>4, <1>5, LinksRest
<1>. QED
  BY <1>2, <1>3, <1>6 DEF Accountable

\* A call begins: whatever awaits its span, it is still to do.
LEMMA AccountReceive ==
  ASSUME Accountable, Trustworthy', NEW w \in Worker, NEW x \in Span, Receive(w, x)
  PROVE  Accountable'
<1>. DEFINE j == [NoJob EXCEPT !.span = x]
<1>1. OthersStay(w) /\ pc'[w] = "lookup" /\ job'[w] = j
  <2>1. job' = [job EXCEPT ![w] = j] /\ pc' = [pc EXCEPT ![w] = "lookup"]
    BY DEF Receive, Goto
  <2>. HIDE DEF j
  <2>. QED
    BY <2>1, MovesWith
<1>2. UNCHANGED <<row, projected, hooked, ptr, conv, session, landed>>
  BY DEF Receive, tables, spanTable, projections
<1>3. /\ job'[w].span = x /\ job'[w].after = "forward" /\ job'[w].todo = {}
      /\ job'[w].foundConv = None
  BY <1>1 DEF NoJob
<1>4. LandedWhole'
  BY <1>2 DEF Accountable, LandedWhole
<1>5. ASSUME NEW v \in Worker
      PROVE  InStep(v)'
  <2>1. CASE v = w
    <3>1. x \notin {}
      OBVIOUS
    <3>. QED
      BY <1>1, <1>3, <2>1 DEF InStep, Active, Projected
  <2>2. CASE v # w
    BY <1>1, <1>2, <2>2, AccountableTypes, OthersInStep DEF OthersStay, RowsGrow, RowsKept
  <2>. QED
    BY <2>1, <2>2
<1>6. Early(w)' /\ BeforeRead(w)'
  BY <1>1, <1>3 DEF Early, BeforeRead
<1>7. ASSUME NEW u \in Span, NEW s, NEW k, FillAwaits(u, s, k)
      PROVE  FillAwaits(u, s, k)'
  <2>1. ASSUME NEW v \in Worker, Active(v)', job'[v].span = u
        PROVE  WillFill(v, s, k)'
    <3>1. CASE v = w
      BY <1>6, <3>1 DEF WillFill
    <3>2. CASE v # w
      <4>1. pc'[v] = pc[v] /\ job'[v] = job[v]
        BY <1>1, <3>2 DEF OthersStay
      <4>2. WillFill(v, s, k)
        BY <1>7, <2>1, <4>1 DEF FillAwaits, Active
      <4>. QED
        BY <4>1, <4>2, StaysAsItWas
    <3>. QED
      BY <3>1, <3>2
  <2>. QED
    BY <1>2, <1>7, <2>1 DEF FillAwaits
<1>8. ASSUME NEW u \in Span, NEW c \in Conversation, CountAwaits(u, c)
      PROVE  CountAwaits(u, c)'
  <2>1. ASSUME NEW v \in Worker, Active(v)', job'[v].span = u
        PROVE  WillCount(v, c)'
    <3>1. CASE v = w
      BY <1>6, <3>1 DEF WillCount
    <3>2. CASE v # w
      <4>1. pc'[v] = pc[v] /\ job'[v] = job[v]
        BY <1>1, <3>2 DEF OthersStay
      <4>2. WillCount(v, c)
        BY <1>8, <2>1, <4>1 DEF CountAwaits, Active
      <4>. QED
        BY <4>1, <4>2, StaysAsItWas
    <3>. QED
      BY <3>1, <3>2
  <2>2. Reaches(u, c)'
    BY <1>2, <1>8, ReachesKept DEF CountAwaits, RowsKept
  <2>. QED
    BY <1>2, <1>8, <2>1, <2>2 DEF CountAwaits
<1>9. LinksOwed' /\ CountsOwed'
  BY <1>2, <1>7, <1>8, LinksRest
<1>. QED
  BY <1>4, <1>5, <1>9 DEF Accountable

LEMMA AccountStutter ==
  ASSUME Accountable, UNCHANGED vars
  PROVE  Accountable'
<1>1. UNCHANGED <<row, projected, hooked, ptr, conv, session, landed, pc, job>>
  BY DEF vars, tables, history, spanTable, projections
<1>2. Trustworthy'
  BY TrustNext DEF Accountable
<1>3. LandedWhole'
  BY <1>1 DEF Accountable, LandedWhole
<1>4. \A v \in Worker : InStep(v)'
  BY <1>1, AccountableTypes, OthersInStep DEF RowsGrow, RowsKept
<1>5. \A u \in Span : \A s, k : FillAwaits(u, s, k) => FillAwaits(u, s, k)'
  BY <1>1, StaysAsItWas DEF FillAwaits, Active
<1>6. \A u \in Span, c \in Conversation : CountAwaits(u, c) => CountAwaits(u, c)'
  BY <1>1, StaysAsItWas, ReachesKept DEF CountAwaits, Active, RowsKept
<1>7. LinksOwed' /\ CountsOwed'
  BY <1>1, <1>5, <1>6, LinksRest
<1>. QED
  BY <1>2, <1>3, <1>4, <1>7 DEF Accountable

LEMMA AccountNext ==
  ASSUME Accountable, [Next]_vars
  PROVE  Accountable'
<1>1. Trustworthy'
  BY TrustNext DEF Accountable
<1>2. ASSUME NEW w \in Worker, Step(w)
      PROVE  Accountable'
  <2>1. CASE Announce(w)
    BY <1>1, <2>1, AccountEnds DEF Announce, Goto, projections, Active
  <2>. QED
    BY <1>1, <1>2, <2>1, AccountLookup, AccountUpsertSpan, AccountEnsurePlaceholder,
       AccountUpsertAgentRunOrChatTurn, AccountUpsertToolCall,
       AccountPairExternalCalls, AccountLookupToolCall, AccountUpsertExternalToolCall,
       AccountSkipProjection, AccountWalkAncestors, AccountApplyToProjection,
       AccountApplyToHooks, AccountListDescendants, AccountReadConversation,
       AccountUpsertSession, AccountRecountSession, AccountDeriveFromEvents,
       AccountRefreshToolCount DEF Step
<1>3. ASSUME NEW w \in Worker, Fail(w)
      PROVE  Accountable'
  BY <1>1, <1>3, AccountEnds
     DEF Fail, Goto, tables, history, spanTable, projections, Active
<1>. QED
  BY <1>1, <1>2, <1>3, AccountReceive, AccountStutter DEF Next, SteadyNext

LEMMA AccountInit == Init => Accountable
<1>. SUFFICES ASSUME Init
              PROVE  Accountable
  OBVIOUS
<1>1. LandedWhole
  BY DEF Init, LandedWhole, Table
<1>2. \A w \in Worker : InStep(w)
  BY DEF Init, InStep, Active, Projected, NoJob
<1>3. LinksOwed
  BY DEF Init, LinksOwed, Linkable, Slots, ProjectionColumns, HookColumns
<1>4. CountsOwed
  BY DEF Init, CountsOwed, Fresh
<1>. QED
  BY <1>1, <1>2, <1>3, <1>4, TrustInit DEF Accountable

\* However calls interleave, repeat or fail, a slot left empty and a session
\* left stale always await a span that no call has normalized to its end.
THEOREM AlwaysAccountable == Spec => []Accountable
<1>. QED
  BY AccountInit, AccountNext, PTL DEF Spec

\* Nothing that normalization derives is missing once the spans it depends on
\* have landed: whichever of them came last resolved the row, by its own walk
\* or through forward_resolve_descendants, and counted its session.
THEOREM NothingMissing == Spec => []DerivedComplete
<1>1. ASSUME Accountable, NEW s \in Span, NEW k \in Slot, NEW i \in Depths(s),
             k \in Slots(s), Source(s, k, i), PathIn(landed, s, i)
      PROVE  Held(s, k) # None
  <2>1. i \in Nat /\ i \in 0..i
    BY DEF Depths
  <2>2. At(s, i) \in Span /\ Kind[At(s, i)] \in KindClass
    BY AtType, AttributeAssumption
  <2>3. RealPath(s, i)
    BY <1>1 DEF PathIn, RealPath, Accountable, LandedWhole
  <2>4. k # "conv" => At(s, i) \in projected
    BY <1>1, <2>1 DEF PathIn, Accountable, LandedWhole, Source, Slot, Column, Wanted
  <2>5. Linkable(s, k, i)
    BY <1>1, <2>3, <2>4 DEF Linkable
  <2>. QED
    BY <1>1, <2>5 DEF PathIn, Accountable, LinksOwed, FillAwaits
<1>2. Accountable => Reconciled
  <2>. SUFFICES ASSUME Accountable, NEW s \in Span
                PROVE  /\ \A c \in ProjectionColumns(s) \cup HookColumns(s) :
                            \A i \in Depths(s) :
                              /\ i > 0
                              /\ Kind[At(s, i)] \in Wanted[c]
                              /\ PathIn(landed, s, i)
                              => ptr[c][s] # None
                       /\ s \in projected =>
                            \A i \in Depths(s) :
                              ConvAttr[At(s, i)] # None /\ PathIn(landed, s, i)
                              => conv["projection"][s] # None
    BY DEF Reconciled
  <2>1. ASSUME NEW c \in ProjectionColumns(s) \cup HookColumns(s)
        PROVE  c \in Slot /\ c \in Slots(s) /\ c # "conv"
    BY DEF ProjectionColumns, HookColumns, HookColumn, Slots, Slot, Column
  <2>2. s \in projected => "conv" \in Slot /\ "conv" \in Slots(s)
    BY DEF Slots, Slot
  <2>. QED
    BY <1>1, <2>1, <2>2 DEF Source, Held
<1>3. Accountable => SessionsFresh
  <2>. SUFFICES ASSUME Accountable, AllLanded, NEW c \in Conversation
                PROVE  Fresh(c)
    BY DEF SessionsFresh
  <2>1. ASSUME NEW u \in Span, Reaches(u, c)
        PROVE  u \in landed
    <3>1. PICK i \in Depths(u) : RealPath(u, i)
      BY <2>1 DEF Reaches
    <3>2. 0 \in 0..i /\ At(u, 0) = u
      BY DEF Depths, At
    <3>. QED
      BY <3>1, <3>2 DEF RealPath, AllLanded
  <2>. QED
    BY <2>1 DEF Accountable, CountsOwed, CountAwaits
<1>. QED
  BY <1>2, <1>3, AlwaysAccountable, PTL DEF DerivedComplete

-----------------------------------------------------------------------------
(* The tool_call_count of a turn.                                          *)

\* A step of one call leaves the other calls as they are.
LEMMA StepOthers ==
  ASSUME TypeOK, NEW w \in Worker, Step(w) \/ Fail(w) \/ \E s \in Span : Receive(w, s)
  PROVE  OthersStay(w)
<1>1. DOMAIN pc = Worker /\ DOMAIN job = Worker
  BY DEF TypeOK, CallsOK
<1>2. CASE Lookup(w) \/ UpsertSpan(w) \/ EnsurePlaceholder(w) \/ PairExternalCalls(w)
  BY <1>1, <1>2 DEF Lookup, UpsertSpan, EnsurePlaceholder, PairExternalCalls, Goto,
     OthersStay
<1>3. CASE LookupToolCall(w) \/ SkipProjection(w)
  BY <1>1, <1>3 DEF LookupToolCall, SkipProjection, Goto, OthersStay
<1>4. CASE UpsertAgentRunOrChatTurn(w) \/ UpsertToolCall(w) \/ UpsertExternalToolCall(w)
  BY <1>1, <1>4 DEF UpsertAgentRunOrChatTurn, UpsertToolCall, UpsertExternalToolCall, Goto,
     OthersStay
<1>5. CASE ListDescendants(w) \/ \E t \in Span : WalkAncestors(w, t)
  <2>1. CASE ListDescendants(w)
    BY <1>1, <2>1 DEF ListDescendants, Goto, OthersStay
  <2>2. ASSUME NEW t \in Span, WalkAncestors(w, t)
        PROVE  OthersStay(w)
    BY <1>1, <2>2 DEF WalkAncestors, Goto, OthersStay
  <2>. QED
    BY <1>5, <2>1, <2>2
<1>6. CASE ApplyToProjection(w) \/ ApplyToHooks(w)
  BY <1>1, <1>6 DEF ApplyToProjection, ApplyToHooks, Goto, OthersStay
<1>7. CASE ReadConversation(w) \/ UpsertSession(w) \/ RecountSession(w)
  BY <1>1, <1>7 DEF ReadConversation, UpsertSession, RecountSession, Goto, OthersStay
<1>8. CASE \/ DeriveFromEvents(w) \/ RefreshToolCount(w) \/ Announce(w) \/ Fail(w)
           \/ \E s \in Span : Receive(w, s)
  BY <1>1, <1>8 DEF DeriveFromEvents, RefreshToolCount, Announce, Fail, Receive, Goto,
     OthersStay
<1>. QED
  BY <1>2, <1>3, <1>4, <1>5, <1>6, <1>7, <1>8 DEF Step

\* A call that is not about to be announced holds up no refresh.
LEMMA RefreshKept ==
  ASSUME NEW w \in Worker, OthersStay(w), pc'[w] # "announce", landed' = landed, NEW u,
         RefreshAwaits(u)
  PROVE  RefreshAwaits(u)'
BY DEF RefreshAwaits, OthersStay, Active

\* The near calls of a turn are among the tool calls that point at it, and both
\* can be counted.
LEMMA CallsCounted ==
  ASSUME TypeOK, NEW c
  PROVE  /\ NearCallsOf(c) \in SUBSET ToolCallsOf(c) /\ ToolCallsOf(c) \in SUBSET Span
         /\ IsFiniteSet(ToolCallsOf(c))
         /\ Cardinality(NearCallsOf(c)) \in Nat /\ Cardinality(ToolCallsOf(c)) \in Nat
         /\ Cardinality(NearCallsOf(c)) <= Cardinality(ToolCallsOf(c))
<1>1. projected \subseteq Span
  BY DEF TypeOK, TablesOK
<1>2. NearCallsOf(c) \in SUBSET ToolCallsOf(c) /\ ToolCallsOf(c) \in SUBSET Span
  BY <1>1 DEF NearCallsOf, ToolCallsOf
<1>3. IsFiniteSet(ToolCallsOf(c))
  BY <1>2, SpanAssumption, FS_Subset
<1>4. Cardinality(NearCallsOf(c)) <= Cardinality(ToolCallsOf(c))
  BY <1>2, <1>3, FS_Subset
<1>. QED
  BY <1>2, <1>3, <1>4, CountType

\* What points at a turn, and lies near it, follows from the chat column.
LEMMA NearSame ==
  ASSUME TypeOK, NEW c, projected \subseteq projected', projected' \subseteq Span,
         \A s \in projected' : (ptr'["chat"][s] = c) <=> (s \in projected /\ ptr["chat"][s] = c)
  PROVE  /\ ToolCallsOf(c)' = ToolCallsOf(c) /\ RecountersOf(c)' = RecountersOf(c)
         /\ NearCallsOf(c)' = NearCallsOf(c)
<1>1. ToolCallsOf(c)' = ToolCallsOf(c)
  BY DEF ToolCallsOf
<1>2. RecountersOf(c)' = RecountersOf(c)
  BY DEF RecountersOf
<1>. QED
  BY <1>1, <1>2 DEF NearCallsOf

\* Steps that leave the turns, their tool calls and their counts alone.
LEMMA ToolCountsRest ==
  ASSUME Accountable, ToolCountsOwed, UNCHANGED <<projected, toolCount>>,
         \A s \in Span : ptr'["chat"][s] = ptr["chat"][s],
         \A u \in projected : RefreshAwaits(u) => RefreshAwaits(u)'
  PROVE  ToolCountsOwed'
<1>1. TypeOK /\ projected \subseteq Span
  BY DEF Accountable, Trustworthy, TypeOK, TablesOK
<1>2. \A c : /\ ToolCallsOf(c)' = ToolCallsOf(c) /\ RecountersOf(c)' = RecountersOf(c)
             /\ NearCallsOf(c)' = NearCallsOf(c)
  BY <1>1, NearSame
<1>3. \A c \in projected : {c} \cup RecountersOf(c) \subseteq projected
  BY DEF RecountersOf
<1>. QED
  BY <1>1, <1>2, <1>3 DEF ToolCountsOwed

LEMMA ToolCountsQuiet ==
  ASSUME Accountable, ToolCountsOwed, NEW w \in Worker,
         \/ Lookup(w) \/ UpsertSpan(w) \/ EnsurePlaceholder(w) \/ PairExternalCalls(w)
         \/ LookupToolCall(w) \/ SkipProjection(w) \/ \E t \in Span : WalkAncestors(w, t)
         \/ ListDescendants(w) \/ ReadConversation(w) \/ UpsertSession(w)
         \/ RecountSession(w) \/ DeriveFromEvents(w) \/ Fail(w)
         \/ \E s \in Span : Receive(w, s)
  PROVE  ToolCountsOwed'
<1>1. TypeOK /\ DOMAIN pc = Worker
  BY DEF Accountable, Trustworthy, TypeOK, CallsOK
<1>2. OthersStay(w)
  BY <1>1, StepOthers DEF Step
<1>3. UNCHANGED <<projected, toolCount, ptr, landed>> /\ pc'[w] # "announce"
  <2>1. CASE Lookup(w) \/ UpsertSpan(w) \/ EnsurePlaceholder(w)
    BY <1>1, <2>1 DEF Lookup, UpsertSpan, EnsurePlaceholder, Goto, tables, history,
       projections
  <2>4. CASE LookupToolCall(w) \/ SkipProjection(w)
    BY <1>1, <2>4 DEF LookupToolCall, SkipProjection, Goto, tables, history, projections
  <2>5. CASE PairExternalCalls(w)
    BY <1>1, <2>5 DEF PairExternalCalls, Goto, history
  <2>2. CASE \/ \E t \in Span : WalkAncestors(w, t)
             \/ ListDescendants(w) \/ ReadConversation(w)
    BY <1>1, <2>2, Zenon DEF WalkAncestors, ListDescendants, ReadConversation, Goto, tables,
       history, projections
  <2>3. CASE \/ UpsertSession(w) \/ RecountSession(w) \/ DeriveFromEvents(w) \/ Fail(w)
             \/ \E s \in Span : Receive(w, s)
    BY <1>1, <2>3 DEF UpsertSession, RecountSession, DeriveFromEvents, Fail, Receive, Goto,
       tables, history, projections
  <2>. QED
    BY <2>1, <2>2, <2>3, <2>4, <2>5
<1>4. \A u : RefreshAwaits(u) => RefreshAwaits(u)'
  BY <1>2, <1>3, RefreshKept
<1>. QED
  BY <1>3, <1>4, ToolCountsRest

\* A new row: the count of a new turn awaits the span of that row; no new row
\* points at a turn.
LEMMA ToolCountsInsert ==
  ASSUME Accountable, ToolCountsOwed, NEW w \in Worker,
         \/ UpsertAgentRunOrChatTurn(w) \/ UpsertToolCall(w) \/ UpsertExternalToolCall(w)
  PROVE  ToolCountsOwed'
<1>0. /\ pc[w] \in {"project", "insert"} /\ job[w].span \in Span /\ InStep(w) /\ TypeOK
      /\ projected \subseteq Span /\ DOMAIN pc = Worker
  BY AccountableTypes DEF UpsertAgentRunOrChatTurn, UpsertToolCall, UpsertExternalToolCall,
     Active, TypeOK, TablesOK, CallsOK
<1>. PICK x \in Span : x = job[w].span
  BY <1>0
<1>1. OthersStay(w)
  BY StepOthers DEF Accountable, Trustworthy, Step
<1>2. /\ pc'[w] # "announce" /\ projected' = projected \cup {x}
      /\ UNCHANGED <<toolCount, ptr, landed>>
  BY <1>0 DEF UpsertAgentRunOrChatTurn, UpsertToolCall, UpsertExternalToolCall,
     InsertProjection, Goto, history
<1>3. Kind[x] # "other"
  BY <1>0 DEF UpsertAgentRunOrChatTurn, UpsertToolCall, UpsertExternalToolCall, InStep
<1>4. \A u : RefreshAwaits(u) => RefreshAwaits(u)'
  BY <1>1, <1>2, RefreshKept
<1>5. CASE x \in projected
  BY <1>0, <1>2, <1>4, <1>5, ToolCountsRest
<1>6. CASE x \notin projected
  <2>1. RefreshAwaits(x)'
    <3>1. x \notin landed
      BY <1>3, <1>6 DEF Accountable, LandedWhole
    <3>2. \A v \in Worker : job[v].span = x => pc[v] # "announce"
      BY <1>3, <1>6, AccountableTypes DEF InStep, Projected, Statement
    <3>. QED
      BY <1>1, <1>2, <3>1, <3>2 DEF RefreshAwaits, OthersStay
  <2>2. ptr["chat"][x] = None /\ toolCount[x] = 0
    BY <1>6 DEF ToolCountsOwed
  <2>3. ASSUME NEW c \in projected'
        PROVE  /\ ToolCallsOf(c)' = ToolCallsOf(c) /\ RecountersOf(c)' = RecountersOf(c)
               /\ NearCallsOf(c)' = NearCallsOf(c)
    <3>1. c \in Span /\ c # None
      BY <1>0, <1>2, NoneAssumption
    <3>. QED
      BY <1>0, <1>2, <2>2, <3>1, NearSame
  <2>4. ASSUME NEW c \in projected', Kind[c] = "chat"
        PROVE  /\ toolCount'[c] <= Cardinality(ToolCallsOf(c)')
               /\ \/ Cardinality(NearCallsOf(c)') <= toolCount'[c]
                  \/ \E u \in {c} \cup RecountersOf(c)' : RefreshAwaits(u)'
    <3>1. CASE c = x
      BY <1>0, <1>2, <2>1, <2>2, <2>3, <3>1, CallsCounted
    <3>2. CASE c # x
      BY <1>2, <1>4, <2>3, <2>4, <3>2 DEF ToolCountsOwed
    <3>. QED
      BY <3>1, <3>2
  <2>5. \A t \in Span \ projected' : ptr'["chat"][t] = None /\ toolCount'[t] = 0
    BY <1>2 DEF ToolCountsOwed
  <2>. QED
    BY <2>4, <2>5 DEF ToolCountsOwed
<1>. QED
  BY <1>5, <1>6

\* x has a way up to turn c over spans that point at c.
WayUp(x, c) ==
  \E n \in Depths(x) : n > 0 /\ At(x, n) = c /\ \A j \in 1..(n - 1) : At(x, j) \in RecountersOf(c)

\* A span comes to point at the turn c it has a way up to: it was owed the
\* pointer, so one of the spans on the way is still to be refreshed.
LEMMA WayUpAwaits ==
  ASSUME Accountable, NEW x \in projected, NEW c \in projected, Kind[c] = "chat",
         "chat" \in ProjectionColumns(x), ptr["chat"][x] = None, WayUp(x, c)
  PROVE  \E u \in {c, x} \cup RecountersOf(c) : RefreshAwaits(u)
<1>0. projected \subseteq Span /\ \A s \in projected : row[s] = "real"
  BY DEF Accountable, Trustworthy, TypeOK, TablesOK, RowsReal
<1>1. PICK n \in Depths(x) :
        n > 0 /\ At(x, n) = c /\ \A j \in 1..(n - 1) : At(x, j) \in RecountersOf(c)
  BY DEF WayUp
<1>2. n \in Nat
  BY DEF Depths
<1>3. \A j \in 0..n : At(x, j) \in {c, x} \cup RecountersOf(c)
  BY <1>1, <1>2 DEF At
<1>4. RecountersOf(c) \subseteq projected
  BY DEF RecountersOf
<1>5. Linkable(x, "chat", n)
  <2>1. "chat" \in Slots(x) /\ Source(x, "chat", n)
    BY <1>1 DEF Slots, Source, Wanted
  <2>2. RealPath(x, n)
    BY <1>0, <1>3, <1>4 DEF RealPath
  <2>. QED
    BY <1>1, <2>1, <2>2 DEF Linkable
<1>6. PICK j \in 0..n : FillAwaits(At(x, j), x, "chat")
  BY <1>0, <1>5 DEF Accountable, LinksOwed, Held, Slot, Column
<1>7. RefreshAwaits(At(x, j))
  BY <1>6, NothingLeft DEF FillAwaits, RefreshAwaits
<1>. QED
  BY <1>3, <1>7

\* Calls that were not near come near only over a new span on their way.
LEMMA NearGrows ==
  ASSUME TypeOK, NEW c, NEW x \in projected, projected' = projected, c # None,
         \A s \in Span \ {x} : ptr'["chat"][s] = ptr["chat"][s],
         ~ WayUp(x, c)'
  PROVE  NearCallsOf(c)' \subseteq NearCallsOf(c)
<1>1. projected \subseteq Span
  BY DEF TypeOK, TablesOK
<1>2. \A u \in RecountersOf(c)' : u # x => u \in RecountersOf(c)
  BY <1>1 DEF RecountersOf
<1>. SUFFICES ASSUME NEW t \in NearCallsOf(c)'
              PROVE  t \in NearCallsOf(c)
  OBVIOUS
<1>3. t \in ToolCallsOf(c)' /\ t \in Span /\ t \in projected
  BY <1>1 DEF NearCallsOf, ToolCallsOf
<1>4. PICK i \in Depths(t) :
        i > 0 /\ At(t, i) = c /\ \A j \in 1..(i - 1) : At(t, j) \in RecountersOf(c)'
  BY DEF NearCallsOf
<1>5. t # x
  BY <1>4 DEF WayUp
<1>6. ASSUME NEW m \in 1..(i - 1)
      PROVE  At(t, m) # x
  <2>. SUFFICES ASSUME At(t, m) = x
                PROVE  FALSE
    OBVIOUS
  <2>0. Lineage[t] \in Seq(Span) /\ WalkDepth \in Nat
    BY <1>3, LineageAssumption, DepthAssumption
  <2>1. i \in Nat /\ m \in Depths(t) /\ i <= Len(Lineage[t]) /\ i <= WalkDepth
        /\ Len(Lineage[t]) \in Nat /\ WalkDepth \in Nat
    BY <2>0 DEF Depths
  <2>2. /\ Len(Lineage[x]) = Len(Lineage[t]) - m
        /\ \A n \in 0..(Len(Lineage[t]) - m) : At(x, n) = At(t, m + n)
    BY <1>3, <2>1, LineageAbove
  <2>3. i - m \in Depths(x) /\ i - m > 0
    BY <2>1, <2>2 DEF Depths
  <2>4. At(x, i - m) = c
    BY <1>4, <2>1, <2>2
  <2>5. \A j \in 1..((i - m) - 1) : At(x, j) \in RecountersOf(c)'
    <3>. TAKE j \in 1..((i - m) - 1)
    <3>1. m + j \in 1..(i - 1) /\ At(x, j) = At(t, m + j)
      BY <2>1, <2>2
    <3>. QED
      BY <1>4, <3>1
  <2>. QED
    BY <2>3, <2>4, <2>5 DEF WayUp
<1>7. t \in ToolCallsOf(c)
  BY <1>3, <1>5 DEF ToolCallsOf
<1>. QED
  BY <1>2, <1>4, <1>6, <1>7 DEF NearCallsOf

\* A span that comes to point at its turn: if that brings tool calls near the
\* turn, some span that recounts it is still to be refreshed.
LEMMA ToolCountsFill ==
  ASSUME Accountable, ToolCountsOwed, NEW w \in Worker, ApplyToProjection(w)
  PROVE  ToolCountsOwed'
<1>0. job[w].target \in Span
  BY AccountableTypes DEF ApplyToProjection, Active, Resolving
<1>. PICK x \in Span : x = job[w].target
  BY <1>0
<1>1. /\ OthersStay(w) /\ TypeOK /\ pc[w] = "apply"
      /\ projected \subseteq Span
  BY AccountableTypes, StepOthers DEF ApplyToProjection, Step, TypeOK, TablesOK
<1>2. UNCHANGED <<projected, toolCount, landed, row>> /\ pc'[w] = "apply_hooks"
  BY <1>1 DEF ApplyToProjection, Goto, history, spanTable, TypeOK, CallsOK
<1>3. \A s \in Span :
        ptr'["chat"][s] = IF s = x /\ "chat" \in ProjectionColumns(x)
                          THEN Coalesce(ptr["chat"][s], job[w].found["chat"])
                          ELSE ptr["chat"][s]
  BY <1>1, FillInWrites DEF ApplyToProjection, Table, Column
<1>4. \A u : RefreshAwaits(u) => RefreshAwaits(u)'
  BY <1>1, <1>2, RefreshKept
<1>5. CASE \A s \in Span : ptr'["chat"][s] = ptr["chat"][s]
  BY <1>2, <1>4, <1>5, ToolCountsRest
<1>6. CASE ~ \A s \in Span : ptr'["chat"][s] = ptr["chat"][s]
  <2>1. /\ "chat" \in ProjectionColumns(x) /\ ptr["chat"][x] = None
        /\ ptr'["chat"][x] = job[w].found["chat"] /\ job[w].found["chat"] # None
        /\ \A s \in Span \ {x} : ptr'["chat"][s] = ptr["chat"][s]
    BY <1>3, <1>6 DEF Coalesce
  <2>2. x \in projected /\ Kind[x] \in {"execute_tool", "external_tool"}
    BY <2>1 DEF ProjectionColumns
  <2>3. ASSUME NEW c \in projected, Kind[c] = "chat"
        PROVE  /\ toolCount[c] <= Cardinality(ToolCallsOf(c)')
               /\ \/ Cardinality(NearCallsOf(c)') <= toolCount[c]
                  \/ \E u \in {c} \cup RecountersOf(c)' : RefreshAwaits(u)'
    <3>0. c # None /\ c \in Span
      BY <1>1, <2>3, NoneAssumption
    <3>1. ToolCallsOf(c) \subseteq ToolCallsOf(c)' /\ RecountersOf(c) \subseteq RecountersOf(c)'
      BY <1>1, <1>2, <2>1, <3>0 DEF ToolCallsOf, RecountersOf
    <3>2. ToolCallsOf(c)' \subseteq Span
      BY <1>1, <1>2 DEF ToolCallsOf
    <3>3. IsFiniteSet(ToolCallsOf(c)') /\ Cardinality(ToolCallsOf(c)') \in Nat
      BY <3>2, SpanAssumption, FS_Subset, CountType
    <3>4. toolCount[c] \in Nat /\ toolCount[c] <= Cardinality(ToolCallsOf(c))
      BY <1>1, <2>3, <3>0 DEF ToolCountsOwed, TypeOK, TablesOK
    <3>5. toolCount[c] <= Cardinality(ToolCallsOf(c)')
      <4>1. Cardinality(ToolCallsOf(c)) <= Cardinality(ToolCallsOf(c)')
        BY <3>1, <3>3, FS_Subset
      <4>2. Cardinality(ToolCallsOf(c)) \in Nat
        BY <1>1, CallsCounted
      <4>. QED
        BY <3>3, <3>4, <4>1, <4>2
    <3>6. CASE ptr'["chat"][x] = c /\ WayUp(x, c)'
      <4>1. WayUp(x, c)
        <5>1. PICK n \in Depths(x) :
                n > 0 /\ At(x, n) = c /\ \A j \in 1..(n - 1) : At(x, j) \in RecountersOf(c)'
          BY <3>6 DEF WayUp
        <5>2. ASSUME NEW j \in 1..(n - 1)
              PROVE  At(x, j) \in RecountersOf(c)
          <6>1. j \in 1..Len(Lineage[x])
            BY <1>1, <5>1, LineageAssumption DEF Depths
          <6>2. At(x, j) # x
            BY <1>1, <6>1, NoCycle
          <6>. QED
            BY <1>1, <1>2, <2>1, <5>1, <6>2 DEF RecountersOf
        <5>. QED
          BY <5>1, <5>2 DEF WayUp
      <4>2. PICK u \in {c, x} \cup RecountersOf(c) : RefreshAwaits(u)
        BY <2>1, <2>2, <2>3, <4>1, WayUpAwaits
      <4>3. x \in RecountersOf(c)'
        BY <1>2, <2>2, <3>6 DEF RecountersOf
      <4>. QED
        BY <1>4, <3>1, <3>5, <4>2, <4>3
    <3>7. CASE ~ (ptr'["chat"][x] = c /\ WayUp(x, c)')
      <4>1. NearCallsOf(c)' \subseteq NearCallsOf(c)
        <5>1. CASE ~ WayUp(x, c)'
          BY <1>1, <1>2, <2>1, <2>2, <3>0, <5>1, NearGrows
        <5>2. CASE ptr'["chat"][x] # c
          <6>1. \A s \in projected' :
                  (ptr'["chat"][s] = c) <=> (s \in projected /\ ptr["chat"][s] = c)
            BY <1>1, <1>2, <2>1, <3>0, <5>2
          <6>. QED
            BY <1>1, <1>2, <6>1, NearSame
        <5>. QED
          BY <3>7, <5>1, <5>2
      <4>2. Cardinality(NearCallsOf(c)') <= Cardinality(NearCallsOf(c))
        <5>1. IsFiniteSet(NearCallsOf(c))
          BY <1>1, CallsCounted, FS_Subset
        <5>. QED
          BY <4>1, <5>1, FS_Subset
      <4>3. /\ Cardinality(NearCallsOf(c)) \in Nat /\ NearCallsOf(c) \subseteq Span
        BY <1>1, CallsCounted
      <4>4. Cardinality(NearCallsOf(c)') \in Nat
        BY <4>1, <4>3, CountType
      <4>5. \/ Cardinality(NearCallsOf(c)) <= toolCount[c]
            \/ \E u \in {c} \cup RecountersOf(c) : RefreshAwaits(u)
        BY <2>3 DEF ToolCountsOwed
      <4>. QED
        BY <1>4, <3>1, <3>4, <3>5, <4>2, <4>3, <4>4, <4>5
    <3>. QED
      BY <3>6, <3>7
  <2>4. \A t \in Span \ projected : ptr'["chat"][t] = None /\ toolCount[t] = 0
    BY <2>1, <2>2 DEF ToolCountsOwed
  <2>. QED
    BY <1>2, <2>3, <2>4 DEF ToolCountsOwed
<1>. QED
  BY <1>5, <1>6

\* A refresh counts anew what its span could have left stale.
LEMMA ToolCountsRefresh ==
  ASSUME Accountable, ToolCountsOwed, NEW w \in Worker, RefreshToolCount(w)
  PROVE  ToolCountsOwed'
<1>1. OthersStay(w) /\ TypeOK
  BY StepOthers DEF Accountable, Trustworthy, Step
<1>2. projected \subseteq Span /\ UNCHANGED <<projected, ptr, landed, job>>
  BY <1>1 DEF RefreshToolCount, history, TypeOK, TablesOK
<1>3. \A c \in Span :
        toolCount'[c] = IF c \in ChatTurnsOf(job[w].span) THEN Cardinality(ToolCallsOf(c))
                        ELSE toolCount[c]
  BY DEF RefreshToolCount
<1>4. \A c : /\ ToolCallsOf(c)' = ToolCallsOf(c) /\ RecountersOf(c)' = RecountersOf(c)
             /\ NearCallsOf(c)' = NearCallsOf(c)
  BY <1>1, <1>2, NearSame
<1>5. ASSUME NEW u \in Span, RefreshAwaits(u), u # job[w].span
      PROVE  RefreshAwaits(u)'
  BY <1>1, <1>2, <1>5 DEF RefreshAwaits, OthersStay, Active
<1>6. ASSUME NEW c \in projected, Kind[c] = "chat", c \notin ChatTurnsOf(job[w].span)
      PROVE  job[w].span \notin {c} \cup RecountersOf(c)
  BY <1>6 DEF ChatTurnsOf, RecountersOf
<1>7. \A c \in projected : {c} \cup RecountersOf(c) \subseteq Span
  BY <1>2 DEF RecountersOf
<1>8. ASSUME NEW c \in projected, Kind[c] = "chat"
      PROVE  /\ toolCount'[c] <= Cardinality(ToolCallsOf(c))
             /\ \/ Cardinality(NearCallsOf(c)) <= toolCount'[c]
                \/ \E u \in {c} \cup RecountersOf(c) : RefreshAwaits(u)'
  <2>1. CASE c \in ChatTurnsOf(job[w].span)
    BY <1>1, <1>2, <1>3, <2>1, CallsCounted
  <2>2. CASE c \notin ChatTurnsOf(job[w].span)
    BY <1>2, <1>3, <1>5, <1>6, <1>7, <1>8, <2>2 DEF ToolCountsOwed
  <2>. QED
    BY <2>1, <2>2
<1>9. \A t \in Span \ projected : ptr["chat"][t] = None /\ toolCount'[t] = 0
  BY <1>3 DEF ToolCountsOwed, ChatTurnsOf
<1>. QED
  BY <1>2, <1>4, <1>8, <1>9 DEF ToolCountsOwed

LEMMA ToolCountsNext ==
  ASSUME Accountable, ToolCountsOwed, [Next]_vars
  PROVE  ToolCountsOwed'
<1>1. TypeOK
  BY DEF Accountable, Trustworthy
<1>2. ASSUME NEW w \in Worker, Announce(w)
      PROVE  ToolCountsOwed'
  <2>1. OthersStay(w) /\ pc'[w] = "idle" /\ pc[w] = "announce"
    BY <1>1, <1>2, StepOthers DEF Announce, Goto, Step, TypeOK, CallsOK
  <2>2. UNCHANGED <<projected, toolCount, ptr>> /\ landed' = landed \cup {job[w].span}
    BY <1>2 DEF Announce, projections
  <2>3. ASSUME NEW u, RefreshAwaits(u)
        PROVE  RefreshAwaits(u)'
    BY <2>1, <2>2, <2>3 DEF RefreshAwaits, OthersStay, Active
  <2>. QED
    BY <2>2, <2>3, ToolCountsRest
<1>3. ASSUME NEW w \in Worker, ApplyToHooks(w)
      PROVE  ToolCountsOwed'
  <2>1. /\ OthersStay(w) /\ pc[w] = "apply_hooks" /\ job[w] \in Job
        /\ job[w].target \in Span
    <3>1. OthersStay(w)
      BY <1>1, <1>3, StepOthers DEF Step
    <3>2. pc[w] = "apply_hooks"
      BY <1>3 DEF ApplyToHooks
    <3>. QED
      BY <3>1, <3>2, AccountableTypes DEF Resolving
  <2>2. UNCHANGED <<projected, toolCount, landed>>
    BY <1>3 DEF ApplyToHooks, history
  <2>3. pc'[w] # "announce"
    BY <1>1, <1>3, <2>1 DEF ApplyToHooks, Goto, AfterResolve, Job, TypeOK, CallsOK
  <2>4. \A s \in Span : ptr'["chat"][s] = ptr["chat"][s]
    <3>1. FillIn(w, "hook", HookColumns(job[w].target), hooked)
      BY <1>3 DEF ApplyToHooks
    <3>2. "hook" \in Table /\ "chat" \in Column /\ "chat" \notin HookColumns(job[w].target)
      BY DEF Table, Column, HookColumns, HookColumn
    <3>. QED
      BY <1>1, <2>1, <3>1, <3>2, FillInWrites
  <2>. QED
    BY <2>1, <2>2, <2>3, <2>4, RefreshKept, ToolCountsRest
<1>4. CASE UNCHANGED vars
  <2>1. \A u : RefreshAwaits(u) => RefreshAwaits(u)'
    BY <1>4 DEF RefreshAwaits, Active, vars, history
  <2>. QED
    BY <1>4, <2>1, ToolCountsRest DEF vars, tables, projections
<1>. QED
  BY <1>2, <1>3, <1>4, ToolCountsQuiet, ToolCountsInsert, ToolCountsFill, ToolCountsRefresh
     DEF Next, SteadyNext, Step

\* Once every real span has landed, the tool_call_count of a turn counts each
\* tool call under it that points at it and has only tool calls in between that do
\* too, and none that does not point at it, however calls interleave, repeat or
\* fail: a pointer that brings such a call to the turn is filled while a span on the
\* way is still to reach refresh_chat_turn_tool_count_for_span.
THEOREM NearCallsCounted == Spec => []TurnsRecounted
<1>1. Init => ToolCountsOwed
  BY DEF Init, ToolCountsOwed, Column
<1>2. Accountable /\ ToolCountsOwed => TurnsRecounted
  <2>. SUFFICES ASSUME Accountable, ToolCountsOwed, Quiescent, AllLanded,
                       NEW c \in projected, Kind[c] = "chat"
                PROVE  /\ Cardinality(NearCallsOf(c)) <= toolCount[c]
                       /\ toolCount[c] <= Cardinality(ToolCallsOf(c))
    BY DEF TurnsRecounted, Complete
  <2>1. projected \subseteq Span /\ \A s \in projected : s \in landed
    BY DEF Accountable, Trustworthy, TypeOK, TablesOK, RowsReal, AllLanded
  <2>2. {c} \cup RecountersOf(c) \subseteq projected
    BY DEF RecountersOf
  <2>. QED
    BY <2>1, <2>2 DEF ToolCountsOwed, RefreshAwaits
<1>3. Accountable /\ ToolCountsOwed /\ [Next]_vars => ToolCountsOwed'
  BY ToolCountsNext
<1>. QED
  BY <1>1, <1>2, <1>3, AlwaysAccountable, PTL DEF Spec

-----------------------------------------------------------------------------
(* Pairs.                                                                  *)

\* Steps that write no pair: the call is not one for t, or still before the
\* statement that pairs t.
LEMMA PairsRest ==
  ASSUME PairsOwed, NEW w \in Worker, OthersStay(w), UNCHANGED <<projected, paired>>,
         crossed \subseteq crossed', MateExact(w)',
         \A t \in projected : PairAwaits(t) /\ Kind[t] = "execute_tool" => PairAwaits(t)'
  PROVE  PairsOwed'
<1>1. \A e, m : Mate(e, m) => Mate(e, m)'
  BY DEF Mate
<1>2. ASSUME NEW v \in Worker, v # w
      PROVE  MateExact(v)'
  <2>1. MateExact(v) /\ job'[v] = job[v] /\ pc'[v] = pc[v]
    BY <1>2 DEF PairsOwed, OthersStay
  <2>. QED
    BY <1>1, <2>1 DEF MateExact, SameCall
<1>. QED
  BY <1>1, <1>2 DEF PairsOwed, SameCall

PairEarly == {"lookup", "upsert", "parent", "project", "pair"}

\* A call for t that is before its pairing stays so; a call for another span,
\* or one that is past its own, makes no difference to t.
LEMMA PairKept ==
  ASSUME NEW w \in Worker, OthersStay(w), NEW t, PairAwaits(t),
         \/ landed' = landed /\ pc'[w] \in PairEarly \cup {"idle"}
         \/ landed' = landed /\ job[w].span # t /\ job'[w].span = job[w].span
         \/ /\ landed' \subseteq landed \cup {job[w].span}
            /\ Active(w) /\ pc[w] \notin PairEarly
            /\ job'[w].span = job[w].span \/ ~ Active(w)'
  PROVE  PairAwaits(t)'
BY DEF OthersStay, PairAwaits, PairEarly, Active

LEMMA PairsEarly ==
  ASSUME Accountable, PairsOwed, NEW w \in Worker,
         \/ Lookup(w) \/ UpsertSpan(w) \/ EnsurePlaceholder(w)
         \/ Fail(w) \/ \E s \in Span : Receive(w, s)
  PROVE  PairsOwed'
<1>1. job \in [Worker -> Job] /\ DOMAIN pc = Worker /\ MateExact(w)
  BY DEF Accountable, Trustworthy, TypeOK, CallsOK, PairsOwed
<1>4. OthersStay(w)
  BY StepOthers DEF Accountable, Trustworthy, Step
<1>5. crossed \subseteq crossed'
  BY DEF Lookup, UpsertSpan, EnsurePlaceholder, Fail, Receive, history
<1>2. UNCHANGED <<projected, paired, landed>> /\ pc'[w] \in (PairEarly \ {"pair"}) \cup {"idle"}
  BY <1>1 DEF Lookup, UpsertSpan, EnsurePlaceholder, Fail, Receive, Goto, PairEarly, tables,
     history, projections
<1>3. MateExact(w)'
  <2>1. job'[w].mate = None
    <3>1. CASE Lookup(w)
      BY <1>1, <3>1 DEF Lookup, Job, MateExact
    <3>2. CASE UpsertSpan(w) \/ EnsurePlaceholder(w)
      BY <1>1, <3>2 DEF UpsertSpan, EnsurePlaceholder, MateExact
    <3>3. CASE Fail(w) \/ \E s \in Span : Receive(w, s)
      BY <1>1, <3>3 DEF Fail, Receive, NoJob
    <3>. QED
      BY <3>1, <3>2, <3>3
  <2>. QED
    BY <1>2, <2>1 DEF MateExact, PairEarly
<1>. QED
  BY <1>2, <1>3, <1>4, <1>5, PairKept, PairsRest

LEMMA PairsWalk ==
  ASSUME Accountable, PairsOwed, NEW w \in Worker, NEW t \in Span,
         WalkAncestors(w, t)
  PROVE  PairsOwed'
<1>. DEFINE f == NearestAncestors(t)
            c == NearestConversation(t)
            j == [job[w] EXCEPT !.target = t, !.todo = @ \ {t}, !.found = f,
                                !.foundConv = c]
<1>1. job \in [Worker -> Job] /\ pc \in [Worker -> Statement] /\ MateExact(w)
  BY DEF Accountable, Trustworthy, TypeOK, CallsOK, PairsOwed
<1>2. /\ job' = [job EXCEPT ![w] = j] /\ pc' = [pc EXCEPT ![w] = "apply"]
      /\ pc[w] \in {"walk", "next"}
  BY DEF WalkAncestors, Goto
<1>3. UNCHANGED <<projected, paired, landed, crossed>>
  BY DEF WalkAncestors, tables, history, projections
<1>6. OthersStay(w)
  BY StepOthers DEF Accountable, Trustworthy, Step
<1>. HIDE DEF f, c
<1>4. job'[w].span = job[w].span /\ job'[w].mate = job[w].mate
  BY <1>1, <1>2 DEF Job
<1>5. MateExact(w)'
  BY <1>1, <1>2, <1>3, <1>4 DEF MateExact
<1>. QED
  BY <1>1, <1>2, <1>3, <1>4, <1>5, <1>6, PairKept, PairsRest DEF Active, PairEarly

LEMMA PairsLate ==
  ASSUME Accountable, PairsOwed, NEW w \in Worker,
         \/ ApplyToProjection(w) \/ ApplyToHooks(w)
         \/ ListDescendants(w) \/ ReadConversation(w) \/ UpsertSession(w)
         \/ RecountSession(w) \/ DeriveFromEvents(w) \/ RefreshToolCount(w)
         \/ Announce(w)
  PROVE  PairsOwed'
<1>1. job \in [Worker -> Job] /\ pc \in [Worker -> Statement] /\ MateExact(w)
  BY DEF Accountable, Trustworthy, TypeOK, CallsOK, PairsOwed
<1>6. OthersStay(w)
  BY StepOthers DEF Accountable, Trustworthy, Step
<1>2. CASE ListDescendants(w) \/ ReadConversation(w)
  <2>1. /\ UNCHANGED <<projected, paired, landed, crossed>> /\ pc'[w] \notin {"insert", "pair"}
        /\ Active(w) /\ pc[w] \notin PairEarly \cup {"insert"}
    BY <1>1, <1>2 DEF ListDescendants, ReadConversation, Goto, Active, PairEarly, tables,
       history, projections
  <2>2. job'[w].span = job[w].span /\ job'[w].mate = job[w].mate
    BY <1>1, <1>2 DEF ListDescendants, ReadConversation, Job
  <2>3. MateExact(w)'
    BY <1>1, <2>1, <2>2 DEF MateExact
  <2>. QED
    BY <1>6, <2>1, <2>2, <2>3, PairKept, PairsRest
<1>3. CASE ApplyToProjection(w) \/ ApplyToHooks(w)
  <2>1. /\ UNCHANGED <<projected, paired, landed, crossed>>
        /\ Active(w) /\ pc[w] \notin PairEarly \cup {"insert"}
    BY <1>1, <1>3 DEF ApplyToProjection, ApplyToHooks, Active, PairEarly, history
  <2>2. pc'[w] \notin {"insert", "pair"}
    BY <1>1, <1>3, AfterType DEF ApplyToProjection, ApplyToHooks, Goto, AfterResolve
  <2>3. job'[w].span = job[w].span /\ job'[w].mate = job[w].mate
    BY <1>1, <1>3 DEF ApplyToProjection, ApplyToHooks, Job
  <2>4. MateExact(w)'
    BY <1>1, <2>1, <2>2, <2>3 DEF MateExact
  <2>. QED
    BY <1>6, <2>1, <2>3, <2>4, PairKept, PairsRest
<1>4. CASE UpsertSession(w) \/ RecountSession(w) \/ DeriveFromEvents(w)
           \/ RefreshToolCount(w)
  <2>1. /\ UNCHANGED <<projected, paired, landed, crossed>> /\ pc'[w] \notin {"insert", "pair"}
        /\ Active(w) /\ pc[w] \notin PairEarly \cup {"insert"}
    BY <1>1, <1>4 DEF UpsertSession, RecountSession, DeriveFromEvents, RefreshToolCount,
       Goto, Active, PairEarly, tables, history, projections
  <2>2. job'[w].span = job[w].span /\ job'[w].mate = job[w].mate
    BY <1>1, <1>4 DEF UpsertSession, RecountSession, DeriveFromEvents, RefreshToolCount, Job,
       history
  <2>3. MateExact(w)'
    BY <1>1, <2>1, <2>2 DEF MateExact
  <2>. QED
    BY <1>6, <2>1, <2>2, <2>3, PairKept, PairsRest
<1>5. CASE Announce(w)
  <2>1. /\ UNCHANGED <<projected, paired, crossed>> /\ landed' = landed \cup {job[w].span}
        /\ Active(w) /\ pc[w] \notin PairEarly /\ pc'[w] = "idle" /\ job'[w] = NoJob
    BY <1>1, <1>5 DEF Announce, Goto, Active, PairEarly, projections
  <2>2. MateExact(w)'
    BY <2>1 DEF MateExact, NoJob
  <2>. QED
    BY <1>6, <2>1, <2>2, PairKept, PairsRest DEF Active
<1>. QED
  BY <1>2, <1>3, <1>4, <1>5

\* The statements that lead to a projection row, but for those that pair.
LEMMA PairsProject ==
  ASSUME Accountable, PairsOwed, NEW w \in Worker,
         LookupToolCall(w) \/ SkipProjection(w) \/ UpsertAgentRunOrChatTurn(w)
  PROVE  PairsOwed'
<1>1. /\ job \in [Worker -> Job] /\ DOMAIN pc = Worker /\ MateExact(w) /\ Active(w)
      /\ projected \subseteq Span
  BY DEF Accountable, Trustworthy, TypeOK, TablesOK, CallsOK, PairsOwed, Active,
     LookupToolCall, SkipProjection, UpsertAgentRunOrChatTurn
<1>8. OthersStay(w)
  BY StepOthers DEF Accountable, Trustworthy, Step
<1>2. UNCHANGED <<paired, landed, crossed>> /\ Kind[job[w].span] # "execute_tool"
  BY DEF LookupToolCall, SkipProjection, UpsertAgentRunOrChatTurn, tables, history,
     projections
<1>3. job'[w].span = job[w].span
  BY <1>1 DEF LookupToolCall, SkipProjection, UpsertAgentRunOrChatTurn, Job
<1>4. \A t \in Span : PairAwaits(t) /\ Kind[t] = "execute_tool" => PairAwaits(t)'
  BY <1>2, <1>3, <1>8, PairKept
<1>5. CASE LookupToolCall(w)
  <2>1. UNCHANGED projected /\ pc'[w] = "insert" /\ job[w].mate = None
    BY <1>1, <1>5 DEF LookupToolCall, Goto, tables, projections, MateExact
  <2>2. MateExact(w)'
    <3>. DEFINE matches == {t \in projected : /\ Kind[t] = "execute_tool"
                                              /\ CallAttr[t] = CallAttr[job[w].span]}
    <3>1. CASE CallAttr[job[w].span] = None \/ matches = {}
      <4>1. job' = job
        BY <1>5, <3>1 DEF LookupToolCall
      <4>. QED
        BY <2>1, <3>1, <4>1 DEF MateExact, SameCall
    <3>2. CASE ~ (CallAttr[job[w].span] = None \/ matches = {})
      <4>1. PICK m \in matches : job' = [job EXCEPT ![w].mate = m]
        BY <1>5, <3>2 DEF LookupToolCall
      <4>2. job'[w].mate = m /\ m # None /\ Mate(job[w].span, m)'
        BY <1>1, <2>1, <4>1, NoneAssumption DEF Mate, Job
      <4>. QED
        BY <1>3, <2>1, <4>2 DEF MateExact
    <3>. QED
      BY <3>1, <3>2
  <2>. QED
    BY <1>1, <1>2, <1>4, <1>8, <2>1, <2>2, PairsRest
<1>6. CASE SkipProjection(w)
  <2>1. UNCHANGED projected /\ pc'[w] = "walk" /\ job'[w].mate = None
    BY <1>1, <1>6 DEF SkipProjection, Goto, tables, projections, MateExact, Job
  <2>2. MateExact(w)'
    BY <2>1 DEF MateExact
  <2>. QED
    BY <1>1, <1>2, <1>4, <1>8, <2>1, <2>2, PairsRest
<1>7. CASE UpsertAgentRunOrChatTurn(w)
  <2>1. /\ projected' = projected \cup {job[w].span} /\ pc'[w] = "walk"
        /\ job'[w].mate = None /\ Kind[job[w].span] \in {"invoke_agent", "chat"}
    BY <1>1, <1>7 DEF UpsertAgentRunOrChatTurn, InsertProjection, Goto, MateExact, Job
  <2>3. \A e, m : Mate(e, m) => Mate(e, m)'
    BY <2>1 DEF Mate
  <2>4. \A e, t \in projected' : SameCall(e, t) => e \in projected /\ t \in projected
    BY <2>1 DEF SameCall
  <2>5. \A e : \A t \in projected' : SameCall(e, t) => t \in projected /\ Kind[t] = "execute_tool"
    BY <2>1 DEF SameCall
  <2>2. ASSUME NEW v \in Worker
        PROVE  MateExact(v)'
    <3>1. CASE v = w
      BY <2>1, <3>1 DEF MateExact
    <3>2. CASE v # w
      <4>1. MateExact(v) /\ job'[v] = job[v] /\ pc'[v] = pc[v]
        BY <1>8, <3>2 DEF PairsOwed, OthersStay
      <4>. QED
        BY <1>1, <1>2, <1>4, <2>1, <2>3, <2>5, <4>1 DEF MateExact, SameCall
    <3>. QED
      BY <3>1, <3>2
  <2>. QED
    BY <1>1, <1>2, <1>4, <2>2, <2>3, <2>4 DEF PairsOwed, SameCall
<1>. QED
  BY <1>5, <1>6, <1>7

\* A tool call enters its row and has still to pair the external calls.
LEMMA PairsToolCall ==
  ASSUME Accountable, PairsOwed, NEW w \in Worker, UpsertToolCall(w)
  PROVE  PairsOwed'
<1>1. /\ job \in [Worker -> Job] /\ DOMAIN pc = Worker /\ MateExact(w)
      /\ projected \subseteq Span
  BY DEF Accountable, Trustworthy, TypeOK, TablesOK, CallsOK, PairsOwed
<1>10. OthersStay(w)
  BY StepOthers DEF Accountable, Trustworthy, Step
<1>2. job[w].span \in Span
  BY AccountableTypes DEF UpsertToolCall, Active
<1>. PICK s \in Span : s = job[w].span
  BY <1>2
<1>3. /\ UNCHANGED <<paired, landed, crossed>> /\ Kind[s] = "execute_tool" /\ pc[w] = "project"
      /\ projected' = projected \cup {s}
      /\ pc'[w] = (IF CallAttr[s] # None THEN "pair" ELSE "walk")
  BY <1>1 DEF UpsertToolCall, InsertProjection, Goto, history
<1>4. job'[w].span = s /\ job'[w].mate = None
  BY <1>1, <1>3 DEF UpsertToolCall, Job, MateExact
<1>6. \A e, m : Mate(e, m) => Mate(e, m)'
  BY <1>3 DEF Mate
<1>7. ASSUME NEW t \in Span, PairAwaits(t), CallAttr[t] # None
      PROVE  PairAwaits(t)'
  BY <1>3, <1>4, <1>7, <1>10 DEF PairAwaits, OthersStay, Active
<1>8. s \notin projected /\ CallAttr[s] # None => PairAwaits(s)'
  <2>1. s \notin projected => s \notin landed
    BY <1>3 DEF Accountable, LandedWhole
  <2>2. ASSUME NEW v \in Worker, Active(v), job[v].span = s, s \notin projected
        PROVE  pc[v] \in {"lookup", "upsert", "parent", "project"}
    <3>1. InStep(v) /\ pc[v] \in Statement
      BY AccountableTypes
    <3>. QED
      BY <1>3, <2>2, <3>1 DEF InStep, Projected, Statement, Active
  <2>. QED
    BY <1>3, <1>10, <2>1, <2>2 DEF PairAwaits, OthersStay, Active
<1>5. ASSUME NEW v \in Worker
      PROVE  MateExact(v)'
  <2>1. CASE v = w
    BY <1>3, <1>4, <2>1 DEF MateExact
  <2>2. CASE v # w
    <3>1. MateExact(v) /\ job'[v] = job[v] /\ pc'[v] = pc[v]
      BY <1>10, <2>2 DEF PairsOwed, OthersStay
    <3>2. ASSUME NEW t \in projected', SameCall(job[v].span, t), pc[v] = "insert",
                 job[v].mate = None, job[v].span \notin projected'
          PROVE  PairAwaits(t)' \/ job[v].span \in crossed'
      BY <1>1, <1>3, <1>7, <1>8, <3>1, <3>2 DEF MateExact, SameCall
    <3>. QED
      BY <1>6, <3>1, <3>2 DEF MateExact, SameCall
  <2>. QED
    BY <2>1, <2>2
<1>9. ASSUME NEW e \in projected', NEW t \in projected', SameCall(e, t)
      PROVE  paired[e] # None \/ PairAwaits(t)' \/ e \in crossed
  <2>1. e \in projected /\ CallAttr[t] # None
    BY <1>3, <1>9 DEF SameCall
  <2>2. CASE t \in projected
    BY <1>1, <1>7, <1>9, <2>1, <2>2 DEF PairsOwed
  <2>3. CASE t \notin projected
    BY <1>3, <1>8, <2>1, <2>3
  <2>. QED
    BY <2>2, <2>3
<1>. QED
  BY <1>3, <1>5, <1>6, <1>9 DEF PairsOwed, SameCall

\* It pairs every external call of its call id that has no pair.
LEMMA PairsPair ==
  ASSUME Accountable, PairsOwed, NEW w \in Worker, PairExternalCalls(w)
  PROVE  PairsOwed'
<1>1. DOMAIN pc = Worker /\ MateExact(w) /\ projected \subseteq Span
  BY DEF Accountable, Trustworthy, TypeOK, TablesOK, CallsOK, PairsOwed
<1>9. OthersStay(w)
  BY StepOthers DEF Accountable, Trustworthy, Step
<1>2. job[w].span \in Span /\ InStep(w)
  BY AccountableTypes DEF PairExternalCalls, Active
<1>. PICK s \in Span : s = job[w].span
  BY <1>2
<1>3. /\ UNCHANGED <<projected, landed, job>> /\ pc[w] = "pair" /\ pc'[w] = "walk"
  BY <1>1 DEF PairExternalCalls, Goto
<1>10. crossed' = crossed \cup InsertUnderWay(CallAttr[s])
  BY DEF PairExternalCalls
<1>4. \A e \in Span :
        paired'[e] = IF /\ e \in projected
                        /\ Kind[e] = "external_tool"
                        /\ CallAttr[e] = CallAttr[s]
                     THEN Coalesce(paired[e], s) ELSE paired[e]
  BY DEF PairExternalCalls
<1>5. s \in projected
  BY <1>1, <1>2, <1>3 DEF InStep, Projected, Statement, MateExact
<1>11. ASSUME NEW t, PairAwaits(t), t # s
       PROVE  PairAwaits(t)'
  BY <1>3, <1>9, <1>11, PairKept
<1>6. ASSUME NEW v \in Worker
      PROVE  MateExact(v)'
  <2>1. CASE v = w
    BY <1>1, <1>3, <2>1 DEF MateExact
  <2>2. CASE v # w
    <3>1. MateExact(v) /\ job'[v] = job[v] /\ pc'[v] = pc[v]
      BY <1>9, <2>2 DEF PairsOwed, OthersStay
    <3>2. ASSUME NEW t \in projected, SameCall(job[v].span, t), pc[v] = "insert",
                 job[v].mate = None, job[v].span \notin projected
          PROVE  PairAwaits(t)' \/ job[v].span \in crossed'
      <4>1. CASE t = s
        <5>1. job[v].span \in Span /\ CallAttr[job[v].span] = CallAttr[s]
          BY <3>2, <4>1, AccountableTypes DEF SameCall, Active
        <5>2. job[v].span \in InsertUnderWay(CallAttr[s])
          BY <3>2, <5>1 DEF InsertUnderWay
        <5>. QED
          BY <1>10, <5>2
      <4>2. CASE t # s
        BY <1>10, <1>11, <3>1, <3>2, <4>2 DEF MateExact
      <4>. QED
        BY <4>1, <4>2
    <3>. QED
      BY <1>3, <3>1, <3>2 DEF MateExact, Mate, SameCall
  <2>. QED
    BY <2>1, <2>2
<1>7. ASSUME NEW e \in Span, paired'[e] # None
      PROVE  Mate(e, paired[e])'
  BY <1>3, <1>4, <1>5, <1>7 DEF PairsOwed, Mate, Coalesce
<1>8. ASSUME NEW e \in projected, NEW t \in projected, SameCall(e, t)
      PROVE  paired'[e] # None \/ PairAwaits(t)' \/ e \in crossed'
  <2>1. CASE paired[e] # None
    BY <1>1, <1>4, <2>1 DEF Coalesce
  <2>2. CASE t = s
    BY <1>1, <1>4, <1>8, <2>2, NoneAssumption DEF SameCall, Coalesce
  <2>3. CASE paired[e] = None /\ t # s
    BY <1>8, <1>10, <1>11, <2>3 DEF PairsOwed
  <2>. QED
    BY <2>1, <2>2, <2>3
<1>. QED
  BY <1>1, <1>3, <1>6, <1>7, <1>8 DEF PairsOwed, SameCall

\* An external call enters its row, paired with what it looked up.
LEMMA PairsExternal ==
  ASSUME Accountable, PairsOwed, NEW w \in Worker, UpsertExternalToolCall(w)
  PROVE  PairsOwed'
<1>1. /\ job \in [Worker -> Job] /\ DOMAIN pc = Worker /\ DOMAIN paired = Span
      /\ MateExact(w) /\ projected \subseteq Span
  BY DEF Accountable, Trustworthy, TypeOK, TablesOK, CallsOK, PairsOwed
<1>8. OthersStay(w)
  BY StepOthers DEF Accountable, Trustworthy, Step
<1>2. job[w].span \in Span /\ InStep(w)
  BY AccountableTypes DEF UpsertExternalToolCall, Active
<1>. PICK s \in Span : s = job[w].span
  BY <1>2
<1>3. /\ UNCHANGED <<landed, crossed>> /\ pc[w] = "insert" /\ pc'[w] = "walk"
      /\ projected' = projected \cup {s} /\ Kind[s] = "external_tool"
      /\ paired' = [paired EXCEPT ![s] = Coalesce(@, job[w].mate)]
  BY <1>1, <1>2 DEF UpsertExternalToolCall, InsertProjection, Goto, history, InStep
<1>4. job'[w].span = s /\ job'[w].mate = None
  BY <1>1 DEF UpsertExternalToolCall, Job
<1>9. ASSUME NEW t, PairAwaits(t), t # s
      PROVE  PairAwaits(t)'
  BY <1>3, <1>4, <1>8, <1>9, PairKept
<1>5. ASSUME NEW v \in Worker
      PROVE  MateExact(v)'
  <2>1. CASE v = w
    BY <1>3, <1>4, <2>1 DEF MateExact
  <2>2. CASE v # w
    <3>1. MateExact(v) /\ job'[v] = job[v] /\ pc'[v] = pc[v]
      BY <1>8, <2>2 DEF PairsOwed, OthersStay
    <3>2. \A e : \A t \in projected' : SameCall(e, t) => t \in projected /\ t # s
      BY <1>3 DEF SameCall
    <3>. QED
      BY <1>3, <1>9, <3>1, <3>2 DEF MateExact, Mate, SameCall
  <2>. QED
    BY <2>1, <2>2
<1>6. ASSUME NEW e \in Span, paired'[e] # None
      PROVE  Mate(e, paired[e])'
  BY <1>1, <1>3, <1>6 DEF PairsOwed, Mate, Coalesce, MateExact
<1>7. ASSUME NEW e \in projected', NEW t \in projected', SameCall(e, t)
      PROVE  paired'[e] # None \/ PairAwaits(t)' \/ e \in crossed
  <2>1. t \in projected /\ e \in Span /\ t # s
    BY <1>1, <1>3, <1>7 DEF SameCall
  <2>2. CASE e = s
    <3>1. CASE s \in projected
      BY <1>1, <1>3, <1>7, <1>9, <2>1, <2>2, <3>1 DEF PairsOwed, Coalesce
    <3>2. CASE s \notin projected
      BY <1>1, <1>3, <1>7, <1>9, <2>1, <2>2, <3>2 DEF MateExact, Coalesce
    <3>. QED
      BY <3>1, <3>2
  <2>3. CASE e # s /\ paired[e] # None
    BY <1>1, <1>3, <2>1, <2>3
  <2>4. CASE e # s /\ paired[e] = None
    BY <1>3, <1>7, <1>9, <2>1, <2>4 DEF PairsOwed
  <2>. QED
    BY <2>2, <2>3, <2>4
<1>. QED
  BY <1>1, <1>3, <1>5, <1>6, <1>7 DEF PairsOwed, SameCall

LEMMA PairsNext ==
  ASSUME Accountable, PairsOwed, [Next]_vars
  PROVE  PairsOwed'
<1>1. CASE UNCHANGED vars
  BY <1>1 DEF PairsOwed, MateExact, Mate, PairAwaits, Active, vars, tables, history,
     projections
<1>. QED
  BY <1>1, PairsEarly, PairsLate, PairsWalk, PairsProject, PairsToolCall, PairsPair,
     PairsExternal DEF Next, SteadyNext, Step

\* Once every real span has landed, an external tool call is paired with a tool
\* call of its call id, however calls interleave, repeat or fail, unless the tool
\* call paired its external calls between the external call's look and its insert:
\* the tool call finds it by call id, or it finds the tool call.
THEOREM PairsComplete == Spec => []PairedUp
<1>1. Init => PairsOwed
  BY DEF Init, PairsOwed, MateExact, NoJob
<1>2. Accountable /\ PairsOwed => PairedUp
  <2>. SUFFICES ASSUME Accountable, PairsOwed, Quiescent, AllLanded,
                       NEW e \in projected, NEW t \in projected, SameCall(e, t)
                PROVE  \/ paired[e] \in projected /\ CallAttr[paired[e]] = CallAttr[e]
                       \/ e \in crossed
    BY DEF PairedUp, SameCall, Complete
  <2>1. e \in Span /\ t \in landed
    BY DEF Accountable, Trustworthy, TypeOK, TablesOK, RowsReal, AllLanded
  <2>. QED
    BY <2>1 DEF PairsOwed, PairAwaits, Mate
<1>3. Accountable /\ PairsOwed /\ [Next]_vars => PairsOwed'
  BY PairsNext
<1>. QED
  BY <1>1, <1>2, <1>3, AlwaysAccountable, PTL DEF Spec

-----------------------------------------------------------------------------
(* Announcements.                                                          *)

\* What a call that did not move may rely on stays so, unless its span was
\* written under its eyes.
LEMMA ForetoldKept ==
  ASSUME Announced, NEW w \in Worker, OthersStay(w), UNCHANGED <<row, heard, sends>>,
         crossed \subseteq crossed', NEW v \in Worker \ {w}, Active(v),
         sends[job[v].span] <= 1
  PROVE  Foretold(v)'
<1>1. Foretold(v) /\ job'[v] = job[v] /\ pc'[v] = pc[v]
  BY DEF Announced, OthersStay
<1>. QED
  BY <1>1 DEF Foretold

\* Statements that write neither a row of spans nor the bus.
LEMMA AnnouncedSilent ==
  ASSUME Announced, NEW w \in Worker, OthersStay(w), UNCHANGED <<row, heard, sends>>,
         crossed \subseteq crossed',
         Active(w)' => Active(w) /\ job'[w].span = job[w].span
                       /\ (sends[job[w].span] <= 1 => Foretold(w)')
  PROVE  Announced'
<1>1. InsertMeansNew'
  BY DEF Announced, InsertMeansNew
<1>2. \A v \in Worker : Active(v)' => Active(v) /\ job'[v].span = job[v].span
  BY DEF OthersStay, Active
<1>3. ASSUME NEW v \in Worker, Active(v)', sends[job[v].span] <= 1
      PROVE  Foretold(v)'
  BY <1>2, <1>3, ForetoldKept
<1>. QED
  BY <1>1, <1>2, <1>3 DEF Announced

\* Statements past the upsert that tell the bus nothing.
LEMMA AnnouncedRest ==
  ASSUME Announced, NEW w \in Worker, OthersStay(w), UNCHANGED <<row, heard, sends>>,
         crossed \subseteq crossed',
         pc[w] \notin {"idle", "lookup", "upsert"},
         pc'[w] \notin {"lookup", "upsert"},
         pc'[w] # "idle" => job'[w].span = job[w].span /\ job'[w].prev = job[w].prev
  PROVE  Announced'
<1>1. Active(w) /\ (sends[job[w].span] <= 1 => Foretold(w))
  BY DEF Announced, Active
<1>2. Active(w)' /\ sends[job[w].span] <= 1 => Foretold(w)'
  BY <1>1 DEF Foretold, Active
<1>. QED
  BY <1>1, <1>2, AnnouncedSilent DEF Active

LEMMA AnnouncedWalk ==
  ASSUME Accountable, Announced, NEW w \in Worker, NEW t \in Span,
         WalkAncestors(w, t)
  PROVE  Announced'
<1>. DEFINE f == NearestAncestors(t)
            c == NearestConversation(t)
            j == [job[w] EXCEPT !.target = t, !.todo = @ \ {t}, !.found = f,
                                !.foundConv = c]
<1>1. job \in [Worker -> Job] /\ pc \in [Worker -> Statement]
  BY DEF Accountable, Trustworthy, TypeOK, CallsOK
<1>2. /\ job' = [job EXCEPT ![w] = j] /\ pc' = [pc EXCEPT ![w] = "apply"]
      /\ pc[w] \in {"walk", "next"}
  BY DEF WalkAncestors, Goto
<1>3. UNCHANGED <<row, heard, sends, crossed>>
  BY DEF WalkAncestors, tables, history, spanTable
<1>5. OthersStay(w)
  BY StepOthers DEF Accountable, Trustworthy, Step
<1>. HIDE DEF f, c
<1>4. job'[w].span = job[w].span /\ job'[w].prev = job[w].prev
  BY <1>1, <1>2 DEF Job
<1>. QED
  BY <1>1, <1>2, <1>3, <1>4, <1>5, AnnouncedRest

LEMMA AnnouncedQuiet ==
  ASSUME Accountable, Announced, NEW w \in Worker,
         \/ UpsertAgentRunOrChatTurn(w) \/ UpsertToolCall(w) \/ PairExternalCalls(w)
         \/ LookupToolCall(w) \/ UpsertExternalToolCall(w) \/ SkipProjection(w)
         \/ ApplyToProjection(w) \/ ApplyToHooks(w) \/ ListDescendants(w)
         \/ ReadConversation(w) \/ UpsertSession(w) \/ RecountSession(w)
         \/ DeriveFromEvents(w) \/ RefreshToolCount(w)
  PROVE  Announced'
<1>1. job \in [Worker -> Job] /\ pc \in [Worker -> Statement]
  BY DEF Accountable, Trustworthy, TypeOK, CallsOK
<1>7. OthersStay(w)
  BY StepOthers DEF Accountable, Trustworthy, Step
<1>8. crossed \subseteq crossed'
  BY DEF UpsertAgentRunOrChatTurn, UpsertToolCall, PairExternalCalls, LookupToolCall,
     UpsertExternalToolCall, SkipProjection, ApplyToProjection, ApplyToHooks,
     ListDescendants, ReadConversation, UpsertSession, RecountSession, DeriveFromEvents,
     RefreshToolCount, history
<1>2. CASE UpsertAgentRunOrChatTurn(w) \/ UpsertToolCall(w) \/ UpsertExternalToolCall(w)
  <2>1. /\ UNCHANGED <<row, heard, sends>> /\ pc[w] \in {"project", "insert"}
        /\ pc'[w] \in {"pair", "walk"}
    BY <1>1, <1>2 DEF UpsertAgentRunOrChatTurn, UpsertToolCall, UpsertExternalToolCall, Goto,
       history, spanTable
  <2>2. job'[w].span = job[w].span /\ job'[w].prev = job[w].prev
    BY <1>1, <1>2 DEF UpsertAgentRunOrChatTurn, UpsertToolCall, UpsertExternalToolCall, Job
  <2>. QED
    BY <1>7, <1>8, <2>1, <2>2, AnnouncedRest
<1>3. CASE PairExternalCalls(w) \/ LookupToolCall(w) \/ SkipProjection(w)
  <2>1. /\ UNCHANGED <<row, heard, sends>> /\ pc[w] \in {"pair", "project"}
        /\ pc'[w] \in {"walk", "insert"}
    BY <1>1, <1>3 DEF PairExternalCalls, LookupToolCall, SkipProjection, Goto, history,
       tables, spanTable
  <2>2. job'[w].span = job[w].span /\ job'[w].prev = job[w].prev
    BY <1>1, <1>3 DEF PairExternalCalls, LookupToolCall, SkipProjection, Job
  <2>. QED
    BY <1>7, <1>8, <2>1, <2>2, AnnouncedRest
<1>4. CASE ApplyToProjection(w) \/ ApplyToHooks(w)
  <2>1. UNCHANGED <<row, heard, sends>> /\ pc[w] \in {"apply", "apply_hooks"}
    BY <1>4 DEF ApplyToProjection, ApplyToHooks, history, spanTable
  <2>2. pc'[w] \in {"apply_hooks", "next", "forward", "refresh"}
    BY <1>1, <1>4, AfterType DEF ApplyToProjection, ApplyToHooks, Goto, AfterResolve
  <2>3. job'[w].span = job[w].span /\ job'[w].prev = job[w].prev
    BY <1>1, <1>4 DEF ApplyToProjection, ApplyToHooks, Job
  <2>. QED
    BY <1>7, <1>8, <2>1, <2>2, <2>3, AnnouncedRest
<1>5. CASE ListDescendants(w) \/ ReadConversation(w) \/ UpsertSession(w)
  <2>1. /\ UNCHANGED <<row, heard, sends>> /\ pc[w] \in {"forward", "next", "session"}
        /\ pc'[w] \in {"next", "session", "derive", "refresh", "count"}
    BY <1>1, <1>5 DEF ListDescendants, ReadConversation, UpsertSession, Goto, history,
       tables, spanTable
  <2>2. job'[w].span = job[w].span /\ job'[w].prev = job[w].prev
    BY <1>1, <1>5 DEF ListDescendants, ReadConversation, UpsertSession, Job, history
  <2>. QED
    BY <1>7, <1>8, <2>1, <2>2, AnnouncedRest
<1>6. CASE RecountSession(w) \/ DeriveFromEvents(w) \/ RefreshToolCount(w)
  <2>1. /\ UNCHANGED <<row, heard, sends>> /\ pc[w] \in {"count", "derive", "refresh"}
        /\ pc'[w] \in {"derive", "refresh", "walk", "announce"}
    BY <1>1, <1>6 DEF RecountSession, DeriveFromEvents, RefreshToolCount, Goto, history,
       spanTable
  <2>2. job'[w].span = job[w].span /\ job'[w].prev = job[w].prev
    BY <1>1, <1>6 DEF RecountSession, DeriveFromEvents, RefreshToolCount, Job, history
  <2>. QED
    BY <1>7, <1>8, <2>1, <2>2, AnnouncedRest
<1>. QED
  BY <1>2, <1>3, <1>4, <1>5, <1>6

\* A span arrives: the first time its row is not real, and no other call has it.
LEMMA AnnouncedReceive ==
  ASSUME Accountable, Announced, NEW w \in Worker, NEW s \in Span, Receive(w, s)
  PROVE  Announced'
<1>1. /\ DOMAIN pc = Worker /\ DOMAIN job = Worker /\ sends \in [Span -> Nat]
      /\ \A v \in Worker : Active(v) => job[v].span \in Span
  BY AccountableTypes DEF Accountable, Trustworthy, TypeOK, TablesOK, CallsOK
<1>2. /\ UNCHANGED <<row, heard, crossed>> /\ sends' = [sends EXCEPT ![s] = @ + 1]
      /\ pc'[w] = "lookup" /\ job'[w].span = s
  BY <1>1 DEF Receive, Goto, NoJob, tables, spanTable
<1>3. OthersStay(w)
  BY StepOthers DEF Accountable, Trustworthy
<1>4. \A x \in Span : sends'[x] # 0 /\ x # s => sends[x] # 0
  BY <1>1, <1>2
<1>5. sends'[s] # 0 /\ \A x \in Span : sends'[x] <= 1 => sends[x] <= 1
  BY <1>1, <1>2
<1>6. sends'[s] <= 1 => sends[s] = 0
  BY <1>1, <1>2
<1>7. InsertMeansNew'
  BY <1>2, <1>5 DEF Announced, InsertMeansNew
<1>8. ASSUME sends'[s] <= 1
      PROVE  /\ "insert" \notin heard[s] /\ Foretold(w)'
             /\ \A v \in Worker : Active(v) => job[v].span # s
  BY <1>2, <1>6, <1>8 DEF Announced, Foretold
<1>9. ASSUME NEW v \in Worker \ {w}, Active(v)
      PROVE  /\ job'[v] = job[v] /\ pc'[v] = pc[v] /\ sends'[job[v].span] # 0
             /\ sends'[job[v].span] <= 1 =>
                  /\ sends[job[v].span] <= 1 /\ job[v].span # s
                  /\ "insert" \notin heard[job[v].span] /\ Foretold(v)'
  <2>1. job'[v] = job[v] /\ pc'[v] = pc[v] /\ job[v].span \in Span /\ sends[job[v].span] # 0
    BY <1>1, <1>3, <1>9 DEF OthersStay, Announced
  <2>2. sends'[job[v].span] # 0
    BY <1>1, <1>2, <2>1
  <2>3. ASSUME sends'[job[v].span] <= 1
        PROVE  /\ sends[job[v].span] <= 1 /\ job[v].span # s
               /\ "insert" \notin heard[job[v].span] /\ Foretold(v)
    BY <1>5, <1>8, <1>9, <2>1, <2>3 DEF Announced
  <2>. QED
    BY <1>2, <2>1, <2>2, <2>3 DEF Foretold
<1>10. \A v \in Worker \ {w} : Active(v)' => Active(v)
  BY <1>3 DEF OthersStay, Active
<1>11. \A x \in Span : sends'[x] = 0 => sends[x] = 0
  BY <1>1, <1>2
<1>12. ASSUME NEW v \in Worker, Active(v)'
       PROVE  /\ sends'[job'[v].span] # 0
              /\ sends'[job'[v].span] <= 1 =>
                   /\ "insert" \notin heard'[job'[v].span]
                   /\ Foretold(v)'
                   /\ \A u \in Worker : Active(u)' /\ job'[u].span = job'[v].span => u = v
  <2>1. CASE v = w
    BY <1>2, <1>5, <1>8, <1>9, <1>10, <2>1
  <2>2. CASE v # w
    <3>1. Active(v) /\ job'[v] = job[v]
      BY <1>9, <1>10, <1>12, <2>2
    <3>2. ASSUME sends'[job[v].span] <= 1, NEW u \in Worker, Active(u)',
                 job'[u].span = job[v].span
          PROVE  u = v
      <4>1. u # w
        BY <1>2, <1>9, <2>2, <3>1, <3>2
      <4>2. Active(u) /\ job[u].span = job[v].span
        BY <1>9, <1>10, <3>2, <4>1
      <4>. QED
        BY <1>9, <2>2, <3>1, <3>2, <4>2 DEF Announced
    <3>. QED
      BY <1>2, <1>9, <2>2, <3>1, <3>2
  <2>. QED
    BY <2>1, <2>2
<1>. QED
  BY <1>2, <1>7, <1>11, <1>12 DEF Announced

LEMMA AnnouncedLookup ==
  ASSUME Accountable, Announced, NEW w \in Worker, Lookup(w)
  PROVE  Announced'
<1>1. job \in [Worker -> Job] /\ DOMAIN pc = Worker
  BY DEF Accountable, Trustworthy, TypeOK, CallsOK
<1>2. /\ UNCHANGED <<row, heard, sends, crossed>> /\ pc'[w] = "upsert" /\ pc[w] = "lookup"
      /\ job'[w].span = job[w].span /\ job'[w].prev = row[job[w].span]
  BY <1>1 DEF Lookup, Goto, Job, tables, history, spanTable
<1>3. sends[job[w].span] <= 1 => Foretold(w)'
  BY <1>2 DEF Announced, Foretold, Active
<1>4. OthersStay(w)
  BY StepOthers DEF Accountable, Trustworthy, Step
<1>. QED
  BY <1>2, <1>3, <1>4, AnnouncedSilent DEF Active

\* The row of the span is there, or its placeholder is, as the call has read.
LEMMA AnnouncedUpsert ==
  ASSUME Accountable, Announced, NEW w \in Worker, UpsertSpan(w)
  PROVE  Announced'
<1>1. row \in [Span -> RowState] /\ DOMAIN pc = Worker
  BY DEF Accountable, Trustworthy, TypeOK, TablesOK, CallsOK
<1>2. job[w].span \in Span
  BY AccountableTypes DEF UpsertSpan, Active
<1>. PICK s \in Span : s = job[w].span
  BY <1>2
<1>3. /\ UNCHANGED <<heard, sends, crossed, job>> /\ row' = [row EXCEPT ![s] = "real"]
      /\ pc[w] = "upsert" /\ pc'[w] \in {"parent", "project"}
  BY <1>1 DEF UpsertSpan, Goto, history
<1>4. OthersStay(w) /\ Active(w)
  BY <1>3, StepOthers DEF Accountable, Trustworthy, Step, Active
<1>5. sends[s] # 0 /\ \A x \in Span : x # s => row'[x] = row[x]
  BY <1>1, <1>3, <1>4 DEF Announced
<1>6. ASSUME sends[s] <= 1
      PROVE  Foretold(w)'
  <2>1. Foretold(w)
    BY <1>4, <1>6 DEF Announced
  <2>2. job[w].prev = "placeholder" \/ heard[s] = {} \/ s \in crossed
    BY <1>1, <1>3, <2>1 DEF Foretold, Announced, RowState
  <2>. QED
    BY <1>3, <2>2 DEF Foretold
<1>7. ASSUME NEW v \in Worker \ {w}, Active(v), sends[job[v].span] <= 1
      PROVE  Foretold(v)'
  <2>1. Foretold(v) /\ pc'[v] = pc[v] /\ job[v].span # s
    BY <1>4, <1>7 DEF Announced, OthersStay
  <2>2. row'[job[v].span] = row[job[v].span]
    BY <1>3, <2>1, <1>5, <1>7, AccountableTypes
  <2>. QED
    BY <1>3, <2>1, <2>2 DEF Foretold
<1>8. InsertMeansNew'
  BY <1>3 DEF Announced, InsertMeansNew
<1>9. \A v \in Worker : Active(v)' => Active(v)
  BY <1>4 DEF OthersStay, Active
<1>10. \A x \in Span : /\ row'[x] = "absent" => heard[x] = {}
                       /\ "insert" \in heard[x] => row'[x] = "real"
                       /\ sends[x] = 0 => row'[x] # "real"
  BY <1>1, <1>3, <1>5 DEF Announced
<1>. QED
  BY <1>3, <1>6, <1>7, <1>8, <1>9, <1>10 DEF Announced

\* A placeholder is inserted: a call for its span is still to look at the row, or
\* is between its look and its upsert.
LEMMA AnnouncedPlaceholder ==
  ASSUME Accountable, Announced, NEW w \in Worker, EnsurePlaceholder(w)
  PROVE  Announced'
<1>1. DOMAIN row = Span /\ DOMAIN heard = Span /\ DOMAIN pc = Worker
  BY DEF Accountable, Trustworthy, TypeOK, TablesOK, CallsOK
<1>2. UNCHANGED <<sends, job>> /\ pc[w] = "parent" /\ pc'[w] = "project" /\ OthersStay(w)
  BY <1>1, StepOthers DEF EnsurePlaceholder, Goto, Accountable, Trustworthy, Step
<1>3. job[w].span \in Span /\ row[job[w].span] = "real"
  BY <1>2, AccountableTypes DEF Active, Trusted, WorksOnReal
<1>. PICK p : p = Parent(job[w].span)
  OBVIOUS
<1>4. CASE row[p] = "absent" /\ p \in Span
  <2>1. /\ row' = [row EXCEPT ![p] = "placeholder"]
        /\ heard' = [heard EXCEPT ![p] = @ \cup {"placeholder"}]
        /\ crossed' = crossed \cup UpsertUnderWay(p)
    BY <1>4 DEF EnsurePlaceholder
  <2>2. heard[p] = {} /\ heard'[p] = {"placeholder"} /\ row'[p] = "placeholder"
    BY <1>1, <1>4, <2>1 DEF Announced
  <2>3. \A s \in Span : s # p => row'[s] = row[s] /\ heard'[s] = heard[s]
    BY <1>1, <2>1
  <2>4. ASSUME NEW v \in Worker, Active(v), sends[job[v].span] <= 1
        PROVE  /\ "insert" \notin heard'[job[v].span]
               /\ Foretold(v)'
    <3>1. job[v].span \in Span /\ "insert" \notin heard[job[v].span] /\ Foretold(v)
          /\ (pc[v] \notin {"idle", "lookup", "upsert"} => row[job[v].span] = "real")
      BY <2>4, AccountableTypes DEF Announced, Trusted, WorksOnReal
    <3>2. CASE job[v].span # p
      <4>1. row'[job[v].span] = row[job[v].span] /\ heard'[job[v].span] = heard[job[v].span]
        BY <2>3, <3>1, <3>2
      <4>2. CASE v = w
        BY <1>2, <2>1, <3>1, <4>1, <4>2 DEF Foretold
      <4>3. CASE v # w
        <5>1. pc'[v] = pc[v]
          BY <1>2, <4>3 DEF OthersStay
        <5>. QED
          BY <1>2, <2>1, <3>1, <4>1, <5>1 DEF Foretold
      <4>. QED
        BY <4>2, <4>3
    <3>3. CASE job[v].span = p
      <4>1. pc[v] \in {"lookup", "upsert"} /\ v # w
        BY <1>2, <1>4, <2>4, <3>1, <3>3 DEF Active
      <4>2. pc'[v] = pc[v]
        BY <1>2, <4>1 DEF OthersStay
      <4>3. pc[v] = "upsert" => p \in crossed'
        BY <2>1, <3>3 DEF UpsertUnderWay
      <4>. QED
        BY <1>2, <2>2, <3>3, <4>1, <4>2, <4>3 DEF Foretold
    <3>. QED
      BY <3>2, <3>3
  <2>5. InsertMeansNew'
    BY <1>2, <2>1, <2>2, <2>3 DEF Announced, InsertMeansNew
  <2>6. \A v \in Worker : Active(v)' => Active(v)
    BY <1>2 DEF OthersStay, Active
  <2>7. \A s \in Span : /\ row'[s] = "absent" => heard'[s] = {}
                        /\ "insert" \in heard'[s] => row'[s] = "real"
                        /\ sends[s] = 0 => row'[s] # "real"
    BY <2>2, <2>3 DEF Announced
  <2>. QED
    BY <1>2, <2>4, <2>5, <2>6, <2>7 DEF Announced
<1>5. CASE ~ (row[p] = "absent" /\ p \in Span)
  <2>1. UNCHANGED <<row, heard>> /\ crossed \subseteq crossed'
    <3>1. CASE row[p] # "absent"
      BY <3>1 DEF EnsurePlaceholder, spanTable
    <3>2. CASE row[p] = "absent" /\ p \notin Span
      <4>1. /\ row' = [row EXCEPT ![p] = "placeholder"]
            /\ heard' = [heard EXCEPT ![p] = @ \cup {"placeholder"}]
            /\ crossed' = crossed \cup UpsertUnderWay(p)
        BY <3>2 DEF EnsurePlaceholder
      <4>. QED
        BY <3>2, <4>1 DEF Accountable, Trustworthy, TypeOK, TablesOK
    <3>. QED
      BY <1>5, <3>1, <3>2
  <2>. QED
    BY <1>2, <2>1, AnnouncedRest
<1>. QED
  BY <1>4, <1>5

\* The row is announced as new only if the bus has told nothing of it.
LEMMA AnnouncedAnnounce ==
  ASSUME Accountable, Announced, NEW w \in Worker, Announce(w)
  PROVE  Announced'
<1>1. DOMAIN heard = Span /\ DOMAIN pc = Worker
  BY DEF Accountable, Trustworthy, TypeOK, TablesOK, CallsOK
<1>2. job[w].span \in Span /\ row[job[w].span] = "real"
  BY AccountableTypes DEF Announce, Active, Trusted, WorksOnReal
<1>. PICK s \in Span : s = job[w].span
  BY <1>2
<1>3. /\ UNCHANGED <<row, sends, crossed>> /\ pc[w] = "announce" /\ pc'[w] = "idle"
      /\ heard' = [heard EXCEPT ![s] =
           @ \cup {IF job[w].prev = "placeholder" THEN "upgrade" ELSE "insert"}]
  BY <1>1 DEF Announce, Goto
<1>4. OthersStay(w) /\ Active(w)
  BY <1>3, StepOthers DEF Accountable, Trustworthy, Step, Active
<1>5. ASSUME sends[s] <= 1
      PROVE  /\ "insert" \notin heard[s]
             /\ job[w].prev = "placeholder" \/ heard[s] = {} \/ s \in crossed
             /\ \A v \in Worker \ {w} : Active(v) => job[v].span # s
  BY <1>3, <1>4, <1>5 DEF Announced, Foretold
<1>6. \A x \in Span : x # s => heard'[x] = heard[x]
  BY <1>1, <1>3
<1>7. sends[s] <= 1 /\ s \notin crossed /\ "insert" \in heard'[s] => heard'[s] = {"insert"}
  BY <1>1, <1>3, <1>5
<1>8. InsertMeansNew'
  BY <1>3, <1>6, <1>7 DEF Announced, InsertMeansNew
<1>9. ASSUME NEW v \in Worker, Active(v)'
      PROVE  v # w /\ Active(v) /\ job'[v] = job[v] /\ pc'[v] = pc[v]
  BY <1>3, <1>4, <1>9 DEF OthersStay, Active
<1>10. ASSUME NEW v \in Worker \ {w}, Active(v), sends[job[v].span] <= 1
       PROVE  heard'[job[v].span] = heard[job[v].span]
  <2>1. job[v].span \in Span
    BY <1>10, AccountableTypes
  <2>2. job[v].span # s
    BY <1>5, <1>10
  <2>. QED
    BY <1>6, <2>1, <2>2
<1>11. ASSUME NEW v \in Worker \ {w}, Active(v), sends[job[v].span] <= 1, job'[v] = job[v],
              pc'[v] = pc[v]
       PROVE  "insert" \notin heard'[job'[v].span] /\ Foretold(v)'
  BY <1>3, <1>10, <1>11 DEF Announced, Foretold
<1>12. \A x \in Span : /\ row'[x] = "absent" => heard'[x] = {}
                       /\ "insert" \in heard'[x] => row'[x] = "real"
                       /\ sends'[x] = 0 => row'[x] # "real"
  BY <1>2, <1>3, <1>6 DEF Announced
<1>. QED
  BY <1>3, <1>8, <1>9, <1>11, <1>12 DEF Announced

LEMMA AnnouncedNext ==
  ASSUME Accountable, Announced, [Next]_vars
  PROVE  Announced'
<1>1. CASE UNCHANGED vars
  BY <1>1 DEF Announced, InsertMeansNew, Foretold, Active, vars, tables, history, spanTable
<1>2. ASSUME NEW w \in Worker, Fail(w)
      PROVE  Announced'
  <2>1. UNCHANGED <<row, heard, sends, crossed>> /\ pc'[w] = "idle"
    BY <1>2 DEF Fail, Goto, tables, history, spanTable, Accountable, Trustworthy, TypeOK,
       CallsOK
  <2>2. OthersStay(w)
    BY <1>2, StepOthers DEF Accountable, Trustworthy
  <2>. QED
    BY <2>1, <2>2, AnnouncedSilent DEF Active
<1>. QED
  BY <1>1, <1>2, AnnouncedReceive, AnnouncedLookup, AnnouncedUpsert, AnnouncedPlaceholder,
     AnnouncedWalk, AnnouncedQuiet, AnnouncedAnnounce DEF Next, SteadyNext, Step

\* Of a span that is delivered once, the bus says "insert" only as the first it
\* says of it, however calls interleave or fail, unless a child's call made the
\* placeholder between the look of the span's call at its row and its upsert:
\* otherwise what the call read of the row is still so there.
THEOREM InsertsAreNew == Spec => []InsertMeansNew
<1>1. Init => Announced
  BY DEF Init, Announced, InsertMeansNew, Active
<1>2. Announced => InsertMeansNew
  BY DEF Announced
<1>3. Accountable /\ Announced /\ [Next]_vars => Announced'
  BY AnnouncedNext
<1>. QED
  BY <1>1, <1>2, <1>3, AlwaysAccountable, PTL DEF Spec

-----------------------------------------------------------------------------
(* Pointers when calls do not overlap.                                     *)

\* A walk that finds every real row projected misses no nearer ancestor.
LEMMA WalkFindsNearest ==
  ASSUME \A x \in Span : row[x] = "real" /\ Kind[x] # "other" => x \in projected,
         NEW s \in Span, NEW c \in Column, NearestAncestors(s)[c] # None
  PROVE  NearestAncestors(s)[c] = TruePointer[c][s]
<1>. DEFINE D == {i \in Visible(s) : /\ i > 0
                                     /\ At(s, i) \in projected
                                     /\ Kind[At(s, i)] \in Wanted[c]}
            E == {i \in Depths(s) : i > 0 /\ Kind[At(s, i)] \in Wanted[c]}
<1>1. D \in SUBSET E /\ E \in SUBSET Depths(s)
  BY DEF Visible
<1>2. NearestAncestors(s)[c] = Closest(s, D) /\ TruePointer[c][s] = Closest(s, E)
  BY DEF NearestAncestors, TruePointer
<1>3. ASSUME NEW i \in D, NEW j \in E, j < i
      PROVE  j \in D
  <2>1. i \in Nat /\ j \in Nat /\ j \in 0..(i - 1)
    BY <1>1, <1>3 DEF Depths
  <2>2. \A k \in 0..(i - 1) : row[At(s, k)] = "real"
    BY DEF Visible
  <2>3. row[At(s, j)] = "real" /\ j \in Visible(s)
    BY <2>1, <2>2 DEF Visible
  <2>4. At(s, j) \in Span /\ Kind[At(s, j)] # "other"
    BY <1>1, AtType DEF Wanted, Column
  <2>. QED
    BY <2>3, <2>4
<1>. HIDE DEF D, E
<1>. QED
  BY <1>1, <1>2, <1>3, NothingNearerMissed

ToProject == {"parent", "project", "insert"}

\* Steps that leave the call no result, write no pointer, and make no span real
\* that is not on its way to its projection row.
LEMMA WalksRest ==
  ASSUME Serial, Trustworthy', WalksExact, NEW w \in Worker, UNCHANGED ptr,
         pc'[w] \notin {"apply", "apply_hooks"},
         \A s \in Span : row'[s] = "real" /\ Kind[s] # "other" /\ s \notin projected' =>
           job'[w].span = s /\ pc'[w] \in ToProject
  PROVE  WalksExact'
<1>1. \A v \in Worker : v = w
  BY DEF Serial
<1>2. \A c \in Column : job'[w].found[c] = None
  BY DEF Trustworthy, Trusted, FoundReal
<1>. QED
  BY <1>1, <1>2 DEF WalksExact, PointersExact, ToProject

\* A call past its projection finds every real row projected.
LEMMA AllProjected ==
  ASSUME Serial, WalksExact, NEW w \in Worker, pc[w] \notin ToProject
  PROVE  \A s \in Span : row[s] = "real" /\ Kind[s] # "other" => s \in projected
BY DEF Serial, WalksExact, ToProject

LEMMA WalksEarly ==
  ASSUME Serial, Accountable, Trustworthy', WalksExact, NEW w \in Worker,
         \/ Lookup(w) \/ UpsertSpan(w) \/ EnsurePlaceholder(w)
         \/ LookupToolCall(w) \/ SkipProjection(w)
  PROVE  WalksExact'
<1>1. /\ DOMAIN pc = Worker /\ DOMAIN job = Worker /\ DOMAIN row = Span
      /\ job[w] \in Job
  BY DEF Accountable, Trustworthy, TypeOK, TablesOK, CallsOK
<1>2. CASE Lookup(w)
  <2>1. /\ UNCHANGED <<ptr, row, projected>> /\ pc'[w] = "upsert" /\ pc[w] = "lookup"
    BY <1>1, <1>2 DEF Lookup, Goto, tables, spanTable, projections
  <2>. QED
    BY <2>1, AllProjected, WalksRest DEF ToProject
<1>3. CASE UpsertSpan(w)
  <2>1. /\ UNCHANGED <<ptr, projected, job>> /\ pc'[w] \in {"parent", "project"}
        /\ pc[w] = "upsert" /\ row' = [row EXCEPT ![job[w].span] = "real"]
    BY <1>1, <1>3 DEF UpsertSpan, Goto, projections
  <2>2. \A s \in Span : s # job[w].span => row'[s] = row[s]
    BY <1>1, <2>1
  <2>. QED
    BY <2>1, <2>2, AllProjected, WalksRest DEF ToProject
<1>4. CASE EnsurePlaceholder(w)
  <2>1. /\ UNCHANGED <<ptr, projected, job>> /\ pc'[w] = "project" /\ pc[w] = "parent"
    BY <1>1, <1>4 DEF EnsurePlaceholder, Goto, projections
  <2>2. \A s \in Span : row'[s] = "real" => row[s] = "real"
    BY <1>1, <1>4 DEF EnsurePlaceholder, spanTable
  <2>3. \A s \in Span : row[s] = "real" /\ Kind[s] # "other" /\ s \notin projected =>
                          job[w].span = s
    BY DEF Serial, WalksExact
  <2>. QED
    BY <2>1, <2>2, <2>3, WalksRest DEF ToProject
<1>5. CASE LookupToolCall(w)
  <2>1. UNCHANGED <<ptr, row, projected>> /\ pc'[w] = "insert"
    BY <1>1, <1>5 DEF LookupToolCall, Goto, tables, spanTable, projections
  <2>2. job'[w].span = job[w].span
    BY <1>1, <1>5 DEF LookupToolCall, Job
  <2>3. \A s \in Span : row[s] = "real" /\ Kind[s] # "other" /\ s \notin projected =>
                          job[w].span = s
    BY DEF Serial, WalksExact
  <2>. QED
    BY <2>1, <2>2, <2>3, WalksRest DEF ToProject
<1>6. CASE SkipProjection(w)
  <2>1. /\ UNCHANGED <<ptr, row, projected>> /\ pc'[w] = "walk" /\ Kind[job[w].span] = "other"
    BY <1>1, <1>6 DEF SkipProjection, Goto, tables, spanTable, projections
  <2>2. \A s \in Span : row[s] = "real" /\ Kind[s] # "other" /\ s \notin projected =>
                          job[w].span = s
    BY DEF Serial, WalksExact
  <2>. QED
    BY <2>1, <2>2, WalksRest DEF ToProject
<1>. QED
  BY <1>2, <1>3, <1>4, <1>5, <1>6

LEMMA WalksInsert ==
  ASSUME Serial, Accountable, Trustworthy', WalksExact, NEW w \in Worker,
         \/ UpsertAgentRunOrChatTurn(w) \/ UpsertToolCall(w) \/ UpsertExternalToolCall(w)
  PROVE  WalksExact'
<1>1. DOMAIN pc = Worker
  BY DEF Accountable, Trustworthy, TypeOK, CallsOK
<1>2. /\ UNCHANGED <<ptr, row>> /\ projected' = projected \cup {job[w].span}
      /\ pc'[w] \in {"pair", "walk"}
  BY <1>1 DEF UpsertAgentRunOrChatTurn, UpsertToolCall, UpsertExternalToolCall,
     InsertProjection, Goto, spanTable
<1>3. \A s \in Span : row[s] = "real" /\ Kind[s] # "other" /\ s \notin projected =>
                        job[w].span = s
  BY DEF Serial, WalksExact
<1>. QED
  BY <1>2, <1>3, WalksRest

LEMMA WalksQuiet ==
  ASSUME Serial, Accountable, Trustworthy', WalksExact, NEW w \in Worker,
         \/ PairExternalCalls(w) \/ ListDescendants(w) \/ ReadConversation(w)
         \/ UpsertSession(w) \/ RecountSession(w) \/ DeriveFromEvents(w)
         \/ RefreshToolCount(w) \/ Announce(w) \/ \E s \in Span : Receive(w, s)
  PROVE  WalksExact'
<1>1. DOMAIN pc = Worker
  BY DEF Accountable, Trustworthy, TypeOK, CallsOK
<1>2. /\ UNCHANGED <<ptr, row, projected>> /\ pc[w] \notin ToProject
      /\ pc'[w] \notin {"apply", "apply_hooks"}
  <2>1. CASE PairExternalCalls(w) \/ ListDescendants(w) \/ ReadConversation(w)
    BY <1>1, <2>1 DEF PairExternalCalls, ListDescendants, ReadConversation, Goto, ToProject,
       tables, spanTable, projections
  <2>2. CASE UpsertSession(w) \/ RecountSession(w) \/ DeriveFromEvents(w)
    BY <1>1, <2>2 DEF UpsertSession, RecountSession, DeriveFromEvents, Goto, ToProject,
       tables, spanTable, projections
  <2>3. CASE RefreshToolCount(w) \/ Announce(w) \/ \E s \in Span : Receive(w, s)
    BY <1>1, <2>3 DEF RefreshToolCount, Announce, Receive, Goto, ToProject, tables,
       spanTable, projections
  <2>. QED
    BY <2>1, <2>2, <2>3
<1>. QED
  BY <1>2, AllProjected, WalksRest

LEMMA WalksWalk ==
  ASSUME Serial, Accountable, WalksExact, NEW w \in Worker, NEW t \in Span,
         WalkAncestors(w, t)
  PROVE  WalksExact'
<1>1. job \in [Worker -> Job] /\ pc[w] \notin ToProject
  BY DEF Accountable, Trustworthy, TypeOK, CallsOK, WalkAncestors, ToProject
<1>2. \A s \in Span : row[s] = "real" /\ Kind[s] # "other" => s \in projected
  BY <1>1, AllProjected
<1>3. job'[w].target = t /\ job'[w].found = NearestAncestors(t)
  BY <1>1 DEF WalkAncestors, Job
<1>4. UNCHANGED <<row, projected, ptr>>
  BY DEF WalkAncestors, tables, spanTable, projections
<1>5. \A v \in Worker : v = w
  BY DEF Serial
<1>. QED
  BY <1>2, <1>3, <1>4, <1>5, WalkFindsNearest DEF WalksExact, PointersExact

\* What the updates write is what the walk found, and that is exact.
LEMMA WalksApply ==
  ASSUME Serial, Accountable, Trustworthy', WalksExact, NEW w \in Worker,
         ApplyToProjection(w) \/ ApplyToHooks(w)
  PROVE  WalksExact'
<1>1. pc[w] \in {"apply", "apply_hooks"} /\ job[w].target \in Span /\ TypeOK
  BY AccountableTypes DEF ApplyToProjection, ApplyToHooks, Resolving
<1>2. UNCHANGED <<row, projected>>
  BY DEF ApplyToProjection, ApplyToHooks, spanTable
<1>3. PICK t \in Table : \E cols, rows : FillIn(w, t, cols, rows)
  BY DEF ApplyToProjection, ApplyToHooks, Table
<1>. PICK cols, rows : FillIn(w, t, cols, rows)
  BY <1>3
<1>4. \A c \in Column, s \in Span :
        ptr'[c][s] = IF s = job[w].target /\ c \in cols
                     THEN Coalesce(ptr[c][s], job[w].found[c]) ELSE ptr[c][s]
  BY <1>1, FillInWrites
<1>5. PointersExact'
  BY <1>4 DEF WalksExact, PointersExact, Coalesce
<1>6. \A v \in Worker : v = w
  BY DEF Serial
<1>7. \A s \in Span : row[s] = "real" /\ Kind[s] # "other" => s \in projected
  BY <1>1, AllProjected DEF ToProject
<1>8. CASE ApplyToProjection(w)
  <2>1. job' = job
    BY <1>8 DEF ApplyToProjection
  <2>. QED
    BY <1>2, <1>5, <1>6, <1>7, <2>1 DEF WalksExact
<1>9. CASE ApplyToHooks(w)
  <2>1. \A c \in Column : job'[w].found[c] = None
    BY <1>1, <1>9 DEF ApplyToHooks, TypeOK, CallsOK, Job, Nothing
  <2>. QED
    BY <1>2, <1>5, <1>6, <1>7, <2>1 DEF WalksExact
<1>. QED
  BY <1>8, <1>9

LEMMA WalksNext ==
  ASSUME Serial, Accountable, WalksExact, [SteadyNext]_vars
  PROVE  WalksExact'
<1>1. Trustworthy'
  BY TrustNext DEF Accountable, Next
<1>2. CASE UNCHANGED vars
  BY <1>2 DEF WalksExact, PointersExact, vars, tables, spanTable, projections
<1>. QED
  BY <1>1, <1>2, WalksEarly, WalksInsert, WalksQuiet, WalksWalk, WalksApply
     DEF SteadyNext, Step

\* When calls run one at a time and none is cut short, a pointer column names
\* the nearest ancestor of the wanted kind or nothing: every real span above has
\* its projection row by the time walk_ancestors passes over it.
THEOREM SerialPointersExact == Serial => (SteadySpec => []PointersExact)
<1>. SUFFICES ASSUME Serial
              PROVE  SteadySpec => []PointersExact
  OBVIOUS
<1>1. Init => WalksExact
  BY DEF Init, WalksExact, PointersExact, NoJob, Nothing
<1>2. WalksExact => PointersExact
  BY DEF WalksExact
<1>3. Accountable /\ [SteadyNext]_vars => Accountable'
  BY AccountNext DEF Next
<1>4. Accountable /\ WalksExact /\ [SteadyNext]_vars => WalksExact'
  BY WalksNext
<1>. QED
  BY <1>1, <1>2, <1>3, <1>4, AccountInit, PTL DEF SteadySpec
=============================================================================

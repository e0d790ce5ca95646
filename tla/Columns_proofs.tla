--------------------------- MODULE Columns_proofs ---------------------------
(***************************************************************************)
(* What holds of the context widget and of the file touches column for any *)
(* sessions, spans, snapshots, tool calls and numbers of keys.             *)
(***************************************************************************)
EXTENDS ContextWidget, LeastNatural_proofs, TLAPS

-----------------------------------------------------------------------------
(* Sorting.                                                                *)

\* InOrder lists a finite set by rank: every member once, and in the order.
LEMMA Enumerates ==
  ASSUME NEW S, IsFiniteSet(S),
         NEW Below, \A n \in S : Below[n] \subseteq S /\ n \notin Below[n],
         \A m, n \in S : m # n => m \in Below[n] \/ n \in Below[m],
         \A l, m, n \in S : l \in Below[m] /\ m \in Below[n] => l \in Below[n],
         NEW f,
         \A i \in 1..Cardinality(S), n \in S :
           Cardinality(Below[n]) = i - 1 => f[i] \in S /\ Cardinality(Below[f[i]]) = i - 1
  PROVE  /\ Cardinality(S) \in Nat
         /\ \A i \in 1..Cardinality(S) : f[i] \in S
         /\ \A n \in S : \E i \in 1..Cardinality(S) : f[i] = n
         /\ \A i, j \in 1..Cardinality(S) : f[i] \in Below[f[j]] <=> i < j
<1>. DEFINE N == Cardinality(S)
<1>1. N \in Nat
  BY FS_CardinalityType
<1>2. PICK c : c = [n \in S |-> Cardinality(Below[n])]
  OBVIOUS
<1>3. \A n \in S : c[n] = Cardinality(Below[n])
  BY <1>2
<1>4. \A n \in S : c[n] \in Nat /\ c[n] < N /\ IsFiniteSet(Below[n])
  <2>. SUFFICES ASSUME NEW n \in S
                PROVE  c[n] \in Nat /\ c[n] < N /\ IsFiniteSet(Below[n])
    OBVIOUS
  <2>1. Below[n] \subseteq S /\ Below[n] # S
    OBVIOUS
  <2>2. IsFiniteSet(Below[n]) /\ c[n] \in Nat
    BY <1>3, <2>1, FS_Subset, FS_CardinalityType
  <2>3. c[n] <= N /\ c[n] # N
    BY <1>3, <2>1, FS_Subset
  <2>. QED
    BY <1>1, <2>2, <2>3
<1>5. \A m, n \in S : m \in Below[n] => c[m] < c[n]
  <2>. SUFFICES ASSUME NEW m \in S, NEW n \in S, m \in Below[n]
                PROVE  c[m] < c[n]
    OBVIOUS
  <2>1. Below[m] \subseteq Below[n] /\ m \in Below[n] /\ m \notin Below[m]
    OBVIOUS
  <2>2. c[m] <= c[n] /\ c[m] # c[n]
    BY <1>3, <1>4, <2>1, FS_Subset
  <2>. QED
    BY <1>4, <2>2
<1>6. \A i \in 1..N, n \in S : Cardinality(Below[n]) = i - 1 =>
        f[i] \in S /\ Cardinality(Below[f[i]]) = i - 1
  OBVIOUS
<1>. HIDE DEF N
<1>7. \A m, n \in S : c[m] = c[n] => m = n
  <2>. SUFFICES ASSUME NEW m \in S, NEW n \in S, c[m] = c[n], m # n
                PROVE  FALSE
    OBVIOUS
  <2>1. c[m] \in Nat /\ c[n] \in Nat
    BY <1>4
  <2>2. ~ (c[m] < c[n]) /\ ~ (c[n] < c[m])
    BY <2>1
  <2>3. m \in Below[n] \/ n \in Below[m]
    OBVIOUS
  <2>. QED
    BY <1>5, <2>2, <2>3
<1>8. \A i \in 1..N : \E n \in S : c[n] = i - 1
  <2>. DEFINE rank == [n \in S |-> c[n] + 1]
  <2>1. \A n \in S : rank[n] = c[n] + 1 /\ rank[n] \in 1..N
    BY <1>1, <1>4
  <2>2. rank \in [S -> 1..N]
    BY <2>1
  <2>. HIDE DEF rank
  <2>3. \A m, n \in S : rank[m] = rank[n] => m = n
    BY <1>4, <1>7, <2>1
  <2>4. rank \in Injection(S, 1..N)
    BY <2>2, <2>3 DEF Injection, IsInjective
  <2>5. IsFiniteSet(1..N) /\ Cardinality(1..N) = N
    BY <1>1, FS_Interval
  <2>6. rank \in Surjection(S, 1..N)
    BY <2>4, <2>5, FS_Injection DEF N
  <2>7. \A i \in 1..N : \E n \in S : rank[n] = i
    BY <2>6 DEF Surjection
  <2>. QED
    BY <1>4, <2>1, <2>7
<1>9. \A i \in 1..N : f[i] \in S /\ c[f[i]] = i - 1
  BY <1>3, <1>6, <1>8
<1>10. \A n \in S : \E i \in 1..N : f[i] = n
  <2>. SUFFICES ASSUME NEW n \in S
                PROVE  \E i \in 1..N : f[i] = n
    OBVIOUS
  <2>1. PICK i \in 1..N : i = c[n] + 1
    BY <1>1, <1>4
  <2>2. c[f[i]] = i - 1 /\ c[n] \in Nat
    BY <1>4, <1>9
  <2>3. c[f[i]] = c[n]
    BY <2>1, <2>2
  <2>. QED
    BY <1>7, <1>9, <2>3
<1>11. ASSUME NEW i \in 1..N, NEW j \in 1..N
       PROVE  f[i] \in Below[f[j]] <=> i < j
  <2>1. f[i] \in S /\ c[f[i]] = i - 1 /\ f[j] \in S /\ c[f[j]] = j - 1
    BY <1>9
  <2>2. CASE f[i] \in Below[f[j]]
    <3>1. c[f[i]] < c[f[j]]
      BY <1>5, <2>1, <2>2
    <3>. QED
      BY <1>1, <2>1, <2>2, <3>1
  <2>3. CASE f[j] \in Below[f[i]]
    <3>1. c[f[j]] < c[f[i]]
      BY <1>5, <2>1, <2>3
    <3>2. ~ (f[i] \in Below[f[j]])
      BY <2>1, <2>3
    <3>. QED
      BY <1>1, <2>1, <3>1, <3>2
  <2>4. CASE f[i] = f[j]
    <3>1. i - 1 = j - 1
      BY <2>1, <2>4
    <3>2. ~ (i < j)
      BY <1>1, <3>1
    <3>. QED
      BY <2>1, <2>4, <3>2
  <2>. QED
    BY <2>1, <2>2, <2>3, <2>4
<1>. QED
  BY <1>1, <1>9, <1>10, <1>11 DEF N

\* Pairs of integers are compared by their first parts, then by their second.
LEMMA PairLess ==
  ASSUME NEW a \in Int, NEW b \in Int, NEW c \in Int, NEW d \in Int
  PROVE  Less(<<a, b>>, <<c, d>>) <=> a < c \/ (a = c /\ b < d)
<1>1. DOMAIN <<a, b>> = {1, 2}
  OBVIOUS
<1>2. 1..(1 - 1) = {} /\ 1..(2 - 1) = {1}
  OBVIOUS
<1>3. /\ <<a, b>>[1] = a /\ <<a, b>>[2] = b
      /\ <<c, d>>[1] = c /\ <<c, d>>[2] = d
  OBVIOUS
<1>. QED
  BY <1>1, <1>2, <1>3 DEF Less

\* ORDER BY with the key as tie-breaker.
LEMMA Sorts ==
  ASSUME NEW S, IsFiniteSet(S), S \subseteq Int, NEW key, \A n \in S : key[n] \in Int
  PROVE  /\ Cardinality(S) \in Nat
         /\ DOMAIN SortedBy(S, key) = 1..Cardinality(S)
         /\ \A i \in 1..Cardinality(S) : SortedBy(S, key)[i] \in S
         /\ \A n \in S : \E i \in 1..Cardinality(S) : SortedBy(S, key)[i] = n
         /\ \A i, j \in 1..Cardinality(S) :
              Less(<<key[SortedBy(S, key)[i]], SortedBy(S, key)[i]>>,
                   <<key[SortedBy(S, key)[j]], SortedBy(S, key)[j]>>) <=> i < j
<1>. DEFINE Before(m, n) == Less(<<key[m], m>>, <<key[n], n>>)
            Below == [n \in S |-> {m \in S : Before(m, n)}]
            f == SortedBy(S, key)
<1>1. \A m, n \in S : m \in Below[n] <=> Before(m, n)
  OBVIOUS
<1>2. \A m, n \in S : Before(m, n) <=> key[m] < key[n] \/ (key[m] = key[n] /\ m < n)
  BY PairLess
<1>3. /\ DOMAIN f = 1..Cardinality(S)
      /\ \A i \in 1..Cardinality(S), n \in S :
           Cardinality(Below[n]) = i - 1 => f[i] \in S /\ Cardinality(Below[f[i]]) = i - 1
  <2>1. \A n \in S : {m \in S : Less(<<key[m], m>>, <<key[n], n>>)} = Below[n]
    OBVIOUS
  <2>. HIDE DEF Below
  <2>2. f = [i \in 1..Cardinality(S) |-> CHOOSE n \in S :
               Cardinality({m \in S : Less(<<key[m], m>>, <<key[n], n>>)}) = i - 1]
    BY DEF SortedBy, InOrder
  <2>3. \A i \in 1..Cardinality(S) : f[i] = CHOOSE n \in S :
          Cardinality({m \in S : Less(<<key[m], m>>, <<key[n], n>>)}) = i - 1
    BY <2>2
  <2>. HIDE DEF f
  <2>4. ASSUME NEW i \in 1..Cardinality(S), NEW n \in S, Cardinality(Below[n]) = i - 1
        PROVE  f[i] \in S /\ Cardinality(Below[f[i]]) = i - 1
    <3>1. \E k \in S : Cardinality({m \in S : Less(<<key[m], m>>, <<key[k], k>>)}) = i - 1
      BY <2>1, <2>4
    <3>2. /\ f[i] \in S
          /\ Cardinality({m \in S : Less(<<key[m], m>>, <<key[f[i]], f[i]>>)}) = i - 1
      BY <2>3, <3>1
    <3>. QED
      BY <2>1, <3>2
  <2>. QED
    BY <2>2, <2>4
<1>4. \A n \in S : Below[n] \subseteq S
  OBVIOUS
<1>. HIDE DEF Below, Before, f
<1>5. \A n \in S : Below[n] \subseteq S /\ n \notin Below[n]
  BY <1>1, <1>2, <1>4
<1>8. \A m, n \in S : m # n => m \in Below[n] \/ n \in Below[m]
  BY <1>1, <1>2
<1>9. \A l, m, n \in S : l \in Below[m] /\ m \in Below[n] => l \in Below[n]
  BY <1>1, <1>2
<1>10. \A i \in 1..Cardinality(S), n \in S :
         Cardinality(Below[n]) = i - 1 => f[i] \in S /\ Cardinality(Below[f[i]]) = i - 1
  BY <1>3
<1>6. /\ Cardinality(S) \in Nat
      /\ \A i \in 1..Cardinality(S) : f[i] \in S
      /\ \A n \in S : \E i \in 1..Cardinality(S) : f[i] = n
      /\ \A i, j \in 1..Cardinality(S) : f[i] \in Below[f[j]] <=> i < j
  BY <1>5, <1>8, <1>9, <1>10, Enumerates
<1>7. \A i, j \in 1..Cardinality(S) : Before(f[i], f[j]) <=> i < j
  BY <1>1, <1>6
<1>. QED
  BY <1>3, <1>6, <1>7 DEF f, Before

-----------------------------------------------------------------------------
(* The bars of the context widget.                                         *)

\* The bars are those of the chats that have one, in the order of the spans.
LEMMA BarsInOrder ==
  ASSUME WellFormed, NEW rows, NEW ss,
         \A n \in DOMAIN rows : n \in DOMAIN Node /\ rows[n] = Node[n],
         NEW P, P = Barred(rows, ss), NEW bars, bars = Merged(rows, ss)
  PROVE  /\ P \subseteq DOMAIN Node
         /\ Cardinality(P) \in Nat
         /\ DOMAIN bars = 1..Cardinality(P)
         /\ \A i \in DOMAIN bars : bars[i].pk \in P
         /\ \A n \in P : \E i \in DOMAIN bars : bars[i].pk = n
         /\ \A i, j \in DOMAIN bars :
              \/ Node[bars[i].pk].start < Node[bars[j].pk].start
              \/ Node[bars[i].pk].start = Node[bars[j].pk].start /\ bars[i].pk < bars[j].pk
              <=> i < j
<1>1. P \subseteq DOMAIN rows /\ P \subseteq DOMAIN Node
  BY DEF Barred, ChatsOf
<1>2. /\ IsFiniteSet(P) /\ P \subseteq Int
      /\ \A n \in P : Node[n].start \in Int /\ rows[n] = Node[n]
  BY <1>1, FS_Subset DEF WellFormed
<1>3. PICK key : key = [pk \in P |-> RowOrder(rows, ss, pk)]
  OBVIOUS
<1>4. \A n \in P : key[n] = Node[n].start /\ key[n] \in Int
  BY <1>2, <1>3 DEF RowOrder
<1>5. PICK f : f = SortedBy(P, key)
  OBVIOUS
<1>6. /\ Cardinality(P) \in Nat
      /\ DOMAIN f = 1..Cardinality(P)
      /\ \A i \in 1..Cardinality(P) : f[i] \in P
      /\ \A n \in P : \E i \in 1..Cardinality(P) : f[i] = n
      /\ \A i, j \in 1..Cardinality(P) :
           Less(<<key[f[i]], f[i]>>, <<key[f[j]], f[j]>>) <=> i < j
  <2>1. /\ Cardinality(P) \in Nat
        /\ DOMAIN SortedBy(P, key) = 1..Cardinality(P)
        /\ \A i \in 1..Cardinality(P) : SortedBy(P, key)[i] \in P
        /\ \A n \in P : \E i \in 1..Cardinality(P) : SortedBy(P, key)[i] = n
        /\ \A i, j \in 1..Cardinality(P) :
             Less(<<key[SortedBy(P, key)[i]], SortedBy(P, key)[i]>>,
                  <<key[SortedBy(P, key)[j]], SortedBy(P, key)[j]>>) <=> i < j
    <3>1. IsFiniteSet(P) /\ P \subseteq Int /\ \A n \in P : key[n] \in Int
      BY <1>2, <1>4
    <3>. QED
      BY <3>1, Sorts, SMTT(30)
  <2>. QED
    BY <1>5, <2>1
<1>7. \A i, j \in 1..Cardinality(P) :
        \/ Node[f[i]].start < Node[f[j]].start
        \/ Node[f[i]].start = Node[f[j]].start /\ f[i] < f[j]
        <=> i < j
  <2>. SUFFICES ASSUME NEW i \in 1..Cardinality(P), NEW j \in 1..Cardinality(P)
                PROVE  \/ Node[f[i]].start < Node[f[j]].start
                       \/ Node[f[i]].start = Node[f[j]].start /\ f[i] < f[j]
                       <=> i < j
    OBVIOUS
  <2>1. f[i] \in P /\ f[j] \in P /\ f[i] \in Int /\ f[j] \in Int
    BY <1>2, <1>6
  <2>2. Less(<<key[f[i]], f[i]>>, <<key[f[j]], f[j]>>)
          <=> key[f[i]] < key[f[j]] \/ (key[f[i]] = key[f[j]] /\ f[i] < f[j])
    BY <1>4, <2>1, PairLess
  <2>. QED
    BY <1>4, <1>6, <2>1, <2>2
<1>8. bars = [i \in DOMAIN f |-> MergedRow(rows, ss, f[i])]
  BY <1>3, <1>5 DEF Merged
<1>9. \A n : MergedRow(rows, ss, n).pk = n
  BY DEF MergedRow
<1>10. DOMAIN bars = 1..Cardinality(P) /\ \A i \in 1..Cardinality(P) : bars[i].pk = f[i]
  BY <1>6, <1>8, <1>9
<1>. QED
  BY <1>1, <1>6, <1>7, <1>10

\* What a query answers is every snapshot of the session.
LEMMA AnswersAll ==
  ASSUME WellFormed, snaps \in Seq(Snapshot), NEW s
  PROVE  ToSet(ServerContexts(s)) = {x \in ToSet(snaps) : Home[x.pk] = s}
<1>1. PICK mine : mine = {i \in DOMAIN snaps : Home[snaps[i].pk] = s}
  OBVIOUS
<1>2. /\ mine \subseteq 1..Len(snaps) /\ Len(snaps) \in Nat
      /\ \A i \in mine : snaps[i] \in Snapshot
  BY <1>1
<1>3. IsFiniteSet(mine) /\ mine \subseteq Int
  <2>1. IsFiniteSet(1..Len(snaps))
    BY <1>2, FS_Interval
  <2>2. IsFiniteSet(mine)
    BY <1>2, <2>1, FS_Subset
  <2>. QED
    BY <1>2, <2>2
<1>4. PICK key : key = [i \in mine |-> snaps[i].at]
  OBVIOUS
<1>5. \A i \in mine : key[i] \in Int
  BY <1>2, <1>4 DEF WellFormed
<1>6. PICK f : f = SortedBy(mine, key)
  OBVIOUS
<1>7. /\ DOMAIN f = 1..Cardinality(mine)
      /\ \A i \in 1..Cardinality(mine) : f[i] \in mine
      /\ \A n \in mine : \E i \in 1..Cardinality(mine) : f[i] = n
  <2>1. /\ Cardinality(mine) \in Nat
        /\ DOMAIN SortedBy(mine, key) = 1..Cardinality(mine)
        /\ \A i \in 1..Cardinality(mine) : SortedBy(mine, key)[i] \in mine
        /\ \A n \in mine : \E i \in 1..Cardinality(mine) : SortedBy(mine, key)[i] = n
        /\ \A i, j \in 1..Cardinality(mine) :
             Less(<<key[SortedBy(mine, key)[i]], SortedBy(mine, key)[i]>>,
                  <<key[SortedBy(mine, key)[j]], SortedBy(mine, key)[j]>>) <=> i < j
    <3>1. IsFiniteSet(mine) /\ mine \subseteq Int /\ \A i \in mine : key[i] \in Int
      BY <1>3, <1>5
    <3>. QED
      BY <3>1, Sorts
  <2>. QED
    BY <1>6, <2>1
<1>8. ServerContexts(s) = [k \in DOMAIN f |-> snaps[f[k]]]
  BY <1>1, <1>4, <1>6 DEF ServerContexts
<1>9. ToSet(ServerContexts(s)) = {snaps[i] : i \in mine}
  BY <1>7, <1>8 DEF ToSet
<1>. QED
  BY <1>1, <1>9 DEF ToSet

\* A widget that is bound is bound to the session of a column.
LEMMA BoundToColumn ==
  ASSUME cols \in Seq(Session \cup {None}), Bound # None
  PROVE  Bound \in Session
<1>. DEFINE withOne == {i \in DOMAIN cols : cols[i] # None}
<1>1. withOne \in SUBSET Nat /\ DOMAIN cols = 1..Len(cols)
  OBVIOUS
<1>2. withOne # {} /\ Bound = cols[Min(withOne)]
  BY DEF Bound
<1>3. \A i \in withOne : cols[i] \in Session
  BY <1>1
<1>. HIDE DEF withOne
<1>4. \E i \in withOne : \A j \in withOne : i <= j
  BY <1>1, <1>2, LeastNatural
<1>5. Min(withOne) \in withOne
  BY <1>4 DEF Min
<1>. QED
  BY <1>2, <1>3, <1>5

\* The bars on the chart, and the chats they are of.
LEMMA BarsShown ==
  ASSUME WellFormed, Fitting
  PROVE  /\ Len(Bars) \in Nat /\ DOMAIN Bars = 1..Len(Bars)
         /\ Pks(Bars) \in Seq(DOMAIN Node) /\ Len(Pks(Bars)) = Len(Bars)
         /\ \A i \in DOMAIN Bars :
              Pks(Bars)[i] = Bars[i].pk /\ Bars[i].pk \in Barred(tree[Bound], contexts[Bound])
         /\ DOMAIN Bars # {} => Bound # None
         /\ Bound # None /\ Barred(tree[Bound], contexts[Bound]) # {} => DOMAIN Bars # {}
<1>1. CASE Bound = None
  <2>1. Bars = <<>>
    BY <1>1 DEF Bars
  <2>. QED
    BY <1>1, <2>1 DEF Pks
<1>2. CASE Bound # None
  <2>1. Bound \in Session
    BY <1>2, BoundToColumn DEF Fitting
  <2>2. PICK rows, ss, P, bars :
          /\ rows = tree[Bound] /\ ss = contexts[Bound]
          /\ P = Barred(rows, ss) /\ bars = Merged(rows, ss)
    OBVIOUS
  <2>3. Bars = bars
    BY <1>2, <2>2 DEF Bars
  <2>4. \A n \in DOMAIN rows : n \in DOMAIN Node /\ rows[n] = Node[n]
    BY <2>1, <2>2 DEF Fitting, Cached
  <2>5. /\ P \subseteq DOMAIN Node /\ Cardinality(P) \in Nat
        /\ DOMAIN bars = 1..Cardinality(P)
        /\ \A i \in DOMAIN bars : bars[i].pk \in P
        /\ \A n \in P : \E i \in DOMAIN bars : bars[i].pk = n
    BY <2>2, <2>4, BarsInOrder
  <2>6. PICK f : f = SortedBy(Barred(rows, ss),
                       [pk \in Barred(rows, ss) |-> RowOrder(rows, ss, pk)])
    OBVIOUS
  <2>7. bars = [i \in DOMAIN f |-> MergedRow(rows, ss, f[i])]
    BY <2>2, <2>6 DEF Merged
  <2>8. DOMAIN f = 1..Cardinality(P)
    BY <2>5, <2>7
  <2>9. bars = [i \in 1..Cardinality(P) |-> MergedRow(rows, ss, f[i])]
    BY <2>7, <2>8
  <2>10. Len(bars) = Cardinality(P)
    BY <2>5, <2>9
  <2>11. Pks(bars) = [i \in 1..Cardinality(P) |-> bars[i].pk]
    BY <2>5 DEF Pks
  <2>12. /\ Pks(bars) \in Seq(DOMAIN Node) /\ Len(Pks(bars)) = Cardinality(P)
         /\ \A i \in DOMAIN bars : Pks(bars)[i] = bars[i].pk
    BY <2>5, <2>11
  <2>. QED
    BY <1>2, <2>2, <2>3, <2>5, <2>10, <2>12
<1>. QED
  BY <1>1, <1>2

\* The larger and the smaller of two integers.
LEMMA OfTwo ==
  ASSUME NEW a \in Int, NEW b \in Int
  PROVE  /\ Max({a, b}) = IF a >= b THEN a ELSE b
         /\ Min({a, b}) = IF a <= b THEN a ELSE b
<1>1. \E x \in {a, b} : \A y \in {a, b} : x >= y
  OBVIOUS
<1>2. \E x \in {a, b} : \A y \in {a, b} : x <= y
  OBVIOUS
<1>3. /\ Max({a, b}) \in {a, b} /\ Max({a, b}) >= a /\ Max({a, b}) >= b
      /\ Min({a, b}) \in {a, b} /\ Min({a, b}) <= a /\ Min({a, b}) <= b
  BY <1>1, <1>2 DEF Max, Min
<1>. QED
  BY <1>3

\* A bar that is published is the one at the cursor, and is on the chart.
LEMMA PublishMarks ==
  ASSUME WellFormed, Fitting, NEW i \in Int, seen' = [bar |-> At(i), bars |-> Pks(Bars)]
  PROVE  /\ seen'.bars \in Seq(DOMAIN Node)
         /\ seen'.bar # None =>
              /\ i + 1 \in DOMAIN seen'.bars /\ seen'.bars[i + 1] = seen'.bar
              /\ Bound # None /\ seen'.bar \in Barred(tree[Bound], contexts[Bound])
<1>1. seen'.bars = Pks(Bars) /\ seen'.bar = At(i)
  OBVIOUS
<1>2. seen'.bar # None => i + 1 \in DOMAIN Bars /\ At(i) = Bars[i + 1].pk
  BY <1>1 DEF At
<1>3. DOMAIN Pks(Bars) = DOMAIN Bars
  BY DEF Pks
<1>. QED
  BY <1>1, <1>2, <1>3, BarsShown

-----------------------------------------------------------------------------
(* What every step of the context widget keeps.                            *)

LEMMA FittingAtFirst == WellFormed /\ Init => Fitting
<1>. SUFFICES ASSUME WellFormed, Init
              PROVE  Fitting
  OBVIOUS
<1>1. snaps \in Seq(Snapshot) /\ snaps = Early /\ \A i \in DOMAIN Early : Early[i] \in Snapshot
  BY DEF Init, WellFormed
<1>2. live \subseteq DOMAIN Node
  BY <1>1 DEF Init, WellFormed, ToSet
<1>3. cols \in Seq(Session \cup {None})
  BY DEF Init, WellFormed
<1>4. Cached
  BY DEF Init, Cached, ToSet
<1>5. Marked /\ cursor \in Int /\ seen.bars \in Seq(DOMAIN Node)
  BY DEF Init, Marked, NoBar
<1>. QED
  BY <1>1, <1>2, <1>3, <1>4, <1>5 DEF Init, Fitting

\* What stays on the chart when the server has more and the cache is as it was.
LEMMA FittingWhileStill ==
  ASSUME Fitting, live \subseteq live', live' \subseteq DOMAIN Node,
         snaps' \in Seq(Snapshot), ToSet(snaps) \subseteq ToSet(snaps'),
         UNCHANGED <<tree, contexts, cols>>,
         cursor' \in Int, seen'.bars \in Seq(DOMAIN Node), Marked'
  PROVE  Fitting'
<1>1. Cached'
  BY DEF Fitting, Cached
<1>. QED
  BY <1>1 DEF Fitting

LEMMA CaptureFits ==
  ASSUME WellFormed, Fitting, NEW s \in Snapshot, Capture(s)
  PROVE  Fitting'
<1>1. live' = live \cup {s.pk} /\ snaps' = Append(snaps, s)
  BY DEF Capture
<1>2. s.pk \in DOMAIN Node /\ live \subseteq live' /\ live' \subseteq DOMAIN Node
  BY <1>1 DEF WellFormed, Fitting
<1>3. snaps \in Seq(Snapshot)
  BY DEF Fitting
<1>4. snaps' \in Seq(Snapshot) /\ ToSet(snaps) \subseteq ToSet(snaps')
  BY <1>1, <1>3 DEF ToSet
<1>5. UNCHANGED <<tree, contexts, cols, focused, cursor, seen>>
  BY DEF Capture, cache
<1>6. Marked'
  BY <1>5 DEF Fitting, Marked, Bound
<1>. QED
  BY <1>2, <1>4, <1>5, <1>6, FittingWhileStill DEF Fitting

\* A refetch brings all that was cached, and what has come since.
LEMMA RefetchFits ==
  ASSUME WellFormed, Fitting, NEW what \in {"tree", "contexts"}, Refetch(what)
  PROVE  Fitting'
<1>1. /\ Bound # None
      /\ tree' = IF what = "tree" THEN [tree EXCEPT ![Bound] = ServerTree(Bound)] ELSE tree
      /\ contexts' = IF what = "contexts" THEN [contexts EXCEPT ![Bound] = ServerContexts(Bound)]
                     ELSE contexts
      /\ UNCHANGED <<live, snaps, cols, focused, cursor, seen>>
  BY DEF Refetch, server
<1>2. Bound \in Session /\ Bound' = Bound
  BY <1>1, BoundToColumn DEF Fitting, Bound
<1>3. PICK b \in Session : b = Bound /\ Bound' = b
  BY <1>2
<1>4. PICK whole : whole = ServerTree(b)
  OBVIOUS
<1>5. PICK all : all = ServerContexts(b)
  OBVIOUS
<1>6. /\ DOMAIN whole = {n \in live : Home[n] = b}
      /\ \A n \in DOMAIN whole : whole[n] = Node[n]
  BY <1>4 DEF ServerTree
<1>7. ToSet(all) = {x \in ToSet(snaps) : Home[x.pk] = b}
  BY <1>5, AnswersAll DEF Fitting
<1>8. DOMAIN tree = Session /\ DOMAIN contexts = Session
  BY DEF Fitting
<1>9. /\ DOMAIN tree' = Session /\ DOMAIN contexts' = Session
      /\ \A s \in Session : tree'[s] = tree[s] \/ (s = b /\ tree'[s] = whole)
      /\ \A s \in Session : contexts'[s] = contexts[s] \/ (s = b /\ contexts'[s] = all)
  BY <1>1, <1>3, <1>4, <1>5, <1>8
<1>10. Cached'
  <2>. SUFFICES ASSUME NEW s \in Session
                PROVE  /\ \A n \in DOMAIN tree'[s] : n \in live /\ Home[n] = s /\ tree'[s][n] = Node[n]
                       /\ \A x \in ToSet(contexts'[s]) : x \in ToSet(snaps) /\ Home[x.pk] = s
    BY <1>1 DEF Cached
  <2>1. /\ \A n \in DOMAIN tree[s] : n \in live /\ Home[n] = s /\ tree[s][n] = Node[n]
        /\ \A x \in ToSet(contexts[s]) : x \in ToSet(snaps) /\ Home[x.pk] = s
    BY DEF Fitting, Cached
  <2>. QED
    BY <1>6, <1>7, <1>9, <2>1
<1>11. Barred(tree[b], contexts[b]) \subseteq Barred(tree'[b], contexts'[b])
  <2>1. /\ \A n \in DOMAIN tree[b] : n \in live /\ Home[n] = b /\ tree[b][n] = Node[n]
        /\ \A x \in ToSet(contexts[b]) : x \in ToSet(snaps) /\ Home[x.pk] = b
    BY DEF Fitting, Cached
  <2>2. ChatsOf(tree[b]) \subseteq ChatsOf(tree'[b])
    BY <1>6, <1>9, <2>1 DEF ChatsOf
  <2>3. ToSet(contexts[b]) \subseteq ToSet(contexts'[b])
    BY <1>7, <1>9, <2>1
  <2>. QED
    BY <2>2, <2>3 DEF Barred
<1>12. Marked'
  BY <1>1, <1>3, <1>11 DEF Fitting, Marked
<1>. QED
  BY <1>1, <1>9, <1>10, <1>12 DEF Fitting

\* The keys that publish a bar.
LEMMA PublishFits ==
  ASSUME WellFormed, Fitting, UNCHANGED <<live, snaps, tree, contexts, cols>>,
         cursor' \in Int, Publish(cursor')
  PROVE  Fitting'
<1>1. PICK i \in Int : i = cursor'
  OBVIOUS
<1>2. seen' = [bar |-> At(i), bars |-> Pks(Bars)]
  BY <1>1 DEF Publish
<1>3. /\ seen'.bars \in Seq(DOMAIN Node)
      /\ seen'.bar # None =>
           /\ i + 1 \in DOMAIN seen'.bars /\ seen'.bars[i + 1] = seen'.bar
           /\ Bound # None /\ seen'.bar \in Barred(tree[Bound], contexts[Bound])
  BY <1>2, PublishMarks
<1>4. Bound' = Bound
  BY DEF Bound
<1>5. Marked'
  BY <1>1, <1>3, <1>4 DEF Marked
<1>. QED
  BY <1>3, <1>5, FittingWhileStill DEF Fitting

LEMMA TabFits ==
  ASSUME WellFormed, Fitting, Tab
  PROVE  Fitting'
<1>1. /\ UNCHANGED <<live, snaps, tree, contexts, cols>>
      /\ cursor' = IF focused' /\ cursor = NoBar THEN 0 ELSE cursor
      /\ IF focused' THEN Publish(cursor') ELSE UNCHANGED <<hovered, seen>>
  BY DEF Tab, Press, server, cache
<1>2. cursor' \in Int
  BY <1>1 DEF Fitting
<1>3. CASE focused'
  BY <1>1, <1>2, <1>3, PublishFits
<1>4. CASE ~ focused'
  <2>1. Marked'
    BY <1>4 DEF Marked
  <2>. QED
    BY <1>1, <1>2, <1>4, <2>1, FittingWhileStill DEF Fitting
<1>. QED
  BY <1>3, <1>4

LEMMA MoveFits ==
  ASSUME WellFormed, Fitting, NEW d \in {-1, 1}, Move(d)
  PROVE  Fitting'
<1>1. UNCHANGED <<live, snaps, tree, contexts, cols, focused>> /\ focused
  BY DEF Move, Press, server, cache
<1>2. PICK last : last = Len(Bars) - 1
  OBVIOUS
<1>3. Len(Bars) \in Nat /\ DOMAIN Bars = 1..Len(Bars)
  BY BarsShown
<1>4. last \in Int
  BY <1>2, <1>3
<1>5. IF last < 0 THEN cursor' = NoBar /\ UNCHANGED <<hovered, seen>>
      ELSE LET to == (IF cursor = NoBar THEN last ELSE cursor) + d
           IN cursor' = Max({0, Min({to, last})}) /\ Publish(cursor')
  BY <1>2 DEF Move
<1>6. CASE last < 0
  <2>1. cursor' = NoBar /\ UNCHANGED seen
    BY <1>5, <1>6
  <2>2. DOMAIN Bars = {}
    BY <1>2, <1>3, <1>6
  <2>3. ~ (focused /\ seen.bar # None)
    BY <2>2, BarsShown DEF Fitting, Marked
  <2>4. Marked'
    BY <1>1, <2>1, <2>3 DEF Marked
  <2>. QED
    BY <1>1, <2>1, <2>4, FittingWhileStill DEF Fitting, NoBar
<1>7. CASE ~ (last < 0)
  <2>. DEFINE to == (IF cursor = NoBar THEN last ELSE cursor) + d
  <2>1. cursor \in Int /\ (IF cursor = NoBar THEN last ELSE cursor) \in Int
    BY <1>4 DEF Fitting
  <2>2. to \in Int
    BY <2>1
  <2>3. cursor' = Max({0, Min({to, last})}) /\ Publish(cursor')
    BY <1>5, <1>7
  <2>. HIDE DEF to
  <2>4. PICK n \in Int : n = Min({to, last})
    BY <1>4, <2>2, OfTwo
  <2>5. Max({0, n}) = IF 0 >= n THEN 0 ELSE n
    BY OfTwo
  <2>6. cursor' \in Int
    BY <2>3, <2>4, <2>5
  <2>. QED
    BY <1>1, <2>3, <2>6, PublishFits
<1>. QED
  BY <1>6, <1>7

\* Every step keeps the bar that is marked on the chart.
LEMMA FittingKept == WellFormed /\ Fitting /\ [Next]_vars => Fitting'
<1>. SUFFICES ASSUME WellFormed, Fitting, [Next]_vars
              PROVE  Fitting'
  OBVIOUS
<1>1. ASSUME UNCHANGED <<live, snaps, tree, contexts, cols>>, UNCHANGED <<cursor, seen>>,
             focused' => focused
      PROVE  Fitting'
  <2>1. Marked'
    BY <1>1 DEF Fitting, Marked, Bound
  <2>. QED
    BY <1>1, <2>1, FittingWhileStill DEF Fitting
<1>2. ASSUME NEW i \in DOMAIN cols, NEW s \in Session \cup {None}, SetSession(i, s)
      PROVE  Fitting'
  <2>1. /\ UNCHANGED <<live, snaps, tree, contexts, cursor, seen, focused>> /\ ~ focused
        /\ cols' = [cols EXCEPT ![i] = s]
    BY <1>2 DEF SetSession, Press, server, cache
  <2>2. cols' \in Seq(Session \cup {None})
    BY <2>1 DEF Fitting
  <2>3. Cached' /\ Marked'
    BY <2>1 DEF Fitting, Cached, Marked
  <2>. QED
    BY <2>1, <2>2, <2>3 DEF Fitting
<1>3. CASE Notice
  BY <1>1, <1>3 DEF Notice
<1>4. ASSUME NEW n, HoverRow(n)
      PROVE  Fitting'
  BY <1>1, <1>4 DEF HoverRow, Press, server, cache
<1>5. CASE Enter
  BY <1>1, <1>5 DEF Enter, Press, server, cache
<1>6. CASE Toggle
  BY <1>1, <1>6 DEF Toggle, Press, server, cache
<1>7. ASSUME NEW d, Adjust(d)
      PROVE  Fitting'
  BY <1>1, <1>7 DEF Adjust, Press, server, cache
<1>8. ASSUME NEW t, Resize(t)
      PROVE  Fitting'
  BY <1>1, <1>8 DEF Resize, Press, server, cache
<1>9. CASE UNCHANGED vars
  BY <1>1, <1>9 DEF vars, server, cache
<1>. QED
  BY <1>2, <1>3, <1>4, <1>5, <1>6, <1>7, <1>8, <1>9, CaptureFits, RefetchFits, TabFits, MoveFits
     DEF Next

\* The bar that was last marked stays on the chart while the widget has the
\* focus, however much is fetched meanwhile; cached rows are the server's.
THEOREM MarkedStaysUp == WellFormed /\ Spec => []Fitting
<1>. SUFFICES ASSUME WellFormed
              PROVE  Spec => []Fitting
  OBVIOUS
<1>1. Init => Fitting
  BY FittingAtFirst
<1>2. Fitting /\ [Next]_vars => Fitting'
  BY FittingKept
<1>. QED
  BY <1>1, <1>2, PTL DEF Spec

\* Rows of the cache are the server's, and so are those of what it is next.
LEMMA BarsKeep ==
  ASSUME WellFormed, Fitting, Fitting'
  PROVE  BarsKeepOrder
<1>. SUFFICES ASSUME NEW s \in Session,
                     NEW was, was = Pks(Merged(tree[s], contexts[s])),
                     NEW is, is = Pks(Merged(tree'[s], contexts'[s])),
                     NEW i \in DOMAIN was, NEW j \in DOMAIN was,
                     NEW k \in DOMAIN is, NEW l \in DOMAIN is,
                     i < j, is[k] = was[i], is[l] = was[j]
              PROVE  k < l
  BY DEF BarsKeepOrder
<1>. DEFINE Ahead(m, n) == \/ Node[m].start < Node[n].start
                           \/ Node[m].start = Node[n].start /\ m < n
<1>1. /\ \A n \in DOMAIN tree[s] : n \in DOMAIN Node /\ tree[s][n] = Node[n]
      /\ \A n \in DOMAIN tree'[s] : n \in DOMAIN Node /\ tree'[s][n] = Node[n]
  BY DEF Fitting, Cached
<1>2. ASSUME NEW rows, NEW ss, \A n \in DOMAIN rows : n \in DOMAIN Node /\ rows[n] = Node[n],
             NEW pks, pks = Pks(Merged(rows, ss))
      PROVE  \A m, n \in DOMAIN pks : Ahead(pks[m], pks[n]) <=> m < n
  <2>1. PICK bars, P : bars = Merged(rows, ss) /\ P = Barred(rows, ss)
    OBVIOUS
  <2>2. \A m, n \in DOMAIN bars : Ahead(bars[m].pk, bars[n].pk) <=> m < n
    BY <1>2, <2>1, BarsInOrder
  <2>3. DOMAIN pks = DOMAIN bars /\ \A m \in DOMAIN bars : pks[m] = bars[m].pk
    BY <1>2, <2>1 DEF Pks
  <2>. HIDE DEF Ahead
  <2>. QED
    BY <2>2, <2>3
<1>. HIDE DEF Ahead
<1>3. Ahead(was[i], was[j])
  BY <1>1, <1>2
<1>4. \A m, n \in DOMAIN is : Ahead(is[m], is[n]) <=> m < n
  BY <1>1, <1>2
<1>5. Ahead(is[k], is[l])
  BY <1>3
<1>. QED
  BY <1>4, <1>5

LEMMA EnterPicks ==
  ASSUME WellFormed, Fitting
  PROVE  EnterPicksMarked
<1>. SUFFICES ASSUME Enter, seen.bar # None,
                     IsPrefix(SubSeq(seen.bars, 1, cursor + 1), Pks(Bars))
              PROVE  picked' = seen.bar
  BY DEF EnterPicksMarked
<1>1. /\ cursor \in Int /\ seen.bars \in Seq(DOMAIN Node)
      /\ cursor + 1 \in DOMAIN seen.bars /\ seen.bars[cursor + 1] = seen.bar
  BY DEF Enter, Fitting, Marked
<1>2. PICK n \in Nat : n = cursor + 1 /\ n >= 1 /\ n <= Len(seen.bars)
  BY <1>1
<1>3. PICK mine : mine = SubSeq(seen.bars, 1, n)
  OBVIOUS
<1>4. mine \in Seq(DOMAIN Node) /\ Len(mine) = n /\ mine[n] = seen.bar
  BY <1>1, <1>2, <1>3
<1>5. /\ Len(Bars) \in Nat /\ DOMAIN Bars = 1..Len(Bars)
      /\ Pks(Bars) \in Seq(DOMAIN Node) /\ Len(Pks(Bars)) = Len(Bars)
      /\ \A i \in DOMAIN Bars : Pks(Bars)[i] = Bars[i].pk
  BY BarsShown
<1>6. PICK pks \in Seq(DOMAIN Node) : pks = Pks(Bars)
  BY <1>5
<1>7. n <= Len(pks) /\ SubSeq(mine, 1, n) = SubSeq(pks, 1, n)
  BY <1>2, <1>3, <1>4, <1>6 DEF IsPrefix
<1>8. SubSeq(mine, 1, n)[n] = mine[n] /\ SubSeq(pks, 1, n)[n] = pks[n]
  BY <1>2, <1>4, <1>7
<1>9. n \in DOMAIN Bars /\ Bars[n].pk = seen.bar
  BY <1>2, <1>4, <1>5, <1>6, <1>7, <1>8
<1>10. Chosen = seen.bar
  BY <1>1, <1>2, <1>9 DEF Chosen, At, NoBar
<1>. QED
  BY <1>10 DEF Enter

\* Bars come in between others and never change places, and Enter picks the bar
\* that was last marked unless one has come in at or before its place since.
THEOREM BarsStayPut == WellFormed /\ Spec => [][Keeps]_vars
<1>. SUFFICES ASSUME WellFormed
              PROVE  Spec => [][Keeps]_vars
  OBVIOUS
<1>1. Spec => []Fitting
  BY MarkedStaysUp
<1>2. Fitting /\ Fitting' /\ [Next]_vars => [Keeps]_vars
  BY BarsKeep, EnterPicks DEF Keeps
<1>. QED
  BY <1>1, <1>2, PTL DEF Spec

-----------------------------------------------------------------------------
(* The chart in its strip.                                                 *)

(* Rows asked for, and the terminal there is.                              *)
Sized == height \in Int /\ term \in Terminal

LEMMA Clamps ==
  ASSUME NEW x \in Int, NEW h \in Nat
  PROVE  Cap(h) \in Int /\ Clamp(x, h) \in Int
<1>1. PICK f \in Int : f = (4 * h) \div 5
  OBVIOUS
<1>2. Max({3, f}) = IF 3 >= f THEN 3 ELSE f
  BY OfTwo
<1>3. Cap(h) = IF h = 0 THEN 65535 ELSE Max({3, f})
  BY <1>1 DEF Cap
<1>4. PICK c \in Int : c = Cap(h)
  BY <1>2, <1>3
<1>5. Min({x, c}) = IF x <= c THEN x ELSE c
  BY OfTwo
<1>6. Clamp(x, h) = IF x < 3 THEN 3 ELSE Min({x, c})
  BY <1>4 DEF Clamp
<1>. QED
  BY <1>4, <1>5, <1>6

LEMMA SizedKept == WellFormed /\ Sized /\ [Next]_vars => Sized'
<1>. SUFFICES ASSUME WellFormed, Sized, [Next]_vars
              PROVE  Sized'
  OBVIOUS
<1>1. ASSUME UNCHANGED <<height, term>>
      PROVE  Sized'
  BY <1>1 DEF Sized
<1>2. ASSUME NEW d \in {-5, -1, 1, 5}, Adjust(d)
      PROVE  Sized'
  <2>1. height' = Clamp(Max({0, height + d}), term.h) /\ UNCHANGED term
    BY <1>2 DEF Adjust
  <2>2. PICK e \in Int : e = height + d /\ term.h \in Nat
    BY DEF Sized, WellFormed
  <2>3. Max({0, e}) = IF 0 >= e THEN 0 ELSE e
    BY OfTwo
  <2>4. height' \in Int
    BY <2>1, <2>2, <2>3, Clamps
  <2>. QED
    BY <2>1, <2>4 DEF Sized
<1>3. ASSUME NEW t \in Terminal, Resize(t)
      PROVE  Sized'
  BY <1>3 DEF Resize, Sized
<1>. QED
  BY <1>1, <1>2, <1>3
     DEF Next, vars, size, Capture, Notice, Refetch, SetSession, HoverRow, Tab, Move, Enter, Toggle

\* No arithmetic of a cell of the screen goes wrong at its edges.
LEMMA Fits ==
  ASSUME WellFormed, Fitting, Sized
  PROVE  ChartFits
<1>1. PICK w \in Nat, h \in Nat : w = term.w /\ h = term.h
  BY DEF Sized, WellFormed
<1>2. PICK strip : strip = Strip(visible, height, term)
  OBVIOUS
<1>3. strip \in Int /\ (h >= 3 => 1 + strip < h)
  <2>1. CASE ~ visible
    BY <1>1, <1>2, <2>1 DEF Strip
  <2>2. CASE visible
    <3>1. PICK c \in Int : c = Clamp(height, h)
      BY Clamps DEF Sized
    <3>2. PICK m \in Int : m = Max({0, h - 2}) /\ (h >= 3 => m = h - 2)
      <4>1. PICK e \in Int : e = h - 2
        OBVIOUS
      <4>2. Max({0, e}) = IF 0 >= e THEN 0 ELSE e
        BY OfTwo
      <4>3. h >= 3 => e > 0
        BY <4>1
      <4>. QED
        BY <4>1, <4>2, <4>3
    <3>3. strip = Min({c, m})
      BY <1>1, <1>2, <2>2, <3>1, <3>2 DEF Strip
    <3>4. strip = IF c <= m THEN c ELSE m
      BY <3>3, OfTwo
    <3>. QED
      BY <3>2, <3>4
  <2>. QED
    BY <2>1, <2>2
<1>4. PICK plot : plot = Plot(w, strip)
  OBVIOUS
<1>5. PICK n \in Nat : n = Len(Bars)
  BY BarsShown
<1>6. ASSUME plot # None
      PROVE  /\ 0 < plot.top /\ plot.top <= plot.baseline
             /\ plot.baseline < plot.underbar /\ plot.underbar < strip
             /\ plot.bars = (w - 8) \div 2 /\ w >= 10
  BY <1>3, <1>4, <1>6 DEF Plot, MaxBars, YAxis
<1>7. ASSUME plot # None, NEW k, k = Shown(Bars, plot)
      PROVE  /\ k > 0 => YAxis + 2 * (k - 1) < w
             /\ k < n => YAxis + 2 * ((k + 1) - 1) >= w
  <2>1. PICK b \in Int : b = (w - 8) \div 2
    BY <1>6, <1>7
  <2>2. 2 * b <= w - 8 /\ w - 9 <= 2 * b
    BY <1>6, <1>7, <2>1
  <2>3. k = Min({n, b})
    BY <1>5, <1>6, <1>7, <2>1 DEF Shown
  <2>4. k = IF n <= b THEN n ELSE b
    BY <2>3, OfTwo
  <2>. QED
    BY <2>2, <2>4 DEF YAxis
<1>. QED
  BY <1>1, <1>2, <1>3, <1>4, <1>5, <1>6, <1>7 DEF ChartFits

\* Whatever the size of the terminal and the height that was asked for, the chart
\* is inside its strip, leaves the columns a row, and shows as many bars as fit.
THEOREM ChartAlwaysFits == WellFormed /\ Spec => []ChartFits
<1>. SUFFICES ASSUME WellFormed
              PROVE  Spec => []ChartFits
  OBVIOUS
<1>1. Init => Sized
  BY DEF Init, Sized
<1>2. Sized /\ [Next]_vars => Sized'
  BY SizedKept
<1>3. Fitting /\ Sized => ChartFits
  BY Fits
<1>4. Spec => []Fitting
  BY MarkedStaysUp
<1>. QED
  BY <1>1, <1>2, <1>3, <1>4, PTL DEF Spec

-----------------------------------------------------------------------------
(* The directories of the file touches column, whose sessions, keys and    *)
(* bounds go by the same names as the context widget's.                    *)

CONSTANT Call
VARIABLES client, session, trees, details, pane, marked, shut
Files == INSTANCE FileTouches

\* A pane whose open directories are those it knows and that are not closed.
Holds(p, closed) ==
  /\ DOMAIN p = {"open", "known", "focus", "rows", "dirs"}
  /\ p.open = p.known \ closed /\ closed \subseteq p.known /\ p.dirs \subseteq p.known
  /\ \A i \in DOMAIN p.rows : p.rows[i] \in p.known \cup {<<>>}

\* A draw opens what it finds that was not there before, and nothing else.
LEMMA DrawHolds ==
  ASSUME NEW p, NEW closed, Holds(p, closed), NEW t
  PROVE  Holds(Files!TuiDrawn(p, t), closed) /\ Holds(Files!WebDrawn(p, t), closed)
<1>1. ASSUME NEW dirs, NEW q, q = Files!Opens(p, dirs)
      PROVE  Holds(q, closed) /\ dirs \subseteq q.known
  <2>1. /\ DOMAIN q = {"open", "known", "focus", "rows", "dirs"}
        /\ q.known = p.known \cup dirs /\ q.open = p.open \cup (dirs \ p.known)
        /\ q.dirs = p.dirs /\ q.rows = p.rows
    BY <1>1 DEF Files!Opens, Holds
  <2>. QED
    BY <2>1 DEF Holds
<1>2. Holds(Files!WebDrawn(p, t), closed)
  <2>1. PICK dirs, q, r : /\ dirs = Files!WebDirs(t) /\ q = Files!Opens(p, dirs)
                          /\ r = [q EXCEPT !.dirs = dirs]
    OBVIOUS
  <2>2. Holds(q, closed) /\ dirs \subseteq q.known
    BY <1>1, <2>1
  <2>3. /\ DOMAIN r = DOMAIN q /\ r.dirs = dirs
        /\ r.known = q.known /\ r.open = q.open /\ r.rows = q.rows
    BY <2>1, <2>2 DEF Holds
  <2>4. Holds(r, closed)
    BY <2>2, <2>3 DEF Holds
  <2>. QED
    BY <2>1, <2>4 DEF Files!WebDrawn
<1>3. Holds(Files!TuiDrawn(p, t), closed)
  <2>1. CASE t = <<>>
    BY <2>1 DEF Files!TuiDrawn
  <2>2. CASE t # <<>>
    <3>1. PICK dirs, q, all, rows :
            /\ dirs = Files!Dirs(t) /\ q = Files!Opens(p, dirs) /\ all = Files!Rows(t, q.open)
            /\ rows = [i \in DOMAIN all |-> IF all[i] \in dirs THEN all[i] ELSE <<>>]
      OBVIOUS
    <3>2. Holds(q, closed) /\ dirs \subseteq q.known
      BY <1>1, <3>1
    <3>3. \A i \in DOMAIN rows : rows[i] \in q.known \cup {<<>>}
      BY <3>1, <3>2
    <3>4. PICK r : r = [q EXCEPT !.dirs = dirs, !.rows = rows,
                                 !.focus = IF @ >= Len(all) THEN Len(all) - 1 ELSE @]
      OBVIOUS
    <3>5. /\ DOMAIN r = DOMAIN q /\ r.dirs = dirs /\ r.rows = rows
          /\ r.known = q.known /\ r.open = q.open
      BY <3>2, <3>4 DEF Holds
    <3>6. Holds(r, closed)
      BY <3>2, <3>3, <3>5 DEF Holds
    <3>7. Files!TuiDrawn(p, t) = r
      BY <2>2, <3>1, <3>4 DEF Files!TuiDrawn
    <3>. QED
      BY <3>6, <3>7
  <2>. QED
    BY <2>1, <2>2
<1>. QED
  BY <1>2, <1>3

LEMMA ShowsHolds ==
  ASSUME NEW p, NEW s, NEW T, NEW D, Holds(p, shut'), Files!Shows(p, s, T, D)
  PROVE  Files!PaneKnown'
<1>1. Holds(pane', shut')
  <2>1. PICK t : t = Files!Shown(s, T, D)
    OBVIOUS
  <2>2. pane' = Files!TuiDrawn(p, t) \/ pane' = Files!WebDrawn(p, t)
    BY <2>1 DEF Files!Shows
  <2>. QED
    BY <2>2, DrawHolds
<1>2. marked' # None => marked' = Files!AtCursor(pane')
  BY DEF Files!Shows
<1>. QED
  BY <1>1, <1>2 DEF Holds, Files!PaneKnown, Files!OnlyUserCloses, Files!AtCursor

\* A key opens and closes what the user takes it for.
LEMMA KeyHolds ==
  ASSUME Files!PaneKnown,
         NEW k \in {"up", "down", "home", "end", "left", "right", "space", "+", "-"}
  PROVE  Holds(Files!Handled(pane, k), Files!Closed(k))
<1>1. Holds(pane, shut)
  BY DEF Files!PaneKnown, Files!OnlyUserCloses, Holds
<1>2. PICK at : at = Files!AtCursor(pane)
  OBVIOUS
<1>3. at \in pane.known \cup {<<>>}
  BY <1>1, <1>2 DEF Files!AtCursor, Holds
<1>4. Files!Meant = at
  BY <1>2 DEF Files!Meant, Files!Blank, Files!PaneKnown
<1>5. ASSUME NEW open, NEW closed, open = pane.known \ closed, closed \subseteq pane.known
      PROVE  Holds([pane EXCEPT !.open = open], closed)
  <2>1. PICK p : p = [pane EXCEPT !.open = open]
    OBVIOUS
  <2>2. /\ DOMAIN p = DOMAIN pane /\ p.open = open
        /\ p.known = pane.known /\ p.dirs = pane.dirs /\ p.rows = pane.rows
    BY <1>1, <2>1 DEF Holds
  <2>. QED
    BY <1>1, <1>5, <2>1, <2>2 DEF Holds
<1>6. ASSUME NEW focus
      PROVE  Holds([pane EXCEPT !.focus = focus], shut)
  <2>1. PICK p : p = [pane EXCEPT !.focus = focus]
    OBVIOUS
  <2>2. /\ DOMAIN p = DOMAIN pane /\ p.open = pane.open
        /\ p.known = pane.known /\ p.dirs = pane.dirs /\ p.rows = pane.rows
    BY <1>1, <2>1 DEF Holds
  <2>. QED
    BY <1>1, <2>1, <2>2 DEF Holds
<1>7. pane.open = pane.known \ shut /\ shut \subseteq pane.known /\ pane.dirs \subseteq pane.known
  BY <1>1 DEF Holds
<1>8. CASE k = "left"
  <2>1. CASE at = <<>>
    BY <1>1, <1>2, <1>4, <1>8, <2>1 DEF Files!Handled, Files!Closed
  <2>2. CASE at # <<>>
    <3>1. Files!Handled(pane, k) = [pane EXCEPT !.open = pane.open \ {at}]
      BY <1>2, <1>8, <2>2 DEF Files!Handled
    <3>2. Files!Closed(k) = shut \cup {at}
      BY <1>4, <1>8, <2>2 DEF Files!Closed
    <3>3. Holds([pane EXCEPT !.open = pane.open \ {at}], shut \cup {at})
      BY <1>3, <1>5, <1>7, <2>2
    <3>. QED
      BY <3>1, <3>2, <3>3
  <2>. QED
    BY <2>1, <2>2
<1>9. CASE k = "right"
  <2>1. CASE at = <<>>
    BY <1>1, <1>2, <1>4, <1>9, <2>1 DEF Files!Handled, Files!Closed
  <2>2. CASE at # <<>>
    <3>1. Files!Handled(pane, k) = [pane EXCEPT !.open = pane.open \cup {at}]
      BY <1>2, <1>9, <2>2 DEF Files!Handled
    <3>2. Files!Closed(k) = shut \ {at}
      BY <1>4, <1>9, <2>2 DEF Files!Closed
    <3>3. /\ pane.open \cup {at} = pane.known \ (shut \ {at})
          /\ shut \ {at} \subseteq pane.known
      BY <1>3, <1>7, <2>2
    <3>. QED
      BY <1>5, <3>1, <3>2, <3>3, Zenon
  <2>. QED
    BY <2>1, <2>2
<1>10. CASE k = "space"
  <2>1. CASE at = <<>>
    BY <1>1, <1>2, <1>4, <1>10, <2>1 DEF Files!Handled, Files!Closed
  <2>2. CASE at # <<>>
    <3>1. Files!Handled(pane, k) = [pane EXCEPT !.open = Files!Flip(pane.open, at)]
      BY <1>2, <1>10, <2>2 DEF Files!Handled
    <3>2. Files!Closed(k) = Files!Flip(shut, at)
      BY <1>4, <1>10, <2>2 DEF Files!Closed
    <3>3. /\ Files!Flip(pane.open, at) = pane.known \ Files!Flip(shut, at)
          /\ Files!Flip(shut, at) \subseteq pane.known
      BY <1>3, <1>7, <2>2 DEF Files!Flip
    <3>. QED
      BY <1>5, <3>1, <3>2, <3>3
  <2>. QED
    BY <2>1, <2>2
<1>11. CASE k \in {"+", "-"}
  <2>1. CASE pane.dirs = {}
    BY <1>1, <1>11, <2>1 DEF Files!Handled, Files!Closed
  <2>2. CASE pane.dirs # {} /\ k = "+"
    <3>1. /\ Files!Handled(pane, k) = [pane EXCEPT !.open = pane.dirs]
          /\ Files!Closed(k) = pane.known \ pane.dirs
      BY <2>2 DEF Files!Handled, Files!Closed
    <3>2. pane.dirs = pane.known \ (pane.known \ pane.dirs)
      BY <1>7
    <3>. QED
      BY <1>5, <3>1, <3>2
  <2>3. CASE pane.dirs # {} /\ k = "-"
    <3>1. /\ Files!Handled(pane, k) = [pane EXCEPT !.open = {}]
          /\ Files!Closed(k) = pane.known
      BY <2>3 DEF Files!Handled, Files!Closed
    <3>. QED
      BY <1>5, <3>1
  <2>. QED
    BY <1>11, <2>1, <2>2, <2>3
<1>12. CASE k \in {"up", "down", "home", "end"}
  <2>1. Files!Closed(k) = shut
    BY <1>12 DEF Files!Closed
  <2>2. \E focus : Files!Handled(pane, k) = [pane EXCEPT !.focus = focus]
    BY <1>12 DEF Files!Handled
  <2>. QED
    BY <1>6, <2>1, <2>2
<1>. QED
  BY <1>8, <1>9, <1>10, <1>11, <1>12

\* Every step of the column keeps its directories as the user left them.
LEMMA FilesKept == Files!PaneKnown /\ [Files!Next]_(Files!vars) => Files!PaneKnown'
<1>. SUFFICES ASSUME Files!PaneKnown, [Files!Next]_(Files!vars)
              PROVE  Files!PaneKnown'
  OBVIOUS
<1>1. Holds(pane, shut)
  BY DEF Files!PaneKnown, Files!OnlyUserCloses, Holds
<1>2. ASSUME UNCHANGED <<pane, shut>>, UNCHANGED marked
      PROVE  Files!PaneKnown'
  BY <1>2 DEF Files!PaneKnown, Files!OnlyUserCloses, Files!AtCursor
<1>3. ASSUME UNCHANGED shut, NEW s, NEW T, NEW D, Files!Shows(pane, s, T, D)
      PROVE  Files!PaneKnown'
  BY <1>1, <1>3, ShowsHolds
<1>4. ASSUME Files!Arrived
      PROVE  Files!PaneKnown'
  <2>1. CASE client = "web"
    BY <1>3, <1>4, <2>1 DEF Files!Arrived
  <2>2. CASE client # "web"
    BY <1>2, <1>4, <2>2 DEF Files!Arrived
  <2>. QED
    BY <2>1, <2>2
<1>5. ASSUME NEW s, Files!SetSession(s)
      PROVE  Files!PaneKnown'
  BY <1>3, <1>5 DEF Files!SetSession
<1>6. ASSUME NEW S, Files!Refetch(S)
      PROVE  Files!PaneKnown'
  BY <1>4, <1>6 DEF Files!Refetch
<1>7. ASSUME NEW n, Files!LoadDetail(n) \/ Files!Evict(n)
      PROVE  Files!PaneKnown'
  BY <1>4, <1>7 DEF Files!LoadDetail, Files!Evict
<1>8. CASE Files!Redraw
  BY <1>3, <1>8 DEF Files!Redraw
<1>9. ASSUME NEW k \in {"up", "down", "home", "end", "left", "right", "space", "+", "-"},
             Files!Key(k) \/ Files!Button(k)
      PROVE  Files!PaneKnown'
  <2>1. /\ shut' = Files!Closed(k)
        /\ Files!Shows(Files!Handled(pane, k), session, trees, details)
    BY <1>9 DEF Files!Key, Files!Button
  <2>2. Holds(Files!Handled(pane, k), shut')
    BY <2>1, KeyHolds
  <2>. QED
    BY <2>1, <2>2, ShowsHolds
<1>10. ASSUME NEW p \in pane.known, Files!Click(p)
       PROVE  Files!PaneKnown'
  <2>1. PICK q : q = [pane EXCEPT !.open = Files!Flip(@, p)]
    OBVIOUS
  <2>2. shut' = Files!Flip(shut, p) /\ Files!Shows(q, session, trees, details)
    BY <1>10, <2>1 DEF Files!Click
  <2>3. /\ DOMAIN q = DOMAIN pane /\ q.open = Files!Flip(pane.open, p)
        /\ q.known = pane.known /\ q.dirs = pane.dirs /\ q.rows = pane.rows
    BY <1>1, <2>1 DEF Holds
  <2>4. /\ Files!Flip(pane.open, p) = pane.known \ Files!Flip(shut, p)
        /\ Files!Flip(shut, p) \subseteq pane.known
    BY <1>1 DEF Holds, Files!Flip
  <2>5. Holds(q, shut')
    BY <1>1, <2>2, <2>3, <2>4 DEF Holds
  <2>. QED
    BY <2>2, <2>5, ShowsHolds
<1>11. CASE UNCHANGED Files!vars
  BY <1>2, <1>11 DEF Files!vars
<1>. QED
  BY <1>5, <1>6, <1>7, <1>8, <1>9, <1>10, <1>11 DEF Files!Next

\* In both clients a directory of the column that was ever shown is open unless
\* the user has closed it, whatever calls and details come, go and come again,
\* and whatever sessions the column shows in between.
THEOREM DirectoriesStayOpen == Files!Spec => []Files!OnlyUserCloses
<1>1. Files!Init => Files!PaneKnown
  BY DEF Files!Init, Files!PaneKnown, Files!OnlyUserCloses
<1>2. Files!PaneKnown /\ [Files!Next]_(Files!vars) => Files!PaneKnown'
  BY FilesKept
<1>3. Files!PaneKnown => Files!OnlyUserCloses
  BY DEF Files!PaneKnown
<1>. QED
  BY <1>1, <1>2, <1>3, PTL DEF Files!Spec
=============================================================================

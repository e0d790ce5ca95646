----------------------------- MODULE Feed_proofs -----------------------------
(***************************************************************************)
(* The live feed delivers in order and loses nothing unnoticed, and a      *)
(* client is connected once at most and shows whether it is, for any keys, *)
(* capacities, events, breaks and outages.                                 *)
(***************************************************************************)
EXTENDS Feed, SequenceTheorems, FiniteSetTheorems, TLAPS

-----------------------------------------------------------------------------
(* Sequences, and what of them is in order.                                *)

\* Membership in a bounded set of sequences.
LEMMA BoundedSequences ==
  ASSUME NEW S, NEW n \in Nat
  PROVE  /\ \A q : q \in BoundedSeq(S, n) <=> q \in Seq(S) /\ Len(q) <= n
         /\ <<>> \in BoundedSeq(S, n)
<1>1. ASSUME NEW q \in BoundedSeq(S, n)
      PROVE  q \in Seq(S) /\ Len(q) <= n
  <2>1. PICK m \in 0..n : q \in [1..m -> S]
    BY DEF BoundedSeq, SeqOf
  <2>2. m \in Nat /\ q \in Seq(S)
    BY <2>1, SeqDef
  <2>3. Len(q) = m
    BY <2>1, <2>2, LenProperties
  <2>. QED
    BY <2>2, <2>3
<1>2. ASSUME NEW q \in Seq(S), Len(q) <= n
      PROVE  q \in BoundedSeq(S, n)
  <2>1. Len(q) \in 0..n /\ q \in [1..Len(q) -> S]
    BY <1>2, LenProperties
  <2>. QED
    BY <2>1 DEF BoundedSeq, SeqOf
<1>3. <<>> \in Seq(S) /\ Len(<<>>) <= n
  BY EmptySeq
<1>. QED
  BY <1>1, <1>2, <1>3

\* The elements of a sequence are the values at its positions.
LEMMA ToSetDef ==
  ASSUME NEW S, NEW q \in Seq(S)
  PROVE  /\ \A x : x \in ToSet(q) <=> \E i \in 1..Len(q) : q[i] = x
         /\ ToSet(q) \subseteq S
<1>1. \A x : x \in ToSet(q) <=> \E i \in 1..Len(q) : q[i] = x
  BY LenProperties DEF ToSet
<1>. QED
  BY <1>1, ElementOfSeq

\* The elements of two sequences in a row.
LEMMA ToSetConcat ==
  ASSUME NEW S, NEW p \in Seq(S), NEW q \in Seq(S)
  PROVE  ToSet(p \o q) = ToSet(p) \cup ToSet(q)
<1>1. /\ p \o q \in Seq(S) /\ Len(p \o q) = Len(p) + Len(q)
      /\ Len(p) \in Nat /\ Len(q) \in Nat
      /\ \A i \in 1..(Len(p) + Len(q)) :
           (p \o q)[i] = IF i <= Len(p) THEN p[i] ELSE q[i - Len(p)]
  BY ConcatProperties, LenProperties
<1>2. ASSUME NEW x \in ToSet(p \o q)
      PROVE  x \in ToSet(p) \cup ToSet(q)
  <2>1. PICK i \in 1..Len(p \o q) : (p \o q)[i] = x
    BY <1>1, ToSetDef
  <2>2. CASE i <= Len(p)
    BY <1>1, <2>1, <2>2, ToSetDef
  <2>3. CASE ~(i <= Len(p))
    <3>1. i - Len(p) \in 1..Len(q) /\ q[i - Len(p)] = x
      BY <1>1, <2>1, <2>3
    <3>. QED
      BY <3>1, ToSetDef
  <2>. QED
    BY <2>2, <2>3
<1>3. ASSUME NEW x \in ToSet(p)
      PROVE  x \in ToSet(p \o q)
  <2>1. PICK i \in 1..Len(p) : p[i] = x
    BY ToSetDef
  <2>2. i \in 1..Len(p \o q) /\ (p \o q)[i] = x
    BY <1>1, <2>1
  <2>. QED
    BY <1>1, <2>2, ToSetDef
<1>4. ASSUME NEW x \in ToSet(q)
      PROVE  x \in ToSet(p \o q)
  <2>1. PICK i \in 1..Len(q) : q[i] = x
    BY ToSetDef
  <2>2. i + Len(p) \in 1..Len(p \o q) /\ (p \o q)[i + Len(p)] = x
    BY <1>1, <2>1
  <2>. QED
    BY <1>1, <2>2, ToSetDef
<1>. QED
  BY <1>2, <1>3, <1>4

LEMMA ToSetShort ==
  /\ ToSet(<<>>) = {}
  /\ \A x : ToSet(<<x>>) = {x}
BY DEF ToSet

LEMMA ToSetAppend ==
  ASSUME NEW S, NEW q \in Seq(S), NEW x \in S
  PROVE  ToSet(Append(q, x)) = ToSet(q) \cup {x}
<1>1. Append(q, x) = q \o <<x>>
  BY AppendIsConcat
<1>2. ToSet(q \o <<x>>) = ToSet(q) \cup ToSet(<<x>>)
  <2>1. <<x>> \in Seq(S)
    OBVIOUS
  <2>. QED
    BY <2>1, ToSetConcat
<1>. QED
  BY <1>1, <1>2, ToSetShort

\* A sequence is its head and its tail.
LEMMA HeadAndTail ==
  ASSUME NEW S, NEW q \in Seq(S), q # <<>>
  PROVE  /\ Head(q) \in S /\ Tail(q) \in Seq(S) /\ <<Head(q)>> \in Seq(S)
         /\ Len(Tail(q)) = Len(q) - 1 /\ Len(q) \in Nat \ {0}
         /\ q = <<Head(q)>> \o Tail(q)
         /\ ToSet(q) = {Head(q)} \cup ToSet(Tail(q))
<1>1. /\ Head(q) \in S /\ Tail(q) \in Seq(S) /\ <<Head(q)>> \in Seq(S)
      /\ Len(Tail(q)) = Len(q) - 1 /\ Len(q) \in Nat \ {0}
      /\ \A i \in 1..Len(Tail(q)) : Tail(q)[i] = q[i + 1]
  BY HeadTailProperties, EmptySeq
<1>2. q = <<Head(q)>> \o Tail(q)
  <2>. DEFINE p == <<Head(q)>> \o Tail(q)
  <2>1. /\ p \in Seq(S) /\ Len(p) = Len(q)
        /\ \A i \in 1..Len(q) : p[i] = IF i <= 1 THEN Head(q) ELSE Tail(q)[i - 1]
    <3>1. Len(<<Head(q)>>) = 1 /\ <<Head(q)>>[1] = Head(q)
      OBVIOUS
    <3>2. /\ p \in Seq(S) /\ Len(p) = 1 + Len(Tail(q))
          /\ \A i \in 1..(1 + Len(Tail(q))) :
               p[i] = IF i <= 1 THEN <<Head(q)>>[i] ELSE Tail(q)[i - 1]
      BY <1>1, <3>1, ConcatProperties
    <3>. HIDE DEF p
    <3>. QED
      BY <1>1, <3>1, <3>2
  <2>2. ASSUME NEW i \in 1..Len(q)
        PROVE  p[i] = q[i]
    <3>. HIDE DEF p
    <3>1. CASE i = 1
      BY <1>1, <2>1, <3>1
    <3>2. CASE i # 1
      <4>1. i - 1 \in 1..Len(Tail(q)) /\ p[i] = Tail(q)[i - 1]
        BY <1>1, <2>1, <3>2
      <4>2. Tail(q)[i - 1] = q[(i - 1) + 1]
        BY <1>1, <4>1
      <4>. QED
        BY <1>1, <4>1, <4>2
    <3>. QED
      BY <3>1, <3>2
  <2>. HIDE DEF p
  <2>3. p = q
    BY <2>1, <2>2, SeqEqual
  <2>. QED
    BY <2>3 DEF p
<1>3. ToSet(<<Head(q)>> \o Tail(q)) = ToSet(<<Head(q)>>) \cup ToSet(Tail(q))
  BY <1>1, ToSetConcat
<1>. QED
  BY <1>1, <1>2, <1>3, ToSetShort

\* Where the stages of the feed are divided makes no difference.
LEMMA Associates ==
  \A p, q, r \in Seq(Nat) : (p \o q) \o r = p \o (q \o r)
BY ConcatAssociative

\* Handing the head of one stage to the next leaves the whole as it was.
LEMMA Handed ==
  ASSUME NEW p \in Seq(Nat), NEW q \in Seq(Nat), NEW r \in Seq(Nat), r # <<>>
  PROVE  p \o Append(q, Head(r)) \o Tail(r) = p \o q \o r
<1>1. PICK h \in Seq(Nat), t \in Seq(Nat) : h = <<Head(r)>> /\ t = Tail(r) /\ r = h \o t
  BY HeadAndTail
<1>2. Append(q, Head(r)) = q \o h
  <2>1. Head(r) \in Nat
    BY HeadAndTail
  <2>. QED
    BY <1>1, <2>1, AppendIsConcat
<1>3. p \o (q \o h) = (p \o q) \o h
  BY <1>1, Associates
<1>4. ((p \o q) \o h) \o t = (p \o q) \o (h \o t)
  <2>1. PICK u \in Seq(Nat) : u = p \o q
    BY ConcatProperties
  <2>2. (u \o h) \o t = u \o (h \o t)
    BY <1>1, Associates
  <2>. QED
    BY <2>1, <2>2
<1>. QED
  BY <1>1, <1>2, <1>3, <1>4

-----------------------------------------------------------------------------
(* Order.                                                                  *)

Before(A, B) == \A x \in A \ {0}, y \in B \ {0} : x < y

\* Two sequences in a row are in order when each is and the first comes first.
LEMMA OrderedConcat ==
  ASSUME NEW p \in Seq(Nat), NEW q \in Seq(Nat)
  PROVE  Ordered(p \o q) <=> Ordered(p) /\ Ordered(q) /\ Before(ToSet(p), ToSet(q))
<1>1. /\ p \o q \in Seq(Nat) /\ Len(p \o q) = Len(p) + Len(q)
      /\ Len(p) \in Nat /\ Len(q) \in Nat
      /\ \A i \in 1..(Len(p) + Len(q)) :
           (p \o q)[i] = IF i <= Len(p) THEN p[i] ELSE q[i - Len(p)]
  BY ConcatProperties, LenProperties
<1>2. /\ \A i \in 1..Len(p) : (p \o q)[i] = p[i]
      /\ \A i \in 1..Len(q) : (p \o q)[i + Len(p)] = q[i]
  BY <1>1
<1>3. ASSUME Ordered(p \o q)
      PROVE  Ordered(p) /\ Ordered(q) /\ Before(ToSet(p), ToSet(q))
  <2>1. ASSUME NEW i \in 1..Len(p), NEW j \in 1..Len(p), i < j, p[i] # 0, p[j] # 0
        PROVE  p[i] < p[j]
    <3>1. i \in 1..Len(p \o q) /\ j \in 1..Len(p \o q)
      BY <1>1
    <3>. QED
      BY <1>2, <1>3, <2>1, <3>1 DEF Ordered
  <2>2. ASSUME NEW i \in 1..Len(q), NEW j \in 1..Len(q), i < j, q[i] # 0, q[j] # 0
        PROVE  q[i] < q[j]
    <3>1. /\ i + Len(p) \in 1..Len(p \o q) /\ j + Len(p) \in 1..Len(p \o q)
          /\ i + Len(p) < j + Len(p)
      BY <1>1, <2>2
    <3>. QED
      BY <1>2, <1>3, <2>2, <3>1 DEF Ordered
  <2>3. ASSUME NEW x \in ToSet(p) \ {0}, NEW y \in ToSet(q) \ {0}
        PROVE  x < y
    <3>1. PICK i \in 1..Len(p) : p[i] = x
      BY ToSetDef
    <3>2. PICK j \in 1..Len(q) : q[j] = y
      BY ToSetDef
    <3>3. i \in 1..Len(p \o q) /\ j + Len(p) \in 1..Len(p \o q) /\ i < j + Len(p)
      BY <1>1
    <3>. QED
      BY <1>2, <1>3, <3>1, <3>2, <3>3 DEF Ordered
  <2>. QED
    BY <2>1, <2>2, <2>3 DEF Ordered, Before
<1>4. ASSUME Ordered(p), Ordered(q), Before(ToSet(p), ToSet(q)),
             NEW i \in 1..Len(p \o q), NEW j \in 1..Len(p \o q),
             i < j, (p \o q)[i] # 0, (p \o q)[j] # 0
      PROVE  (p \o q)[i] < (p \o q)[j]
  <2>1. CASE j <= Len(p)
    <3>1. /\ i \in 1..Len(p) /\ j \in 1..Len(p)
          /\ (p \o q)[i] = p[i] /\ (p \o q)[j] = p[j]
      BY <1>1, <1>4, <2>1
    <3>. QED
      BY <1>4, <3>1 DEF Ordered
  <2>2. CASE i > Len(p)
    <3>1. /\ i - Len(p) \in 1..Len(q) /\ j - Len(p) \in 1..Len(q) /\ i - Len(p) < j - Len(p)
          /\ (p \o q)[i] = q[i - Len(p)] /\ (p \o q)[j] = q[j - Len(p)]
      BY <1>1, <1>4, <2>2
    <3>. QED
      BY <1>4, <3>1 DEF Ordered
  <2>3. CASE i <= Len(p) /\ Len(p) < j
    <3>1. /\ i \in 1..Len(p) /\ j - Len(p) \in 1..Len(q)
          /\ (p \o q)[i] = p[i] /\ (p \o q)[j] = q[j - Len(p)]
      BY <1>1, <1>4, <2>3
    <3>2. p[i] \in ToSet(p) \ {0} /\ q[j - Len(p)] \in ToSet(q) \ {0}
      BY <1>4, <3>1, ToSetDef
    <3>. QED
      BY <1>4, <3>1, <3>2 DEF Before
  <2>. QED
    BY <1>1, <2>1, <2>2, <2>3
<1>. QED
  BY <1>3, <1>4 DEF Ordered

\* A piece that drops out of the middle leaves the rest in order.
LEMMA Dropped ==
  ASSUME NEW p \in Seq(Nat), NEW q \in Seq(Nat), NEW r \in Seq(Nat)
  PROVE  /\ Ordered(p \o q \o r) => Ordered(p \o r)
         /\ ToSet(p \o q \o r) = ToSet(p \o r) \cup ToSet(q)
<1>1. /\ p \o q \in Seq(Nat)
      /\ ToSet(p \o q) = ToSet(p) \cup ToSet(q)
      /\ ToSet(p \o r) = ToSet(p) \cup ToSet(r)
  BY ConcatProperties, ToSetConcat
<1>2. ToSet(p \o q \o r) = ToSet(p \o q) \cup ToSet(r)
  <2>. DEFINE a == p \o q
  <2>1. a \in Seq(Nat)
    BY <1>1
  <2>. HIDE DEF a
  <2>2. ToSet(a \o r) = ToSet(a) \cup ToSet(r)
    BY <2>1, ToSetConcat
  <2>. QED
    BY <2>2 DEF a
<1>3. Ordered(p \o q \o r) => Ordered(p \o q) /\ Ordered(r) /\ Before(ToSet(p \o q), ToSet(r))
  BY <1>1, OrderedConcat
<1>4. Ordered(p \o q) => Ordered(p)
  BY OrderedConcat
<1>5. Before(ToSet(p \o q), ToSet(r)) => Before(ToSet(p), ToSet(r))
  BY <1>1 DEF Before
<1>6. Ordered(p) /\ Ordered(r) /\ Before(ToSet(p), ToSet(r)) => Ordered(p \o r)
  BY OrderedConcat
<1>. QED
  BY <1>1, <1>2, <1>3, <1>4, <1>5, <1>6

\* A hello may come in anywhere, and a greater number at the end.
LEMMA HelloAnywhere ==
  ASSUME NEW p \in Seq(Nat), NEW q \in Seq(Nat)
  PROVE  /\ Ordered(p \o q) => Ordered(Append(p, 0) \o q)
         /\ ToSet(Append(p, 0) \o q) = ToSet(p \o q) \cup {0}
<1>1. /\ Append(p, 0) = p \o <<0>> /\ <<0>> \in Seq(Nat) /\ Append(p, 0) \in Seq(Nat)
      /\ ToSet(Append(p, 0)) = ToSet(p) \cup {0}
      /\ ToSet(p \o q) = ToSet(p) \cup ToSet(q)
  BY AppendIsConcat, AppendProperties, ToSetAppend, ToSetConcat
<1>2. ToSet(Append(p, 0) \o q) = ToSet(Append(p, 0)) \cup ToSet(q)
  <2>. DEFINE a == Append(p, 0)
  <2>1. a \in Seq(Nat)
    BY <1>1
  <2>. HIDE DEF a
  <2>2. ToSet(a \o q) = ToSet(a) \cup ToSet(q)
    BY <2>1, ToSetConcat
  <2>. QED
    BY <2>2 DEF a
<1>3. Ordered(p \o q) => Ordered(p) /\ Ordered(q) /\ Before(ToSet(p), ToSet(q))
  BY OrderedConcat
<1>4. Ordered(<<0>>)
  BY DEF Ordered
<1>5. Before(ToSet(p), ToSet(<<0>>))
  BY ToSetShort DEF Before
<1>6. Ordered(p) => Ordered(p \o <<0>>)
  BY <1>1, <1>4, <1>5, OrderedConcat
<1>7. Before(ToSet(p), ToSet(q)) => Before(ToSet(Append(p, 0)), ToSet(q))
  BY <1>1 DEF Before
<1>8. /\ Ordered(Append(p, 0)) /\ Ordered(q) /\ Before(ToSet(Append(p, 0)), ToSet(q))
      => Ordered(Append(p, 0) \o q)
  BY <1>1, OrderedConcat
<1>. QED
  BY <1>1, <1>2, <1>3, <1>6, <1>7, <1>8

LEMMA GreaterAtTheEnd ==
  ASSUME NEW p \in Seq(Nat), NEW e \in Nat, \A x \in ToSet(p) : x < e, Ordered(p)
  PROVE  /\ Ordered(Append(p, e))
         /\ ToSet(Append(p, e)) = ToSet(p) \cup {e}
<1>1. Append(p, e) = p \o <<e>> /\ <<e>> \in Seq(Nat)
  BY AppendIsConcat
<1>2. Ordered(<<e>>)
  BY DEF Ordered
<1>3. Before(ToSet(p), ToSet(<<e>>))
  BY ToSetShort DEF Before
<1>. QED
  BY <1>1, <1>2, <1>3, OrderedConcat, ToSetAppend

-----------------------------------------------------------------------------
(* Channels, and the types.                                                *)

\* What a channel is, what a push adds to it, and what it overwrites.
LEMMA ChannelDef ==
  ASSUME NEW cap \in Nat, NEW S, NEW ch \in Channel(cap, S)
  PROVE  /\ ch.unread \in Seq(S) /\ Len(ch.unread) <= cap /\ ch.lagged \in BOOLEAN
         /\ ch = [unread |-> ch.unread, lagged |-> ch.lagged]
         /\ ch # Empty /\ ~ch.lagged => ch.unread # <<>>
<1>1. /\ ch.unread \in BoundedSeq(S, cap) /\ ch.lagged \in BOOLEAN
      /\ ch = [unread |-> ch.unread, lagged |-> ch.lagged]
  BY DEF Channel
<1>. QED
  BY <1>1, BoundedSequences DEF Empty

LEMMA MakeChannel ==
  ASSUME NEW cap \in Nat, NEW S
  PROVE  \A q \in Seq(S), l \in BOOLEAN :
           Len(q) <= cap => [unread |-> q, lagged |-> l] \in Channel(cap, S)
BY BoundedSequences DEF Channel

LEMMA EmptyChannel ==
  ASSUME NEW cap \in Nat, NEW S
  PROVE  Empty \in Channel(cap, S) /\ Empty.unread = <<>>
<1>1. <<>> \in Seq(S) /\ Len(<<>>) <= cap
  BY EmptySeq
<1>2. [unread |-> <<>>, lagged |-> FALSE] \in Channel(cap, S)
  BY <1>1, MakeChannel
<1>. QED
  BY <1>2 DEF Empty

LEMMA Pushed ==
  ASSUME NEW cap \in Nat \ {0}, NEW S, NEW ch \in Channel(cap, S), NEW m \in S
  PROVE  /\ Push(cap, ch, m) \in Channel(cap, S)
         /\ Overwritten(cap, ch) \subseteq S
         /\ \/ /\ Push(cap, ch, m).unread = Append(ch.unread, m)
               /\ Overwritten(cap, ch) = {}
            \/ /\ ch.unread # <<>>
               /\ Push(cap, ch, m).unread = Append(Tail(ch.unread), m)
               /\ Overwritten(cap, ch) = {Head(ch.unread)}
<1>1. /\ ch.unread \in Seq(S) /\ Len(ch.unread) <= cap /\ ch.lagged \in BOOLEAN
      /\ Len(ch.unread) \in Nat
  BY ChannelDef, LenProperties
<1>2. CASE Len(ch.unread) < cap
  <2>1. /\ Push(cap, ch, m) = [unread |-> Append(ch.unread, m), lagged |-> ch.lagged]
        /\ Overwritten(cap, ch) = {}
    <3>1. ch = [unread |-> ch.unread, lagged |-> ch.lagged]
      BY ChannelDef
    <3>2. [ch EXCEPT !.unread = Append(@, m)]
            = [unread |-> Append(ch.unread, m), lagged |-> ch.lagged]
      BY <3>1
    <3>. QED
      BY <1>2, <3>2 DEF Push, Overwritten
  <2>2. Append(ch.unread, m) \in Seq(S) /\ Len(Append(ch.unread, m)) <= cap
    BY <1>1, <1>2, AppendProperties
  <2>3. [unread |-> Append(ch.unread, m), lagged |-> ch.lagged] \in Channel(cap, S)
    BY <1>1, <2>2, MakeChannel
  <2>. QED
    BY <2>1, <2>3
<1>3. CASE ~(Len(ch.unread) < cap)
  <2>1. ch.unread # <<>>
    BY <1>1, <1>3
  <2>2. /\ Push(cap, ch, m) = [unread |-> Append(Tail(ch.unread), m), lagged |-> TRUE]
        /\ Overwritten(cap, ch) = {Head(ch.unread)}
    BY <1>3 DEF Push, Overwritten
  <2>3. Tail(ch.unread) \in Seq(S) /\ Len(Tail(ch.unread)) = Len(ch.unread) - 1 /\ Head(ch.unread) \in S
    BY <1>1, <2>1, HeadTailProperties
  <2>4. Append(Tail(ch.unread), m) \in Seq(S) /\ Len(Append(Tail(ch.unread), m)) <= cap
    BY <1>1, <2>3, AppendProperties
  <2>5. [unread |-> Append(Tail(ch.unread), m), lagged |-> TRUE] \in Channel(cap, S)
    BY <2>4, MakeChannel
  <2>. QED
    BY <2>1, <2>2, <2>3, <2>5
<1>. QED
  BY <1>2, <1>3

LEMMA Popped ==
  ASSUME NEW cap \in Nat, NEW S, NEW ch \in Channel(cap, S), ch.unread # <<>>
  PROVE  /\ [ch EXCEPT !.unread = Tail(@)] \in Channel(cap, S)
         /\ [ch EXCEPT !.unread = Tail(@)].unread = Tail(ch.unread)
         /\ Head(ch.unread) \in S /\ Len(ch.unread) > 0
<1>1. /\ ch.unread \in Seq(S) /\ Len(ch.unread) <= cap /\ ch.lagged \in BOOLEAN
      /\ Len(ch.unread) \in Nat
      /\ ch = [unread |-> ch.unread, lagged |-> ch.lagged]
  BY ChannelDef, LenProperties
<1>2. /\ Tail(ch.unread) \in Seq(S) /\ Len(Tail(ch.unread)) = Len(ch.unread) - 1
      /\ Head(ch.unread) \in S /\ Len(ch.unread) > 0 /\ Len(Tail(ch.unread)) <= cap
  <2>1. /\ Tail(ch.unread) \in Seq(S) /\ Len(Tail(ch.unread)) = Len(ch.unread) - 1
        /\ Head(ch.unread) \in S /\ Len(ch.unread) \in Nat \ {0}
    BY <1>1, HeadAndTail
  <2>. QED
    BY <1>1, <2>1
<1>3. [ch EXCEPT !.unread = Tail(@)] = [unread |-> Tail(ch.unread), lagged |-> ch.lagged]
  BY <1>1
<1>4. [unread |-> Tail(ch.unread), lagged |-> ch.lagged] \in Channel(cap, S)
  BY <1>1, <1>2, MakeChannel
<1>. QED
  BY <1>2, <1>3, <1>4

LEMMA Unlagged ==
  ASSUME NEW cap \in Nat, NEW S, NEW ch \in Channel(cap, S)
  PROVE  /\ [ch EXCEPT !.lagged = FALSE] \in Channel(cap, S)
         /\ [ch EXCEPT !.lagged = FALSE].unread = ch.unread
BY DEF Channel

\* What the types say of the sequences.
LEMMA Typed ==
  ASSUME TypeOK
  PROVE  /\ MaxEvents \in Nat /\ WireCap \in Nat \ {0} /\ RingMax \in Nat \ {0}
         /\ BusCap \in Nat \ {0} /\ EnvelopeCap \in Nat \ {0} /\ StatusCap \in Nat \ {0}
         /\ FailLimit \in Nat \ {0} /\ MaxBreaks \in Nat /\ MaxOutages \in Nat
         /\ events \in Seq(Key) /\ Len(events) \in 0..MaxEvents
         /\ wire \in Seq(Message) /\ Len(wire) <= WireCap /\ Len(wire) \in Nat
         /\ rx.unread \in Seq(Event) /\ envRx.unread \in Seq(Message)
         /\ statusRx.unread \in Seq(Status)
         /\ Message \subseteq Nat /\ Event \subseteq Message
<1>1. /\ MaxEvents \in Nat /\ WireCap \in Nat \ {0} /\ RingMax \in Nat \ {0}
      /\ BusCap \in Nat \ {0} /\ EnvelopeCap \in Nat \ {0} /\ StatusCap \in Nat \ {0}
      /\ FailLimit \in Nat \ {0} /\ MaxBreaks \in Nat /\ MaxOutages \in Nat
  BY FeedAssumption
<1>2. events \in Seq(Key) /\ Len(events) \in 0..MaxEvents
  BY <1>1, BoundedSequences, LenProperties DEF TypeOK, ServerTypes, BusTypes, LoopTypes, WebTypes
<1>3. wire \in Seq(Message) /\ Len(wire) <= WireCap /\ Len(wire) \in Nat
  BY <1>1, BoundedSequences, LenProperties DEF TypeOK, ServerTypes, BusTypes, LoopTypes, WebTypes
<1>4. rx.unread \in Seq(Event)
  BY <1>1, ChannelDef DEF TypeOK, ServerTypes, BusTypes, LoopTypes, WebTypes
<1>5. envRx.unread \in Seq(Message)
  BY <1>1, ChannelDef DEF TypeOK, ServerTypes, BusTypes, LoopTypes, WebTypes
<1>6. statusRx.unread \in Seq(Status)
  BY <1>1, ChannelDef DEF TypeOK, ServerTypes, BusTypes, LoopTypes, WebTypes
<1>7. Message \subseteq Nat /\ Event \subseteq Message
  BY <1>1 DEF Message, Event
<1>. QED
  BY <1>1, <1>2, <1>3, <1>4, <1>5, <1>6, <1>7

LEMMA InitTyped == Init => TypeOK
<1>. SUFFICES ASSUME Init PROVE TypeOK
  OBVIOUS
<1>1. /\ MaxEvents \in Nat /\ WireCap \in Nat \ {0} /\ RingMax \in Nat \ {0}
      /\ BusCap \in Nat \ {0} /\ EnvelopeCap \in Nat \ {0} /\ StatusCap \in Nat \ {0}
      /\ FailLimit \in Nat \ {0} /\ MaxBreaks \in Nat /\ MaxOutages \in Nat
  BY FeedAssumption
<1>2. /\ <<>> \in BoundedSeq(Key, MaxEvents) /\ <<>> \in BoundedSeq(Message, WireCap)
      /\ <<>> \in BoundedSeq(Event, RingMax)
  BY <1>1, BoundedSequences
<1>3. Empty \in Channel(BusCap, Event)
  BY <1>1, EmptyChannel
<1>4. Empty \in Channel(StatusCap, Status)
  BY <1>1, EmptyChannel
<1>5. Empty \in Channel(EnvelopeCap, Message)
  BY <1>1, EmptyChannel
<1>6. <<>> \in Seq(Message)
  BY EmptySeq
<1>7. rings \in [Key -> BoundedSeq(Event, RingMax)] /\ count \in [Key -> 0..MaxEvents]
  BY <1>1, <1>2 DEF Init
<1>8. rx \in Channel(BusCap, Event) /\ statusRx \in Channel(StatusCap, Status)
      /\ envRx \in Channel(EnvelopeCap, Message)
  BY <1>3, <1>4, <1>5 DEF Init
<1>9. /\ events \in BoundedSeq(Key, MaxEvents) /\ wire \in BoundedSeq(Message, WireCap)
      /\ batch \in Seq(Message) /\ seen \in Seq(Message)
  BY <1>2, <1>6 DEF Init
<1>10. /\ from \in 0..MaxEvents /\ lost \subseteq Event /\ sockets \in 0..1
       /\ breaks \in 0..MaxBreaks /\ outages \in 0..MaxOutages
       /\ attempt \in 0..FailLimit /\ failures \in 0..FailLimit
       /\ status \in Status /\ shown \in Status
  BY <1>1 DEF Init, Status
<1>11. /\ who \in {"tui", "web"} /\ up \in BOOLEAN /\ open \in BOOLEAN
       /\ handler \in {"none", "upgraded", "greeting", "streaming"}
       /\ task \in {"off", "attempt", "connect", "read", "sleep"}
       /\ untold \in BOOLEAN /\ told \in BOOLEAN
       /\ app \in {"off", "made", "select", "drain", "status"}
       /\ ws \in {"null", "opening", "open"} /\ timer \in BOOLEAN /\ started \in BOOLEAN
  BY DEF Init
<1>. QED
  BY <1>7, <1>8, <1>9, <1>10, <1>11 DEF TypeOK, ServerTypes, BusTypes, LoopTypes, WebTypes

\* Cutting a connection leaves what had got onto the wire, or less.
LEMMA CutTyped ==
  ASSUME TypeOK, Cut
  PROVE  /\ open' = FALSE /\ handler' = "none" /\ from' = from
         /\ rx' = Empty /\ rx' \in Channel(BusCap, Event)
         /\ wire' \in BoundedSeq(Message, WireCap) /\ lost' \subseteq Event /\ lost \subseteq lost'
         /\ \E n \in 0..Len(wire) :
              /\ wire' = SubSeq(wire, 1, n)
              /\ ToSet(SubSeq(wire, n + 1, Len(wire))) \ {0} \subseteq lost'
              /\ ToSet(rx.unread) \subseteq lost'
<1>1. PICK n \in 0..Len(wire) :
        /\ wire' = SubSeq(wire, 1, n)
        /\ lost' = lost \cup (ToSet(SubSeq(wire, n + 1, Len(wire))) \ {0}) \cup ToSet(rx.unread)
  BY DEF Cut
<1>2. /\ wire \in Seq(Message) /\ Len(wire) <= WireCap /\ Len(wire) \in Nat /\ WireCap \in Nat
      /\ rx.unread \in Seq(Event) /\ BusCap \in Nat
  BY Typed
<1>3. \A i \in 1..Len(wire) : wire[i] \in Message
  BY <1>2, ElementOfSeq
<1>4. SubSeq(wire, 1, n) \in Seq(Message) /\ Len(SubSeq(wire, 1, n)) = n
  <2>1. \A i \in 1..n : wire[i] \in Message
    BY <1>2, <1>3
  <2>2. /\ SubSeq(wire, 1, n) \in Seq(Message)
        /\ Len(SubSeq(wire, 1, n)) = IF 1 <= n THEN n - 1 + 1 ELSE 0
    BY <1>2, <2>1, SubSeqProperties
  <2>. QED
    BY <1>2, <2>2
<1>5. SubSeq(wire, n + 1, Len(wire)) \in Seq(Message)
  <2>1. \A i \in (n + 1)..Len(wire) : wire[i] \in Message
    BY <1>2, <1>3
  <2>. QED
    BY <1>2, <2>1, SubSeqProperties
<1>6. ToSet(SubSeq(wire, n + 1, Len(wire))) \subseteq Message /\ ToSet(rx.unread) \subseteq Event
  BY <1>2, <1>5, ToSetDef
<1>7. lost' \subseteq Event
  BY <1>1, <1>6 DEF TypeOK, ServerTypes, BusTypes, LoopTypes, WebTypes, Message
<1>8. wire' \in BoundedSeq(Message, WireCap)
  <2>1. wire' \in Seq(Message) /\ Len(wire') <= WireCap
    BY <1>1, <1>2, <1>4
  <2>. QED
    BY <1>2, <2>1, BoundedSequences
<1>9. Empty \in Channel(BusCap, Event)
  BY <1>2, EmptyChannel
<1>. QED
  BY <1>1, <1>7, <1>8, <1>9 DEF Cut

LEMMA AcceptTyped ==
  ASSUME TypeOK, Accept
  PROVE  /\ open' = TRUE /\ handler' = "upgraded" /\ rx' = Empty /\ wire' = <<>>
         /\ rx' \in Channel(BusCap, Event) /\ wire' \in BoundedSeq(Message, WireCap)
         /\ from' = Len(events) /\ from' \in 0..MaxEvents
<1>1. BusCap \in Nat /\ WireCap \in Nat /\ Len(events) \in 0..MaxEvents
  BY Typed
<1>2. Empty \in Channel(BusCap, Event)
  BY <1>1, EmptyChannel
<1>3. <<>> \in BoundedSeq(Message, WireCap)
  BY <1>1, BoundedSequences
<1>. QED
  BY <1>1, <1>2, <1>3 DEF Accept

-----------------------------------------------------------------------------
(* The web client's rings.                                                 *)

Decreasing(q) == \A i, j \in 1..Len(q) : i < j => q[j] < q[i]

\* A new event comes first, and pushes the oldest out of a full ring.
LEMMA Unshifted ==
  ASSUME NEW q \in Seq(Event), Len(q) <= RingMax, Decreasing(q),
         NEW e \in Event, \A f \in ToSet(q) : f < e
  PROVE  LET r == Unshift(q, e) IN
         /\ r \in BoundedSeq(Event, RingMax)
         /\ Len(r) = IF Len(q) < RingMax THEN Len(q) + 1 ELSE RingMax
         /\ Decreasing(r)
         /\ e \in ToSet(r) /\ ToSet(r) \subseteq ToSet(q) \cup {e}
         /\ \A f \in ToSet(q) \ ToSet(r), g \in ToSet(r) : f < g
<1>. DEFINE a == <<e>> \o q
            n == IF Len(q) < RingMax THEN Len(q) + 1 ELSE RingMax
            r == SubSeq(a, 1, n)
<1>1. RingMax \in Nat \ {0} /\ Len(q) \in Nat /\ Event \subseteq Nat
  BY FeedAssumption, LenProperties DEF Event
<1>2. /\ a \in Seq(Event) /\ Len(a) = Len(q) + 1
      /\ \A i \in 1..(Len(q) + 1) : a[i] = IF i <= 1 THEN e ELSE q[i - 1]
  <2>1. <<e>> \in Seq(Event) /\ Len(<<e>>) = 1 /\ <<e>>[1] = e
    OBVIOUS
  <2>2. /\ a \in Seq(Event) /\ Len(a) = 1 + Len(q)
        /\ \A i \in 1..(1 + Len(q)) : a[i] = IF i <= 1 THEN <<e>>[i] ELSE q[i - 1]
    BY <2>1, ConcatProperties
  <2>. HIDE DEF a
  <2>. QED
    BY <1>1, <2>1, <2>2
<1>3. n \in 1..RingMax /\ n <= Len(q) + 1 /\ n \in Int
  BY <1>1
<1>. HIDE DEF a, n
<1>4. /\ r \in Seq(Event) /\ Len(r) = n
      /\ \A i \in 1..n : r[i] = IF i <= 1 THEN e ELSE q[i - 1]
  <2>1. \A i \in 1..n : a[i] \in Event
    BY <1>1, <1>2, <1>3, ElementOfSeq
  <2>2. /\ r \in Seq(Event) /\ Len(r) = IF 1 <= n THEN n - 1 + 1 ELSE 0
        /\ \A i \in 1..(n - 1 + 1) : r[i] = a[1 + i - 1]
    BY <1>3, <2>1, SubSeqProperties
  <2>. HIDE DEF r
  <2>. QED
    BY <1>1, <1>2, <1>3, <2>2
<1>. HIDE DEF r
<1>5. \A i \in 1..Len(q) : q[i] \in Event /\ q[i] \in ToSet(q) /\ q[i] < e
  BY ElementOfSeq, ToSetDef
<1>6. Decreasing(r)
  <2>. SUFFICES ASSUME NEW i \in 1..n, NEW j \in 1..n, i < j
                PROVE  r[j] < r[i]
    BY <1>4 DEF Decreasing
  <2>1. r[j] = q[j - 1] /\ j - 1 \in 1..Len(q)
    BY <1>1, <1>3, <1>4
  <2>2. CASE i = 1
    BY <1>3, <1>4, <1>5, <2>1, <2>2
  <2>3. CASE i # 1
    <3>1. r[i] = q[i - 1] /\ i - 1 \in 1..Len(q) /\ i - 1 < j - 1
      BY <1>1, <1>3, <1>4, <2>3
    <3>. QED
      BY <2>1, <3>1 DEF Decreasing
  <2>. QED
    BY <2>2, <2>3
<1>7. e \in ToSet(r) /\ ToSet(r) \subseteq ToSet(q) \cup {e}
  <2>1. r[1] = e /\ 1 \in 1..Len(r)
    BY <1>3, <1>4
  <2>2. ASSUME NEW f \in ToSet(r), f # e
        PROVE  f \in ToSet(q)
    <3>1. PICK i \in 1..n : r[i] = f
      BY <1>4, ToSetDef
    <3>2. i - 1 \in 1..Len(q) /\ f = q[i - 1]
      BY <1>1, <1>3, <1>4, <2>2, <3>1
    <3>. QED
      BY <1>5, <3>2
  <2>. QED
    BY <1>4, <2>1, <2>2, ToSetDef
<1>8. ASSUME NEW f \in ToSet(q) \ ToSet(r), NEW g \in ToSet(r)
      PROVE  f < g
  <2>1. PICK i \in 1..Len(q) : q[i] = f
    BY ToSetDef
  <2>2. CASE g = e
    BY <2>2
  <2>3. CASE g # e
    <3>1. PICK j \in 1..n : r[j] = g
      BY <1>4, ToSetDef
    <3>2. j - 1 \in 1..Len(q) /\ g = q[j - 1]
      BY <1>1, <1>3, <1>4, <2>3, <3>1
    <3>3. ~(i < n)
      <4>1. SUFFICES ASSUME i < n PROVE FALSE
        OBVIOUS
      <4>2. i + 1 \in 1..n /\ r[i + 1] = q[i]
        BY <1>1, <1>3, <1>4, <4>1
      <4>. QED
        BY <1>4, <2>1, <4>2, ToSetDef
    <3>4. j - 1 < i
      BY <1>1, <1>3, <3>2, <3>3
    <3>. QED
      BY <2>1, <3>2, <3>4 DEF Decreasing
  <2>. QED
    BY <2>2, <2>3
<1>9. r \in BoundedSeq(Event, RingMax)
  BY <1>1, <1>3, <1>4, BoundedSequences
<1>. QED
  BY <1>4, <1>6, <1>7, <1>8, <1>9 DEF Unshift, r, a, n

-----------------------------------------------------------------------------
(* Every action keeps the types.                                           *)

LEMMA PublishTyped ==
  ASSUME TypeOK, NEW k \in Key, Publish(k)
  PROVE  TypeOK'
<1>1. /\ events \in Seq(Key) /\ Len(events) \in 0..MaxEvents /\ MaxEvents \in Nat
      /\ BusCap \in Nat \ {0} /\ rx \in Channel(BusCap, Event)
  BY Typed DEF TypeOK, ServerTypes, BusTypes, LoopTypes, WebTypes
<1>2. /\ events' = Append(events, k) /\ events' \in Seq(Key)
      /\ Len(events') = Len(events) + 1 /\ Len(events') \in Event
  BY <1>1, AppendProperties DEF Publish, Event
<1>3. events' \in BoundedSeq(Key, MaxEvents)
  <2>1. events' \in Seq(Key) /\ Len(events') <= MaxEvents
    BY <1>1, <1>2 DEF Event
  <2>. QED
    BY <1>1, <2>1, BoundedSequences
<1>4. Push(BusCap, rx, Len(events')) \in Channel(BusCap, Event) /\ Overwritten(BusCap, rx) \subseteq Event
  BY <1>1, <1>2, Pushed
<1>5. rx' \in Channel(BusCap, Event) /\ lost' \subseteq Event
  BY <1>1, <1>4 DEF Publish, TypeOK, ServerTypes, BusTypes, LoopTypes, WebTypes
<1>21. ServerTypes'
  BY <1>3, <1>5 DEF TypeOK, ServerTypes, Publish, bounds, tuiVars, webVars
<1>22. BusTypes'
  BY <1>3, <1>5 DEF TypeOK, BusTypes, Publish, bounds, tuiVars, webVars
<1>23. LoopTypes'
  BY <1>3, <1>5 DEF TypeOK, LoopTypes, Publish, bounds, tuiVars, webVars
<1>24. WebTypes'
  BY <1>3, <1>5 DEF TypeOK, WebTypes, Publish, bounds, tuiVars, webVars
<1>. QED
  BY <1>21, <1>22, <1>23, <1>24 DEF TypeOK

LEMMA ServeTyped ==
  ASSUME TypeOK, NotBegun, Serve
  PROVE  TypeOK'
<1>1. /\ WireCap \in Nat \ {0} /\ BusCap \in Nat \ {0} /\ Len(events) \in 0..MaxEvents
      /\ wire \in Seq(Message) /\ Len(wire) \in Nat /\ Event \subseteq Message
      /\ rx \in Channel(BusCap, Event)
  BY Typed DEF TypeOK, ServerTypes, BusTypes, LoopTypes, WebTypes
<1>2. rx' \in Channel(BusCap, Event)
  <2>1. Empty \in Channel(BusCap, Event)
    BY <1>1, EmptyChannel
  <2>2. rx.unread # <<>> => [rx EXCEPT !.unread = Tail(@)] \in Channel(BusCap, Event)
    BY <1>1, Popped
  <2>3. [rx EXCEPT !.lagged = FALSE] \in Channel(BusCap, Event)
    BY <1>1, Unlagged
  <2>. QED
    BY <1>1, <2>1, <2>2, <2>3
    DEF Serve, ClientLoop, Serves, Subscribe, SendHello, Forward, Lag
<1>3. wire' \in BoundedSeq(Message, WireCap)
  <2>1. CASE Forward
    <3>1. Head(rx.unread) \in Event
      BY <1>1, <2>1, Popped DEF Forward
    <3>2. Append(wire, Head(rx.unread)) \in Seq(Message) /\ Len(Append(wire, Head(rx.unread))) <= WireCap
      BY <1>1, <2>1, <3>1, AppendProperties DEF Forward
    <3>. QED
      BY <1>1, <2>1, <3>2, BoundedSequences DEF Forward
  <2>2. CASE SendHello
    <3>1. wire = <<>> /\ wire' = <<0>>
      BY <2>2 DEF SendHello, NotBegun
    <3>2. <<0>> \in Seq(Message) /\ Len(<<0>>) <= WireCap
      BY <1>1 DEF Message
    <3>. QED
      BY <1>1, <3>1, <3>2, BoundedSequences
  <2>3. CASE Subscribe \/ Lag
    BY <2>3 DEF TypeOK, ServerTypes, Subscribe, Lag
  <2>. QED
    BY <2>1, <2>2, <2>3 DEF Serve, ClientLoop, Serves
<1>4. /\ from' \in 0..MaxEvents
      /\ handler' \in {"none", "upgraded", "greeting", "streaming"}
  BY <1>1 DEF TypeOK, ServerTypes, BusTypes, LoopTypes, WebTypes, Serve, ClientLoop, Serves, Subscribe, SendHello, Forward, Lag
<1>21. ServerTypes'
  BY <1>2, <1>3, <1>4 DEF TypeOK, ServerTypes, Serve, bounds, tuiVars, webVars
<1>22. BusTypes'
  BY <1>2, <1>3, <1>4 DEF TypeOK, BusTypes, Serve, bounds, tuiVars, webVars
<1>23. LoopTypes'
  BY <1>2, <1>3, <1>4 DEF TypeOK, LoopTypes, Serve, bounds, tuiVars, webVars
<1>24. WebTypes'
  BY <1>2, <1>3, <1>4 DEF TypeOK, WebTypes, Serve, bounds, tuiVars, webVars
<1>. QED
  BY <1>21, <1>22, <1>23, <1>24 DEF TypeOK

LEMMA ServerTyped ==
  ASSUME TypeOK, Break \/ Stop \/ Restart
  PROVE  TypeOK'
<1>1. MaxBreaks \in Nat /\ MaxOutages \in Nat
  BY Typed
<1>2. CASE Break
  <2>1. breaks' \in 0..MaxBreaks
    BY <1>1, <1>2 DEF Break, TypeOK, ServerTypes, BusTypes, LoopTypes, WebTypes
  <2>2. Cut
    BY <1>2 DEF Break
  <2>21. ServerTypes'
    BY <1>2, <2>1, <2>2, CutTyped DEF TypeOK, ServerTypes, Break, tuiVars, webVars
  <2>22. BusTypes'
    BY <1>2, <2>1, <2>2, CutTyped DEF TypeOK, BusTypes, Break, tuiVars, webVars
  <2>23. LoopTypes'
    BY <1>2, <2>1, <2>2, CutTyped DEF TypeOK, LoopTypes, Break, tuiVars, webVars
  <2>24. WebTypes'
    BY <1>2, <2>1, <2>2, CutTyped DEF TypeOK, WebTypes, Break, tuiVars, webVars
  <2>. QED
    BY <2>21, <2>22, <2>23, <2>24 DEF TypeOK
<1>3. CASE Stop /\ open
  <2>1. outages' \in 0..MaxOutages
    BY <1>1, <1>3 DEF Stop, TypeOK, ServerTypes, BusTypes, LoopTypes, WebTypes
  <2>2. Cut
    BY <1>3 DEF Stop
  <2>21. ServerTypes'
    BY <1>3, <2>1, <2>2, CutTyped DEF TypeOK, ServerTypes, Stop, tuiVars, webVars
  <2>22. BusTypes'
    BY <1>3, <2>1, <2>2, CutTyped DEF TypeOK, BusTypes, Stop, tuiVars, webVars
  <2>23. LoopTypes'
    BY <1>3, <2>1, <2>2, CutTyped DEF TypeOK, LoopTypes, Stop, tuiVars, webVars
  <2>24. WebTypes'
    BY <1>3, <2>1, <2>2, CutTyped DEF TypeOK, WebTypes, Stop, tuiVars, webVars
  <2>. QED
    BY <2>21, <2>22, <2>23, <2>24 DEF TypeOK
<1>4. CASE Stop /\ ~open
  <2>1. outages' \in 0..MaxOutages
    BY <1>1, <1>4 DEF Stop, TypeOK, ServerTypes, BusTypes, LoopTypes, WebTypes
  <2>21. ServerTypes'
    BY <1>4, <2>1 DEF TypeOK, ServerTypes, Stop, tuiVars, webVars, net
  <2>22. BusTypes'
    BY <1>4, <2>1 DEF TypeOK, BusTypes, Stop, tuiVars, webVars, net
  <2>23. LoopTypes'
    BY <1>4, <2>1 DEF TypeOK, LoopTypes, Stop, tuiVars, webVars, net
  <2>24. WebTypes'
    BY <1>4, <2>1 DEF TypeOK, WebTypes, Stop, tuiVars, webVars, net
  <2>. QED
    BY <2>21, <2>22, <2>23, <2>24 DEF TypeOK
<1>5. CASE Restart
  <2>1. ServerTypes'
    BY <1>5 DEF TypeOK, ServerTypes, Restart, bounds, tuiVars, webVars, net
  <2>2. BusTypes'
    BY <1>5 DEF TypeOK, BusTypes, Restart, bounds, tuiVars, webVars, net
  <2>3. LoopTypes'
    BY <1>5 DEF TypeOK, LoopTypes, Restart, bounds, tuiVars, webVars, net
  <2>4. WebTypes'
    BY <1>5 DEF TypeOK, WebTypes, Restart, bounds, tuiVars, webVars, net
  <2>. QED
    BY <2>1, <2>2, <2>3, <2>4 DEF TypeOK
<1>. QED
  BY <1>2, <1>3, <1>4, <1>5

LEMMA RunTyped ==
  ASSUME TypeOK, Start \/ Run
  PROVE  TypeOK'
<1>1. /\ FailLimit \in Nat \ {0} /\ StatusCap \in Nat \ {0} /\ EnvelopeCap \in Nat \ {0}
      /\ statusRx \in Channel(StatusCap, Status) /\ envRx \in Channel(EnvelopeCap, Message)
      /\ status \in Status /\ wire \in Seq(Message) /\ Len(wire) <= WireCap
      /\ WireCap \in Nat
  BY Typed DEF TypeOK, ServerTypes, BusTypes, LoopTypes, WebTypes
<1>2. \A n \in 0..FailLimit : Saturated(n) \in 0..FailLimit
  BY <1>1 DEF Saturated
<1>. USE DEF quiet, net, bounds, webVars, loopVars
<1>3. CASE Start
  <2>1. ServerTypes'
    BY <1>3 DEF TypeOK, ServerTypes, Start
  <2>2. BusTypes'
    BY <1>3 DEF TypeOK, BusTypes, Start
  <2>3. LoopTypes'
    BY <1>3 DEF TypeOK, LoopTypes, Start
  <2>4. WebTypes'
    BY <1>3 DEF TypeOK, WebTypes, Start
  <2>. QED
    BY <2>1, <2>2, <2>3, <2>4 DEF TypeOK
<1>4. CASE Tell
  <2>1. Push(StatusCap, statusRx, status) \in Channel(StatusCap, Status)
    BY <1>1, Pushed
  <2>21. ServerTypes'
    BY <1>4, <2>1 DEF TypeOK, ServerTypes, Tell
  <2>22. BusTypes'
    BY <1>4, <2>1 DEF TypeOK, BusTypes, Tell
  <2>23. LoopTypes'
    BY <1>4, <2>1 DEF TypeOK, LoopTypes, Tell
  <2>24. WebTypes'
    BY <1>4, <2>1 DEF TypeOK, WebTypes, Tell
  <2>. QED
    BY <2>21, <2>22, <2>23, <2>24 DEF TypeOK
<1>5. CASE Attempt
  <2>1. ServerTypes'
    BY <1>5 DEF TypeOK, ServerTypes, Attempt, SetStatus, Status
  <2>2. BusTypes'
    BY <1>5 DEF TypeOK, BusTypes, Attempt, SetStatus, Status
  <2>3. LoopTypes'
    BY <1>5 DEF TypeOK, LoopTypes, Attempt, SetStatus, Status
  <2>4. WebTypes'
    BY <1>5 DEF TypeOK, WebTypes, Attempt, SetStatus, Status
  <2>. QED
    BY <2>1, <2>2, <2>3, <2>4 DEF TypeOK
<1>6. CASE ConnectOk
  <2>1. Accept
    BY <1>6 DEF ConnectOk
  <2>21. ServerTypes'
    BY <1>1, <1>6, <2>1, AcceptTyped DEF TypeOK, ServerTypes, ConnectOk, SetStatus, Status
  <2>22. BusTypes'
    BY <1>1, <1>6, <2>1, AcceptTyped DEF TypeOK, BusTypes, ConnectOk, SetStatus, Status
  <2>23. LoopTypes'
    BY <1>1, <1>6, <2>1, AcceptTyped DEF TypeOK, LoopTypes, ConnectOk, SetStatus, Status
  <2>24. WebTypes'
    BY <1>1, <1>6, <2>1, AcceptTyped DEF TypeOK, WebTypes, ConnectOk, SetStatus, Status
  <2>. QED
    BY <2>21, <2>22, <2>23, <2>24 DEF TypeOK
<1>7. CASE ConnectFailed
  <2>1. ServerTypes'
    BY <1>2, <1>7 DEF TypeOK, ServerTypes, ConnectFailed
  <2>2. BusTypes'
    BY <1>2, <1>7 DEF TypeOK, BusTypes, ConnectFailed
  <2>3. LoopTypes'
    BY <1>2, <1>7 DEF TypeOK, LoopTypes, ConnectFailed
  <2>4. WebTypes'
    BY <1>2, <1>7 DEF TypeOK, WebTypes, ConnectFailed
  <2>. QED
    BY <2>1, <2>2, <2>3, <2>4 DEF TypeOK
<1>8. CASE Read
  <2>1. wire # <<>> /\ wire' = Tail(wire)
    BY <1>8 DEF Read
  <2>2. Head(wire) \in Message /\ Tail(wire) \in Seq(Message) /\ Len(Tail(wire)) = Len(wire) - 1
        /\ Len(wire) \in Nat
    BY <1>1, <2>1, HeadAndTail
  <2>3. wire' \in BoundedSeq(Message, WireCap)
    <3>1. wire' \in Seq(Message) /\ Len(wire') <= WireCap
      BY <1>1, <2>1, <2>2
    <3>. QED
      BY <1>1, <3>1, BoundedSequences
  <2>4. /\ Push(EnvelopeCap, envRx, Head(wire)) \in Channel(EnvelopeCap, Message)
        /\ Overwritten(EnvelopeCap, envRx) \subseteq Message
    BY <1>1, <2>2, Pushed
  <2>5. envRx' \in Channel(EnvelopeCap, Message) /\ lost' \subseteq Event
    BY <1>8, <2>2, <2>4 DEF Read, TypeOK, ServerTypes, BusTypes, LoopTypes, WebTypes, Message
  <2>21. ServerTypes'
    BY <1>8, <2>3, <2>5 DEF TypeOK, ServerTypes, Read
  <2>22. BusTypes'
    BY <1>8, <2>3, <2>5 DEF TypeOK, BusTypes, Read
  <2>23. LoopTypes'
    BY <1>8, <2>3, <2>5 DEF TypeOK, LoopTypes, Read
  <2>24. WebTypes'
    BY <1>8, <2>3, <2>5 DEF TypeOK, WebTypes, Read
  <2>. QED
    BY <2>21, <2>22, <2>23, <2>24 DEF TypeOK
<1>9. CASE Ended
  <2>1. ServerTypes'
    BY <1>2, <1>9 DEF TypeOK, ServerTypes, Ended
  <2>2. BusTypes'
    BY <1>2, <1>9 DEF TypeOK, BusTypes, Ended
  <2>3. LoopTypes'
    BY <1>2, <1>9 DEF TypeOK, LoopTypes, Ended
  <2>4. WebTypes'
    BY <1>2, <1>9 DEF TypeOK, WebTypes, Ended
  <2>. QED
    BY <2>1, <2>2, <2>3, <2>4 DEF TypeOK
<1>10. CASE Wake
  <2>1. ServerTypes'
    BY <1>10 DEF TypeOK, ServerTypes, Wake
  <2>2. BusTypes'
    BY <1>10 DEF TypeOK, BusTypes, Wake
  <2>3. LoopTypes'
    BY <1>10 DEF TypeOK, LoopTypes, Wake
  <2>4. WebTypes'
    BY <1>10 DEF TypeOK, WebTypes, Wake
  <2>. QED
    BY <2>1, <2>2, <2>3, <2>4 DEF TypeOK
<1>. QED
  BY <1>3, <1>4, <1>5, <1>6, <1>7, <1>8, <1>9, <1>10 DEF Run

LEMMA LoopTyped ==
  ASSUME TypeOK, Loop
  PROVE  TypeOK'
<1>1. /\ StatusCap \in Nat \ {0} /\ EnvelopeCap \in Nat \ {0}
      /\ statusRx \in Channel(StatusCap, Status) /\ envRx \in Channel(EnvelopeCap, Message)
      /\ batch \in Seq(Message) /\ seen \in Seq(Message)
  BY Typed DEF TypeOK, ServerTypes, BusTypes, LoopTypes, WebTypes
<1>. USE DEF quiet, net, bounds, webVars, busVars
<1>2. CASE AppNew
  <2>1. ServerTypes'
    BY <1>2 DEF TypeOK, ServerTypes, AppNew
  <2>2. BusTypes'
    BY <1>2 DEF TypeOK, BusTypes, AppNew
  <2>3. LoopTypes'
    BY <1>2 DEF TypeOK, BusTypes, LoopTypes, AppNew
  <2>4. WebTypes'
    BY <1>2 DEF TypeOK, WebTypes, AppNew
  <2>. QED
    BY <2>1, <2>2, <2>3, <2>4 DEF TypeOK
<1>3. CASE EventLoop
  <2>1. Empty \in Channel(StatusCap, Status)
    BY <1>1, EmptyChannel
  <2>2. Empty \in Channel(EnvelopeCap, Message)
    BY <1>1, EmptyChannel
  <2>21. ServerTypes'
    BY <1>3, <2>1, <2>2 DEF TypeOK, ServerTypes, EventLoop
  <2>22. BusTypes'
    BY <1>3, <2>1, <2>2 DEF TypeOK, BusTypes, EventLoop
  <2>23. LoopTypes'
    BY <1>3, <2>1, <2>2 DEF TypeOK, LoopTypes, EventLoop
  <2>24. WebTypes'
    BY <1>3, <2>1, <2>2 DEF TypeOK, WebTypes, EventLoop
  <2>. QED
    BY <2>21, <2>22, <2>23, <2>24 DEF TypeOK
<1>4. CASE RecvEnvelope
  <2>1. CASE envRx.lagged
    <3>1. [envRx EXCEPT !.lagged = FALSE] \in Channel(EnvelopeCap, Message)
      BY <1>1, Unlagged
    <3>21. ServerTypes'
      BY <1>4, <2>1, <3>1 DEF TypeOK, ServerTypes, RecvEnvelope
    <3>22. BusTypes'
      BY <1>4, <2>1, <3>1 DEF TypeOK, BusTypes, RecvEnvelope
    <3>23. LoopTypes'
      BY <1>4, <2>1, <3>1 DEF TypeOK, LoopTypes, RecvEnvelope
    <3>24. WebTypes'
      BY <1>4, <2>1, <3>1 DEF TypeOK, WebTypes, RecvEnvelope
    <3>. QED
      BY <3>21, <3>22, <3>23, <3>24 DEF TypeOK
  <2>2. CASE ~envRx.lagged
    <3>1. envRx.unread # <<>>
      BY <1>1, <1>4, <2>2, ChannelDef DEF RecvEnvelope, IsEmpty
    <3>2. [envRx EXCEPT !.unread = Tail(@)] \in Channel(EnvelopeCap, Message) /\ Head(envRx.unread) \in Message
      BY <1>1, <3>1, Popped
    <3>3. Append(batch, Head(envRx.unread)) \in Seq(Message)
      BY <1>1, <3>2, AppendProperties
    <3>21. ServerTypes'
      BY <1>4, <2>2, <3>2, <3>3 DEF TypeOK, ServerTypes, RecvEnvelope
    <3>22. BusTypes'
      BY <1>4, <2>2, <3>2, <3>3 DEF TypeOK, BusTypes, RecvEnvelope
    <3>23. LoopTypes'
      BY <1>4, <2>2, <3>2, <3>3 DEF TypeOK, LoopTypes, RecvEnvelope
    <3>24. WebTypes'
      BY <1>4, <2>2, <3>2, <3>3 DEF TypeOK, WebTypes, RecvEnvelope
    <3>. QED
      BY <3>21, <3>22, <3>23, <3>24 DEF TypeOK
  <2>. QED
    BY <2>1, <2>2
<1>5. CASE RecvStatus
  <2>1. CASE statusRx.lagged
    <3>1. [statusRx EXCEPT !.lagged = FALSE] \in Channel(StatusCap, Status)
      BY <1>1, Unlagged
    <3>21. ServerTypes'
      BY <1>5, <2>1, <3>1 DEF TypeOK, ServerTypes, RecvStatus, StatusTaken
    <3>22. BusTypes'
      BY <1>5, <2>1, <3>1 DEF TypeOK, BusTypes, RecvStatus, StatusTaken
    <3>23. LoopTypes'
      BY <1>5, <2>1, <3>1 DEF TypeOK, BusTypes, LoopTypes, RecvStatus, StatusTaken
    <3>24. WebTypes'
      BY <1>5, <2>1, <3>1 DEF TypeOK, WebTypes, RecvStatus, StatusTaken
    <3>. QED
      BY <3>21, <3>22, <3>23, <3>24 DEF TypeOK
  <2>2. CASE ~statusRx.lagged
    <3>1. statusRx.unread # <<>>
      BY <1>1, <1>5, <2>2, ChannelDef DEF RecvStatus, IsEmpty
    <3>2. /\ [statusRx EXCEPT !.unread = Tail(@)] \in Channel(StatusCap, Status)
          /\ Head(statusRx.unread) \in Status
      BY <1>1, <3>1, Popped
    <3>21. ServerTypes'
      BY <1>5, <2>2, <3>2 DEF TypeOK, ServerTypes, RecvStatus, StatusTaken
    <3>22. BusTypes'
      BY <1>5, <2>2, <3>2 DEF TypeOK, BusTypes, RecvStatus, StatusTaken
    <3>23. LoopTypes'
      BY <1>5, <2>2, <3>2 DEF TypeOK, LoopTypes, RecvStatus, StatusTaken
    <3>24. WebTypes'
      BY <1>5, <2>2, <3>2 DEF TypeOK, WebTypes, RecvStatus, StatusTaken
    <3>. QED
      BY <3>21, <3>22, <3>23, <3>24 DEF TypeOK
  <2>. QED
    BY <2>1, <2>2
<1>6. CASE Drained
  <2>1. seen \o batch \in Seq(Message) /\ <<>> \in Seq(Message)
    BY <1>1, ConcatProperties, EmptySeq
  <2>21. ServerTypes'
    BY <1>6, <2>1 DEF TypeOK, ServerTypes, Drained
  <2>22. BusTypes'
    BY <1>6, <2>1 DEF TypeOK, BusTypes, Drained
  <2>23. LoopTypes'
    BY <1>6, <2>1 DEF TypeOK, LoopTypes, Drained
  <2>24. WebTypes'
    BY <1>6, <2>1 DEF TypeOK, WebTypes, Drained
  <2>. QED
    BY <2>21, <2>22, <2>23, <2>24 DEF TypeOK
<1>7. CASE StatusDrained
  <2>1. ServerTypes'
    BY <1>7 DEF TypeOK, ServerTypes, StatusDrained
  <2>2. BusTypes'
    BY <1>7 DEF TypeOK, BusTypes, StatusDrained
  <2>3. LoopTypes'
    BY <1>7 DEF TypeOK, LoopTypes, StatusDrained
  <2>4. WebTypes'
    BY <1>7 DEF TypeOK, WebTypes, StatusDrained
  <2>. QED
    BY <2>1, <2>2, <2>3, <2>4 DEF TypeOK
<1>. QED
  BY <1>2, <1>3, <1>4, <1>5, <1>6, <1>7 DEF Loop

\* The parts of the feed are sequences of numbers.
LEMMA StreamTyped ==
  ASSUME TypeOK
  PROVE  /\ seen \in Seq(Nat) /\ batch \in Seq(Nat) /\ envRx.unread \in Seq(Nat)
         /\ wire \in Seq(Nat) /\ rx.unread \in Seq(Nat)
         /\ seen \o batch \in Seq(Nat)
         /\ seen \o batch \o envRx.unread \in Seq(Nat)
         /\ seen \o batch \o envRx.unread \o wire \in Seq(Nat)
         /\ Stream \in Seq(Nat)
<1>1. /\ seen \in Seq(Nat) /\ batch \in Seq(Nat) /\ envRx.unread \in Seq(Nat)
      /\ wire \in Seq(Nat) /\ rx.unread \in Seq(Nat)
  <2>1. /\ seen \in Seq(Message) /\ batch \in Seq(Message) /\ envRx.unread \in Seq(Message)
        /\ wire \in Seq(Message) /\ rx.unread \in Seq(Event)
    BY Typed DEF TypeOK, LoopTypes
  <2>2. Message \subseteq Nat /\ Event \subseteq Nat
    BY Typed
  <2>. QED
    BY <2>1, <2>2, SeqMonotonic
<1>2. seen \o batch \in Seq(Nat)
  BY <1>1, ConcatProperties
<1>3. seen \o batch \o envRx.unread \in Seq(Nat)
  BY <1>1, <1>2, ConcatProperties
<1>4. seen \o batch \o envRx.unread \o wire \in Seq(Nat)
  BY <1>1, <1>3, ConcatProperties
<1>5. Stream \in Seq(Nat)
  BY <1>1, <1>4, ConcatProperties DEF Stream
<1>. QED
  BY <1>1, <1>2, <1>3, <1>4, <1>5

\* Nothing waits between the web client's socket and what it acted on.
LEMMA WebStream ==
  ASSUME TypeOK, OneKind, NotBegun, who = "web"
  PROVE  Stream = seen \o wire \o rx.unread
<1>1. batch = <<>> /\ envRx.unread = <<>> /\ seen \in Seq(Nat)
  BY StreamTyped DEF OneKind, NotBegun
<1>2. seen \o <<>> = seen
  BY <1>1, ConcatEmptySeq
<1>. QED
  BY <1>1, <1>2 DEF Stream

\* A message of the socket is newer than everything acted on so far.
LEMMA NextIsNewer ==
  ASSUME TypeOK, OneKind, NotBegun, InOrder, who = "web", wire # <<>>
  PROVE  /\ \A x \in ToSet(seen) \ {0} : Head(wire) # 0 => x < Head(wire)
         /\ ToSet(seen) \subseteq 0..Len(events) /\ Head(wire) \in 0..Len(events)
<1>1. /\ seen \in Seq(Nat) /\ wire \in Seq(Nat) /\ rx.unread \in Seq(Nat)
  BY StreamTyped
<1>2. Stream = seen \o wire \o rx.unread
  BY WebStream
<1>3. seen \o wire \in Seq(Nat)
  BY <1>1, ConcatProperties
<1>4. Ordered(seen \o wire)
  BY <1>1, <1>2, <1>3, OrderedConcat DEF InOrder
<1>5. Before(ToSet(seen), ToSet(wire))
  BY <1>1, <1>4, OrderedConcat
<1>6. Head(wire) \in ToSet(wire)
  BY <1>1, HeadAndTail
<1>7. ToSet(Stream) = ToSet(seen) \cup ToSet(wire) \cup ToSet(rx.unread)
  <2>1. ToSet(seen \o wire) = ToSet(seen) \cup ToSet(wire)
    BY <1>1, ToSetConcat
  <2>. DEFINE a == seen \o wire
  <2>. HIDE DEF a
  <2>2. a \in Seq(Nat)
    BY <1>3 DEF a
  <2>3. ToSet(a \o rx.unread) = ToSet(a) \cup ToSet(rx.unread)
    BY <1>1, <2>2, ToSetConcat
  <2>. QED
    BY <1>2, <2>1, <2>3 DEF a
<1>. QED
  BY <1>5, <1>6, <1>7 DEF Before, InOrder

LEMMA EventsCounted ==
  ASSUME TypeOK
  PROVE  IsFiniteSet(1..Len(events)) /\ Cardinality(1..Len(events)) = Len(events)
<1>1. PICK n \in Nat : n = Len(events)
  BY Typed
<1>2. IsFiniteSet(1..n) /\ Cardinality(1..n) = IF 1 > n THEN 0 ELSE n - 1 + 1
  <2>1. 1 \in Int /\ n \in Int
    OBVIOUS
  <2>. QED
    BY <2>1, FS_Interval
<1>. QED
  BY <1>1, <1>2

\* What arrived of a kind is finite, and no more than was sent.
LEMMA ArrivedFinite ==
  ASSUME TypeOK, ToSet(seen) \subseteq 0..Len(events), NEW k
  PROVE  /\ Arrived(k) \subseteq 1..Len(events) /\ IsFiniteSet(Arrived(k))
         /\ Cardinality(Arrived(k)) \in 0..MaxEvents
<1>1. Len(events) \in 0..MaxEvents /\ MaxEvents \in Nat
  BY Typed
<1>2. Arrived(k) \subseteq 1..Len(events)
  BY <1>1 DEF Arrived
<1>3. IsFiniteSet(1..Len(events)) /\ Cardinality(1..Len(events)) = Len(events)
  BY EventsCounted
<1>4. IsFiniteSet(Arrived(k)) /\ Cardinality(Arrived(k)) <= Cardinality(1..Len(events))
  BY <1>2, <1>3, FS_Subset
<1>5. Cardinality(Arrived(k)) \in Nat
  BY <1>4, FS_CardinalityType
<1>. QED
  BY <1>1, <1>2, <1>3, <1>4, <1>5

\* A message keeps every ring and count exact.
LEMMA RingStep ==
  ASSUME Flows, OnMessage
  PROVE  /\ rings' \in [Key -> BoundedSeq(Event, RingMax)] /\ count' \in [Key -> 0..MaxEvents]
         /\ \A k \in Key : RingExact(k)'
<1>0. PICK e : e = Head(wire)
  OBVIOUS
<1>1. /\ who = "web" /\ wire # <<>> /\ events' = events /\ seen' = Append(seen, e)
      /\ TypeOK /\ OneKind /\ NotBegun /\ InOrder /\ RingsExact
  BY <1>0 DEF OnMessage, webQuiet, Flows, ArrivesWhole, OneKind
<1>2. /\ \A x \in ToSet(seen) \ {0} : e # 0 => x < e
      /\ ToSet(seen) \subseteq 0..Len(events) /\ e \in 0..Len(events)
  BY <1>0, <1>1, NextIsNewer
<1>3. /\ seen \in Seq(Nat) /\ e \in Nat /\ events \in Seq(Key) /\ Len(events) \in 0..MaxEvents
      /\ MaxEvents \in Nat /\ RingMax \in Nat \ {0}
      /\ rings \in [Key -> BoundedSeq(Event, RingMax)] /\ count \in [Key -> 0..MaxEvents]
  <2>1. events \in Seq(Key) /\ Len(events) \in 0..MaxEvents /\ MaxEvents \in Nat /\ RingMax \in Nat \ {0}
    BY <1>1, Typed
  <2>. QED
    BY <1>1, <1>2, <2>1, StreamTyped DEF TypeOK, WebTypes
<1>4. ToSet(seen') = ToSet(seen) \cup {e}
  BY <1>1, <1>3, ToSetAppend
<1>5. \A k : Arrived(k)' = IF e # 0 /\ events[e] = k THEN Arrived(k) \cup {e} ELSE Arrived(k)
  BY <1>1, <1>4 DEF Arrived
<1>6. CASE e = 0
  <2>1. rings' = rings /\ count' = count
    BY <1>0, <1>6 DEF OnMessage
  <2>. QED
    BY <1>1, <1>3, <1>5, <1>6, <2>1 DEF RingsExact, RingExact
<1>7. CASE e # 0
  <2>0. PICK k : k = events[e]
    OBVIOUS
  <2>1. /\ rings' = [rings EXCEPT ![k] = Unshift(@, e)]
        /\ count' = [count EXCEPT ![k] = @ + 1]
    BY <1>0, <1>7, <2>0 DEF OnMessage
  <2>2. k \in Key /\ e \in Event /\ e \in 1..Len(events)
    <3>1. e \in 1..Len(events)
      BY <1>2, <1>3, <1>7
    <3>. QED
      BY <1>3, <2>0, <3>1, ElementOfSeq DEF Event
  <2>. DEFINE q == rings[k]
              r == Unshift(q, e)
  <2>3. q \in Seq(Event) /\ Len(q) <= RingMax /\ Len(q) \in Nat
    <3>1. q \in BoundedSeq(Event, RingMax)
      BY <1>3, <2>2
    <3>. QED
      BY <1>3, <3>1, BoundedSequences, LenProperties
  <2>4. /\ count[k] = Cardinality(Arrived(k))
        /\ Len(q) = IF count[k] < RingMax THEN count[k] ELSE RingMax
        /\ ToSet(q) \subseteq Arrived(k) /\ Decreasing(q)
        /\ \A x \in Arrived(k) \ ToSet(q), f \in ToSet(q) : x < f
    BY <1>1, <2>2 DEF RingsExact, RingExact, Decreasing
  <2>5. \A f \in Arrived(k) : f < e
    BY <1>2, <1>7 DEF Arrived
  <2>. HIDE DEF q
  <2>6. /\ r \in BoundedSeq(Event, RingMax)
        /\ Len(r) = IF Len(q) < RingMax THEN Len(q) + 1 ELSE RingMax
        /\ Decreasing(r)
        /\ e \in ToSet(r) /\ ToSet(r) \subseteq ToSet(q) \cup {e}
        /\ \A f \in ToSet(q) \ ToSet(r), g \in ToSet(r) : f < g
    BY <2>2, <2>3, <2>4, <2>5, Unshifted
  <2>. HIDE DEF r
  <2>7. /\ rings' = [rings EXCEPT ![k] = r]
        /\ count' = [count EXCEPT ![k] = count[k] + 1]
    BY <2>1 DEF q, r
  <2>8. /\ rings'[k] = r /\ count'[k] = count[k] + 1
        /\ \A l \in Key \ {k} : rings'[l] = rings[l] /\ count'[l] = count[l]
    BY <1>3, <2>2, <2>7
  <2>9. Arrived(k)' = Arrived(k) \cup {e} /\ \A l \in Key \ {k} : Arrived(l)' = Arrived(l)
    BY <1>5, <1>7, <2>0
  <2>10. /\ Cardinality(Arrived(k) \cup {e}) = count[k] + 1
         /\ count[k] + 1 \in 0..MaxEvents
    <3>1. IsFiniteSet(Arrived(k)) /\ Arrived(k) \subseteq 1..Len(events)
      BY <1>1, <1>2, ArrivedFinite
    <3>2. e \notin Arrived(k)
      BY <1>3, <2>5
    <3>3. Cardinality(Arrived(k) \cup {e}) = count[k] + 1
      BY <2>4, <3>1, <3>2, FS_AddElement
    <3>4. IsFiniteSet(1..Len(events)) /\ Cardinality(1..Len(events)) = Len(events)
      BY <1>1, EventsCounted
    <3>5. Arrived(k) \cup {e} \subseteq 1..Len(events)
      BY <2>2, <3>1
    <3>6. Cardinality(Arrived(k) \cup {e}) <= Cardinality(1..Len(events))
      BY <3>4, <3>5, FS_Subset
    <3>7. count[k] \in Nat
      BY <1>3, <2>2
    <3>. QED
      BY <1>3, <3>3, <3>4, <3>6, <3>7
  <2>11. rings' \in [Key -> BoundedSeq(Event, RingMax)] /\ count' \in [Key -> 0..MaxEvents]
    BY <1>3, <2>2, <2>6, <2>7, <2>10
  <2>12. RingExact(k)'
    <3>1. count'[k] = Cardinality(Arrived(k)')
      BY <2>8, <2>9, <2>10
    <3>2. Len(r) = IF count'[k] < RingMax THEN count'[k] ELSE RingMax
      <4>1. count[k] \in Nat
        BY <1>3, <2>2
      <4>. QED
        BY <1>3, <2>3, <2>4, <2>6, <2>8, <4>1
    <3>3. ToSet(r) \subseteq Arrived(k)'
      BY <2>4, <2>6, <2>9
    <3>4. ASSUME NEW x \in Arrived(k)' \ ToSet(r), NEW f \in ToSet(r)
          PROVE  x < f
      <4>1. x \in Arrived(k) /\ x # e
        BY <2>6, <2>9, <3>4
      <4>2. CASE x \in ToSet(q)
        BY <2>6, <3>4, <4>2
      <4>3. CASE x \notin ToSet(q) /\ f = e
        BY <2>5, <4>1, <4>3
      <4>4. CASE x \notin ToSet(q) /\ f # e
        BY <2>4, <2>6, <3>4, <4>1, <4>4
      <4>. QED
        BY <4>2, <4>3, <4>4
    <3>. QED
      BY <2>6, <2>8, <3>1, <3>2, <3>3, <3>4 DEF RingExact, Decreasing
  <2>13. ASSUME NEW l \in Key \ {k}
         PROVE  RingExact(l)'
    <3>1. RingExact(l)
      BY <1>1 DEF RingsExact
    <3>2. rings'[l] = rings[l] /\ count'[l] = count[l] /\ Arrived(l)' = Arrived(l)
      BY <2>8, <2>9
    <3>. QED
      BY <3>1, <3>2 DEF RingExact
  <2>. QED
    BY <2>11, <2>12, <2>13
<1>. QED
  BY <1>6, <1>7

LEMMA WebTyped ==
  ASSUME Flows, Web
  PROVE  TypeOK'
<1>1. /\ TypeOK /\ SocketOrTimer
  BY DEF Flows, ArrivesWhole
<1>. USE DEF webQuiet, net, bounds, tuiVars
<1>2. CASE EnsureStarted
  <2>1. sockets' \in 0..1
    BY <1>1, <1>2 DEF EnsureStarted, Connect, SocketOrTimer
  <2>. QED
    BY <1>1, <1>2, <2>1 DEF TypeOK, ServerTypes, BusTypes, LoopTypes, WebTypes, EnsureStarted, Connect
<1>3. CASE OnTimer
  <2>1. sockets' \in 0..1
    BY <1>1, <1>3 DEF OnTimer, Connect, SocketOrTimer
  <2>2. ServerTypes' /\ BusTypes' /\ LoopTypes'
    BY <1>1, <1>3 DEF TypeOK, ServerTypes, BusTypes, LoopTypes, OnTimer
  <2>3. WebTypes'
    BY <1>1, <1>3, <2>1 DEF TypeOK, WebTypes, OnTimer, Connect
  <2>. QED
    BY <2>2, <2>3 DEF TypeOK
<1>4. CASE OnClose
  <2>1. sockets' \in 0..1
    BY <1>1, <1>4 DEF OnClose, SocketOrTimer, TypeOK, WebTypes
  <2>. QED
    BY <1>1, <1>4, <2>1 DEF TypeOK, ServerTypes, BusTypes, LoopTypes, WebTypes, OnClose
<1>5. CASE OnOpen
  <2>1. Accept
    BY <1>5 DEF OnOpen
  <2>2. ServerTypes'
    BY <1>1, <1>5, <2>1, AcceptTyped DEF TypeOK, ServerTypes, OnOpen
  <2>3. BusTypes' /\ LoopTypes'
    BY <1>1, <1>5 DEF TypeOK, BusTypes, LoopTypes, OnOpen
  <2>4. WebTypes'
    BY <1>1, <1>5 DEF TypeOK, WebTypes, OnOpen
  <2>. QED
    BY <2>2, <2>3, <2>4 DEF TypeOK
<1>6. CASE OnMessage
  <2>1. wire \in Seq(Message) /\ Len(wire) <= WireCap /\ WireCap \in Nat /\ wire # <<>>
    BY <1>1, <1>6, Typed DEF OnMessage
  <2>2. Head(wire) \in Message /\ Tail(wire) \in Seq(Message) /\ Len(Tail(wire)) = Len(wire) - 1
        /\ Len(wire) \in Nat
    BY <2>1, HeadAndTail
  <2>3. wire' \in BoundedSeq(Message, WireCap)
    <3>1. wire' \in Seq(Message) /\ Len(wire') <= WireCap
      BY <1>6, <2>1, <2>2 DEF OnMessage
    <3>. QED
      BY <2>1, <3>1, BoundedSequences
  <2>4. seen' \in Seq(Message)
    <3>1. Append(seen, Head(wire)) \in Seq(Message)
      BY <1>1, <2>2, AppendProperties DEF TypeOK, LoopTypes
    <3>. QED
      BY <1>6, <3>1 DEF OnMessage
  <2>5. rings' \in [Key -> BoundedSeq(Event, RingMax)] /\ count' \in [Key -> 0..MaxEvents]
    BY <1>6, RingStep
  <2>6. ServerTypes' /\ BusTypes'
    BY <1>1, <1>6, <2>3 DEF TypeOK, ServerTypes, BusTypes, OnMessage
  <2>7. LoopTypes'
    BY <1>1, <1>6, <2>4 DEF TypeOK, LoopTypes, OnMessage
  <2>8. WebTypes'
    BY <1>1, <1>6, <2>5 DEF TypeOK, WebTypes, OnMessage
  <2>. QED
    BY <2>6, <2>7, <2>8 DEF TypeOK
<1>. QED
  BY <1>2, <1>3, <1>4, <1>5, <1>6 DEF Web

LEMMA TypeKept ==
  ASSUME Flows, [Next]_vars
  PROVE  TypeOK'
<1>1. TypeOK /\ NotBegun
  BY DEF Flows, ArrivesWhole
<1>2. CASE UNCHANGED vars
  BY <1>1, <1>2
  DEF TypeOK, ServerTypes, BusTypes, LoopTypes, WebTypes, vars, net, bounds, tuiVars, webVars
<1>. QED
  BY <1>1, <1>2, PublishTyped, ServeTyped, ServerTyped, RunTyped, LoopTyped, WebTyped DEF Next

-----------------------------------------------------------------------------
(* One client, one socket, and a dot that follows.                         *)

LEMMA KindKept ==
  ASSUME TypeOK, OneKind, [Next]_vars
  PROVE  OneKind'
<1>. USE DEF OneKind
<1>1. CASE UNCHANGED vars
  BY <1>1 DEF vars, net, bounds, tuiVars, webVars
<1>2. CASE (\E k \in Key : Publish(k)) \/ Serve \/ Break \/ Stop \/ Restart
  BY <1>2 DEF Publish, Serve, Break, Stop, Restart, bounds, tuiVars, webVars
<1>3. CASE Start \/ Run
  BY <1>3 DEF Start, Run, Tell, Attempt, ConnectOk, ConnectFailed, Read, Ended, Wake,
              quiet, loopVars, webVars
<1>4. CASE Loop
  BY <1>4 DEF Loop, AppNew, EventLoop, RecvEnvelope, RecvStatus, Drained, StatusDrained,
              quiet, busVars, webVars
<1>5. CASE Web
  BY <1>5 DEF Web, EnsureStarted, OnOpen, OnClose, OnTimer, OnMessage, TypeOK, ServerTypes,
              webQuiet, tuiVars
<1>. QED
  BY <1>1, <1>2, <1>3, <1>4, <1>5 DEF Next

LEMMA SocketKept ==
  ASSUME TypeOK, SocketOrTimer, [Next]_vars
  PROVE  SocketOrTimer'
<1>. USE DEF SocketOrTimer
<1>1. CASE UNCHANGED vars
  BY <1>1 DEF vars, webVars
<1>2. CASE (\E k \in Key : Publish(k)) \/ Serve \/ Break \/ Stop \/ Restart
  BY <1>2 DEF Publish, Serve, Break, Stop, Restart, webVars
<1>3. CASE Start \/ Run
  BY <1>3 DEF Start, Run, Tell, Attempt, ConnectOk, ConnectFailed, Read, Ended, Wake, quiet, webVars
<1>4. CASE Loop
  BY <1>4 DEF Loop, AppNew, EventLoop, RecvEnvelope, RecvStatus, Drained, StatusDrained, quiet, webVars
<1>5. CASE Web
  BY <1>5 DEF Web, EnsureStarted, OnOpen, OnClose, OnTimer, OnMessage, Connect, TypeOK, WebTypes
<1>. QED
  BY <1>1, <1>2, <1>3, <1>4, <1>5 DEF Next

LEMMA NotBegunKept ==
  ASSUME TypeOK, OneKind, NotBegun, [Next]_vars
  PROVE  NotBegun'
<1>. USE DEF NotBegun
<1>1. CASE UNCHANGED vars
  BY <1>1 DEF vars, net, tuiVars
<1>2. CASE \E k \in Key : Publish(k)
  BY <1>2 DEF Publish, tuiVars
<1>3. CASE Serve
  BY <1>3 DEF Serve, ClientLoop, Serves, Subscribe, SendHello, Forward, Lag, tuiVars
<1>4. CASE Break \/ Stop \/ Restart
  BY <1>4 DEF Break, Stop, Restart, Cut, net, tuiVars
<1>5. CASE Start \/ Run
  <2>1. CASE Read
    BY <2>1 DEF Read, quiet, loopVars
  <2>. QED
    BY <1>5, <2>1 DEF Start, Run, Tell, Attempt, ConnectOk, ConnectFailed, Ended, Wake, Accept,
                      quiet, loopVars, net
<1>6. CASE Loop
  BY <1>6 DEF Loop, AppNew, EventLoop, RecvEnvelope, RecvStatus, Drained, StatusDrained,
              quiet, busVars, net, Empty
<1>7. CASE Web
  BY <1>7 DEF Web, EnsureStarted, OnOpen, OnClose, OnTimer, OnMessage, Accept, webQuiet, tuiVars, net
<1>. QED
  BY <1>1, <1>2, <1>3, <1>4, <1>5, <1>6, <1>7 DEF Next

LEMMA StatusKept ==
  ASSUME TypeOK, NotBegun, StatusComes, [Next]_vars
  PROVE  StatusComes'
<1>1. /\ StatusCap \in Nat \ {0} /\ statusRx \in Channel(StatusCap, Status) /\ status \in Status
      /\ statusRx.unread \in Seq(Status)
  BY Typed DEF TypeOK, BusTypes, LoopTypes
<1>. USE DEF StatusComes
<1>2. CASE UNCHANGED vars
  BY <1>2 DEF vars, tuiVars
<1>3. CASE (\E k \in Key : Publish(k)) \/ Serve \/ Break \/ Stop \/ Restart
  BY <1>3 DEF Publish, Serve, Break, Stop, Restart, tuiVars
<1>4. CASE Tell
  <2>1. CASE app \in {"off", "made"}
    BY <1>4, <2>1 DEF Tell, NotBegun, loopVars
  <2>2. CASE app \notin {"off", "made"}
    <3>1. /\ statusRx' = Push(StatusCap, statusRx, status) /\ status' = status
      BY <1>4, <2>2 DEF Tell
    <3>2. PICK q \in Seq(Status) : Push(StatusCap, statusRx, status).unread = Append(q, status)
      <4>1. statusRx.unread # <<>> => Tail(statusRx.unread) \in Seq(Status)
        BY <1>1, HeadAndTail
      <4>. QED
        <5>1. Push(StatusCap, statusRx, status).unread
                \in {Append(statusRx.unread, status), Append(Tail(statusRx.unread), status)}
              /\ (Push(StatusCap, statusRx, status).unread = Append(statusRx.unread, status)
                   \/ statusRx.unread # <<>>)
          BY <1>1, Pushed
        <5>. QED
          BY <1>1, <4>1, <5>1
    <3>3. /\ Append(q, status) # <<>> /\ Len(Append(q, status)) = Len(q) + 1
          /\ Append(q, status)[Len(q) + 1] = status
      BY <1>1, AppendProperties
    <3>. QED
      BY <3>1, <3>2, <3>3 DEF Last
  <2>. QED
    BY <2>1, <2>2
<1>5. CASE Start \/ Attempt \/ ConnectOk \/ ConnectFailed \/ Read \/ Ended \/ Wake
  BY <1>5 DEF Start, Attempt, ConnectOk, ConnectFailed, Read, Ended, Wake, SetStatus, loopVars
<1>6. CASE RecvStatus
  <2>1. CASE statusRx.lagged
    <3>1. statusRx'.unread = statusRx.unread /\ shown' = status
      BY <1>1, <1>6, <2>1, Unlagged DEF RecvStatus, StatusTaken
    <3>. QED
      BY <1>6, <3>1 DEF RecvStatus, busVars
  <2>2. CASE ~statusRx.lagged
    <3>1. statusRx.unread # <<>>
      BY <1>1, <1>6, <2>2, ChannelDef DEF RecvStatus, IsEmpty
    <3>2. PICK q \in Seq(Status) : q = statusRx.unread
      BY <1>1
    <3>3. statusRx'.unread = Tail(q) /\ shown' = Head(q)
      BY <1>1, <1>6, <2>2, <3>1, <3>2, Popped DEF RecvStatus, StatusTaken
    <3>4. /\ Len(Tail(q)) = Len(q) - 1 /\ Len(q) \in Nat \ {0} /\ Tail(q) \in Seq(Status)
          /\ \A i \in 1..Len(Tail(q)) : Tail(q)[i] = q[i + 1]
      BY <3>1, <3>2, HeadTailProperties, EmptySeq
    <3>5. CASE Tail(q) = <<>>
      <4>1. Len(q) = 1 /\ Last(q) = Head(q)
        <5>1. PICK n \in Nat : n = Len(q)
          BY <3>4
        <5>2. Len(<<>>) = n - 1
          BY <3>4, <3>5, <5>1
        <5>3. Len(<<>>) = 0
          OBVIOUS
        <5>4. n = 1
          BY <5>2, <5>3
        <5>. QED
          BY <5>1, <5>4 DEF Last
      <4>. QED
        BY <1>6, <3>1, <3>2, <3>3, <3>5, <4>1 DEF RecvStatus, busVars
    <3>6. CASE Tail(q) # <<>>
      <4>1. Len(Tail(q)) \in 1..Len(Tail(q))
        BY <3>4, <3>6, EmptySeq
      <4>2. Last(Tail(q)) = Last(q)
        BY <3>4, <4>1 DEF Last
      <4>. QED
        BY <1>6, <3>1, <3>2, <3>3, <3>6, <4>2 DEF RecvStatus, busVars
    <3>. QED
      BY <3>5, <3>6
  <2>. QED
    BY <2>1, <2>2
<1>7. CASE AppNew \/ EventLoop
  BY <1>7 DEF AppNew, EventLoop, NotBegun
<1>8. CASE RecvEnvelope \/ Drained \/ StatusDrained
  BY <1>8 DEF RecvEnvelope, Drained, StatusDrained, busVars
<1>9. CASE Web
  BY <1>9 DEF Web, EnsureStarted, OnOpen, OnClose, OnTimer, OnMessage, webQuiet, tuiVars
<1>. QED
  BY <1>2, <1>3, <1>4, <1>5, <1>6, <1>7, <1>8, <1>9 DEF Next, Run, Loop

-----------------------------------------------------------------------------
(* What is carried keeps its order, and what is dropped is known lost.     *)

\* A step that adds hellos at most, and loses only what it says it loses.
Carries ==
  /\ events' = events /\ lost \subseteq lost'
  /\ Ordered(Stream')
  /\ ToSet(Stream') \subseteq ToSet(Stream) \cup {0}
  /\ open' /\ handler' = "streaming" =>
       \/ from' = Len(events)
       \/ /\ open /\ handler = "streaming" /\ from' = from
          /\ ToSet(Stream) \subseteq ToSet(Stream') \cup lost' \cup {0}

LEMMA CarriedSafely ==
  ASSUME TypeOK, InOrder, NoSilentGap, Carries, from' \in Nat
  PROVE  InOrder' /\ NoSilentGap'
<1>1. Len(events) \in Nat /\ Len(events') = Len(events)
  BY Typed DEF Carries
<1>2. InOrder'
  BY <1>1 DEF InOrder, Carries
<1>3. NoSilentGap'
  BY <1>1 DEF NoSilentGap, Carries
<1>. QED
  BY <1>2, <1>3

\* Nothing moved.
LEMMA Still ==
  ASSUME InOrder, UNCHANGED <<events, seen, batch, envRx, net, lost>>
  PROVE  Carries
BY DEF Carries, InOrder, Stream, net

\* A prefix of the feed, or the feed without one piece of it.
LEMMA Prefixed ==
  ASSUME NEW p \in Seq(Nat), NEW q \in Seq(Nat), Ordered(p \o q)
  PROVE  Ordered(p) /\ ToSet(p) \subseteq ToSet(p \o q)
BY OrderedConcat, ToSetConcat

LEMMA CutCarries ==
  ASSUME TypeOK, InOrder, Cut, UNCHANGED <<events, seen, batch, envRx>>
  PROVE  Carries
<1>1. PICK n \in 0..Len(wire) : wire' = SubSeq(wire, 1, n)
  BY DEF Cut
<1>2. /\ open' = FALSE /\ rx'.unread = <<>> /\ lost \subseteq lost'
  BY CutTyped DEF Empty
<1>. DEFINE a == seen \o batch \o envRx.unread
            w == SubSeq(wire, 1, n)
            v == SubSeq(wire, n + 1, Len(wire))
<1>3. a \in Seq(Nat) /\ wire \in Seq(Nat) /\ rx.unread \in Seq(Nat) /\ Len(wire) \in Nat
      /\ a \o wire \in Seq(Nat)
  BY StreamTyped, Typed, SMTT(30)
<1>4. w \in Seq(Nat) /\ v \in Seq(Nat) /\ w \o v = wire
  <2>1. \A i \in 1..Len(wire) : wire[i] \in Nat
    BY <1>3, ElementOfSeq
  <2>2. w \in Seq(Nat)
    <3>1. \A i \in 1..n : wire[i] \in Nat
      BY <1>3, <2>1
    <3>. QED
      BY <1>3, <3>1, SubSeqProperties
  <2>3. v \in Seq(Nat)
    <3>1. \A i \in (n + 1)..Len(wire) : wire[i] \in Nat
      BY <1>3, <2>1
    <3>. QED
      BY <1>3, <3>1, SubSeqProperties
  <2>4. SubSeq(wire, 1, n) \o SubSeq(wire, n + 1, Len(wire)) = SubSeq(wire, 1, Len(wire))
    <3>1. n \in (1 - 1)..Len(wire) /\ Len(wire) \in n..Len(wire) /\ 1 \in 1..(Len(wire) + 1)
      BY <1>3
    <3>. QED
      BY <1>3, <3>1, ConcatAdjacentSubSeq
  <2>5. SubSeq(wire, 1, Len(wire)) = wire
    BY <1>3, SubSeqFull
  <2>. QED
    BY <2>2, <2>3, <2>4, <2>5
<1>. HIDE DEF a, w, v
<1>5. Stream = (a \o wire) \o rx.unread
  BY DEF Stream, a
<1>6. Stream' = (a \o w) \o <<>>
  BY <1>1, <1>2 DEF Stream, a, w
<1>7. a \o w \in Seq(Nat) /\ (a \o w) \o <<>> = a \o w
  BY <1>3, <1>4, ConcatProperties, ConcatEmptySeq
<1>8. Ordered(a \o wire) /\ ToSet(a \o wire) \subseteq ToSet(Stream)
  BY <1>3, <1>5, Prefixed DEF InOrder
<1>9. a \o wire = (a \o w) \o v
  <2>1. a \in Seq(Nat) /\ w \in Seq(Nat) /\ v \in Seq(Nat)
    BY <1>3, <1>4
  <2>2. (a \o w) \o v = a \o (w \o v)
    BY <2>1, Associates
  <2>. QED
    BY <1>4, <2>2
<1>10. Ordered(a \o w) /\ ToSet(a \o w) \subseteq ToSet(a \o wire)
  BY <1>4, <1>7, <1>8, <1>9, Prefixed
<1>. QED
  BY <1>2, <1>6, <1>7, <1>8, <1>10 DEF Carries

LEMMA AcceptCarries ==
  ASSUME TypeOK, InOrder, Accept, UNCHANGED <<events, seen, batch, envRx, lost>>
  PROVE  Carries
<1>. DEFINE a == seen \o batch \o envRx.unread
<1>1. a \in Seq(Nat) /\ wire \in Seq(Nat) /\ rx.unread \in Seq(Nat) /\ a \o wire \in Seq(Nat)
  BY StreamTyped
<1>2. handler' = "upgraded" /\ wire' = <<>> /\ rx'.unread = <<>>
  BY DEF Accept, Empty
<1>3. Stream = (a \o wire) \o rx.unread
  BY DEF Stream
<1>4. Stream' = (a \o <<>>) \o <<>>
  BY <1>2 DEF Stream
<1>. HIDE DEF a
<1>5. (a \o <<>>) \o <<>> = a
  BY <1>1, ConcatEmptySeq
<1>6. Ordered(a \o wire) /\ ToSet(a \o wire) \subseteq ToSet(Stream)
  BY <1>1, <1>3, Prefixed DEF InOrder
<1>7. Ordered(a) /\ ToSet(a) \subseteq ToSet(a \o wire)
  BY <1>1, <1>6, Prefixed
<1>. QED
  BY <1>2, <1>4, <1>5, <1>6, <1>7 DEF Carries

\* The feed without the head of one stage.
LEMMA HeadDropped ==
  ASSUME NEW p \in Seq(Nat), NEW q \in Seq(Nat), NEW r \in Seq(Nat), q # <<>>
  PROVE  /\ p \o Tail(q) \o r \in Seq(Nat)
         /\ Ordered(p \o q \o r) => Ordered(p \o Tail(q) \o r)
         /\ ToSet(p \o q \o r) = ToSet(p \o Tail(q) \o r) \cup {Head(q)}
<1>0. PICK h \in Seq(Nat), t \in Seq(Nat) : h = <<Head(q)>> /\ t = Tail(q) /\ q = h \o t
  BY HeadAndTail
<1>1. p \o h \in Seq(Nat) /\ t \o r \in Seq(Nat) /\ p \o t \in Seq(Nat)
  BY <1>0, ConcatProperties
<1>2. p \o q = (p \o h) \o t
  <2>1. (p \o h) \o t = p \o (h \o t)
    BY <1>0, ConcatAssociative
  <2>. QED
    BY <1>0, <2>1
<1>3. ((p \o h) \o t) \o r = (p \o h) \o (t \o r)
  <2>1. PICK u \in Seq(Nat) : u = p \o h
    BY <1>1
  <2>2. (u \o t) \o r = u \o (t \o r)
    BY <1>0, Associates
  <2>. QED
    BY <2>1, <2>2
<1>4. p \o t \o r = p \o (t \o r)
  BY <1>0, Associates
<1>5. /\ Ordered(p \o h \o (t \o r)) => Ordered(p \o (t \o r))
      /\ ToSet(p \o h \o (t \o r)) = ToSet(p \o (t \o r)) \cup ToSet(h)
  <2>1. PICK u \in Seq(Nat) : u = t \o r
    BY <1>1
  <2>2. /\ Ordered(p \o h \o u) => Ordered(p \o u)
        /\ ToSet(p \o h \o u) = ToSet(p \o u) \cup ToSet(h)
    BY Dropped
  <2>. QED
    BY <2>1, <2>2
<1>6. p \o t \o r \in Seq(Nat)
  BY <1>0, <1>1, ConcatProperties
<1>7. ToSet(h) = {Head(q)}
  BY <1>0, ToSetShort
<1>. QED
  BY <1>0, <1>2, <1>3, <1>4, <1>5, <1>6, <1>7

LEMMA ServeCarries ==
  ASSUME TypeOK, InOrder, Serve
  PROVE  Carries
<1>. DEFINE a == seen \o batch \o envRx.unread
<1>1. /\ a \in Seq(Nat) /\ wire \in Seq(Nat) /\ rx.unread \in Seq(Nat) /\ a \o wire \in Seq(Nat)
      /\ rx \in Channel(BusCap, Event) /\ BusCap \in Nat /\ Len(events) \in Nat
  BY StreamTyped, Typed DEF TypeOK, ServerTypes
<1>2. Stream = (a \o wire) \o rx.unread /\ Ordered(Stream)
  BY DEF Stream, InOrder
<1>3. /\ events' = events /\ open' = open /\ lost' = lost
      /\ Stream' = (a \o wire') \o rx'.unread
  BY DEF Serve, Stream, tuiVars
<1>. HIDE DEF a
<1>4. CASE Subscribe
  <2>1. handler' = "greeting" /\ Stream' = (a \o wire) \o <<>>
    BY <1>3, <1>4 DEF Subscribe, Empty
  <2>2. (a \o wire) \o <<>> = a \o wire
    BY <1>1, ConcatEmptySeq
  <2>3. Ordered(a \o wire) /\ ToSet(a \o wire) \subseteq ToSet(Stream)
    BY <1>1, <1>2, Prefixed
  <2>. QED
    BY <1>3, <2>1, <2>2, <2>3 DEF Carries
<1>5. CASE SendHello
  <2>1. from' = Len(events) /\ Stream' = (a \o Append(wire, 0)) \o rx.unread
    BY <1>3, <1>5 DEF SendHello
  <2>2. a \o Append(wire, 0) = Append(a \o wire, 0)
    <3>1. Append(wire, 0) = wire \o <<0>> /\ Append(a \o wire, 0) = (a \o wire) \o <<0>> /\ <<0>> \in Seq(Nat)
      BY <1>1, AppendIsConcat
    <3>2. (a \o wire) \o <<0>> = a \o (wire \o <<0>>)
      BY <1>1, <3>1, ConcatAssociative
    <3>. QED
      BY <3>1, <3>2
  <2>3. /\ Ordered(Append(a \o wire, 0) \o rx.unread)
        /\ ToSet(Append(a \o wire, 0) \o rx.unread) = ToSet(Stream) \cup {0}
    BY <1>1, <1>2, HelloAnywhere
  <2>. QED
    BY <1>3, <2>1, <2>2, <2>3 DEF Carries
<1>6. CASE Forward
  <2>1. /\ rx.unread # <<>> /\ wire' = Append(wire, Head(rx.unread)) /\ rx'.unread = Tail(rx.unread)
        /\ handler' = handler /\ from' = from
    BY <1>1, <1>6, Popped DEF Forward
  <2>2. a \o Append(wire, Head(rx.unread)) \o Tail(rx.unread) = a \o wire \o rx.unread
    BY <1>1, <2>1, Handed
  <2>. QED
    BY <1>2, <1>3, <2>1, <2>2 DEF Carries
<1>7. CASE Lag
  <2>1. wire' = wire /\ rx'.unread = rx.unread /\ handler' = handler /\ from' = from
    BY <1>1, <1>7, Unlagged DEF Lag
  <2>. QED
    BY <1>2, <1>3, <2>1 DEF Carries
<1>. QED
  BY <1>4, <1>5, <1>6, <1>7 DEF Serve, ClientLoop, Serves

LEMMA ReadCarries ==
  ASSUME TypeOK, InOrder, Read
  PROVE  Carries
<1>. DEFINE x == seen \o batch
            e == envRx.unread
            r == rx.unread
            h == Head(wire)
<1>1. /\ x \in Seq(Nat) /\ e \in Seq(Nat) /\ wire \in Seq(Nat) /\ r \in Seq(Nat)
      /\ x \o e \in Seq(Nat) /\ x \o e \o wire \in Seq(Nat)
  BY StreamTyped
<1>2. wire # <<>> /\ wire' = Tail(wire) /\ h \in Nat /\ Tail(wire) \in Seq(Nat)
  BY <1>1, HeadAndTail DEF Read
<1>3. Stream = x \o e \o wire \o r /\ Ordered(Stream)
  BY DEF Stream, InOrder
<1>4. /\ events' = events /\ open' = open /\ handler' = handler /\ from' = from
      /\ Stream' = x \o envRx'.unread \o Tail(wire) \o r
  BY <1>2 DEF Read, Stream, quiet, loopVars
<1>. HIDE DEF x, r
<1>5. CASE app \in {"off", "made"}
  <2>1. lost' = lost \cup ({h} \ {0}) /\ envRx' = envRx
    BY <1>5 DEF Read
  <2>2. /\ Ordered(x \o e \o Tail(wire) \o r)
        /\ ToSet(x \o e \o wire \o r) = ToSet(x \o e \o Tail(wire) \o r) \cup {h}
    BY <1>1, <1>2, <1>3, HeadDropped
  <2>. QED
    BY <1>3, <1>4, <2>1, <2>2 DEF Carries
<1>6. CASE app \notin {"off", "made"}
  <2>1. /\ envRx' = Push(EnvelopeCap, envRx, h)
        /\ lost' = lost \cup (Overwritten(EnvelopeCap, envRx) \ {0})
    BY <1>6 DEF Read
  <2>2. \/ envRx'.unread = Append(e, h)
        \/ /\ e # <<>> /\ envRx'.unread = Append(Tail(e), h)
           /\ Overwritten(EnvelopeCap, envRx) = {Head(e)}
    <3>1. h \in Message /\ EnvelopeCap \in Nat \ {0} /\ envRx \in Channel(EnvelopeCap, Message)
      BY <1>2, Typed, HeadAndTail DEF TypeOK, LoopTypes
    <3>. QED
      BY <2>1, <3>1, Pushed
  <2>. HIDE DEF e
  <2>3. CASE envRx'.unread = Append(e, h)
    <3>1. x \o Append(e, h) \o Tail(wire) = x \o e \o wire
      BY <1>1, <1>2, Handed
    <3>. QED
      BY <1>3, <1>4, <2>1, <2>3, <3>1 DEF Carries
  <2>4. CASE /\ e # <<>> /\ envRx'.unread = Append(Tail(e), h)
             /\ Overwritten(EnvelopeCap, envRx) = {Head(e)}
    <3>1. Tail(e) \in Seq(Nat) /\ wire \o r \in Seq(Nat)
      BY <1>1, <2>4, HeadAndTail, ConcatProperties
    <3>2. x \o Append(Tail(e), h) \o Tail(wire) = x \o Tail(e) \o wire
      <4>1. PICK t \in Seq(Nat) : t = Tail(e)
        BY <3>1
      <4>2. x \in Seq(Nat) /\ wire \in Seq(Nat) /\ wire # <<>>
        BY <1>1, <1>2
      <4>3. x \o Append(t, h) \o Tail(wire) = x \o t \o wire
        BY <4>2, Handed
      <4>. QED
        BY <4>1, <4>3
    <3>3. x \o e \o wire \o r = x \o e \o (wire \o r)
      BY <1>1, Associates
    <3>4. x \o Tail(e) \o wire \o r = x \o Tail(e) \o (wire \o r)
      <4>1. PICK u \in Seq(Nat) : u = x \o Tail(e)
        BY <1>1, <3>1, ConcatProperties
      <4>2. (u \o wire) \o r = u \o (wire \o r)
        BY <1>1, Associates
      <4>. QED
        BY <4>1, <4>2
    <3>5. /\ Ordered(x \o e \o (wire \o r)) => Ordered(x \o Tail(e) \o (wire \o r))
          /\ ToSet(x \o e \o (wire \o r)) = ToSet(x \o Tail(e) \o (wire \o r)) \cup {Head(e)}
      BY <1>1, <2>4, <3>1, HeadDropped
    <3>. QED
      BY <1>3, <1>4, <2>1, <2>4, <3>2, <3>3, <3>4, <3>5 DEF Carries
  <2>. QED
    BY <2>2, <2>3, <2>4
<1>. QED
  BY <1>5, <1>6

LEMMA LoopCarries ==
  ASSUME TypeOK, NotBegun, InOrder, Loop
  PROVE  Carries
<1>. USE DEF quiet, busVars, net
<1>1. /\ seen \in Seq(Nat) /\ batch \in Seq(Nat) /\ envRx.unread \in Seq(Nat)
      /\ envRx \in Channel(EnvelopeCap, Message) /\ EnvelopeCap \in Nat
      /\ seen \o batch \in Seq(Nat)
  BY StreamTyped, Typed DEF TypeOK, LoopTypes
<1>2. CASE AppNew \/ RecvStatus \/ StatusDrained
  BY <1>2, Still DEF AppNew, RecvStatus, StatusDrained
<1>3. SUFFICES ASSUME EventLoop \/ RecvEnvelope \/ Drained
               PROVE  seen' \o batch' \o envRx'.unread = seen \o batch \o envRx.unread
  <2>1. CASE EventLoop \/ RecvEnvelope \/ Drained
    <3>1. seen' \o batch' \o envRx'.unread = seen \o batch \o envRx.unread
      BY <1>3, <2>1
    <3>2. /\ Stream' = Stream /\ events' = events /\ lost' = lost
          /\ open' = open /\ handler' = handler /\ from' = from
      BY <2>1, <3>1 DEF EventLoop, RecvEnvelope, Drained, Stream
    <3>. QED
      BY <3>2 DEF Carries, InOrder
  <2>. QED
    BY <1>2, <2>1 DEF Loop
<1>4. CASE EventLoop
  BY <1>4 DEF EventLoop, NotBegun, Empty
<1>5. CASE Drained
  <2>1. envRx' = envRx /\ seen' = seen \o batch /\ batch' = <<>>
    BY <1>5 DEF Drained
  <2>2. (seen \o batch) \o <<>> = seen \o batch
    BY <1>1, ConcatEmptySeq
  <2>. QED
    BY <2>1, <2>2
<1>6. CASE RecvEnvelope /\ envRx.lagged
  <2>1. envRx'.unread = envRx.unread /\ batch' = batch /\ seen' = seen
    BY <1>1, <1>6, Unlagged DEF RecvEnvelope
  <2>. QED
    BY <2>1
<1>7. CASE RecvEnvelope /\ ~envRx.lagged
  <2>1. envRx.unread # <<>>
    BY <1>1, <1>7, ChannelDef DEF RecvEnvelope, IsEmpty
  <2>2. /\ envRx'.unread = Tail(envRx.unread) /\ batch' = Append(batch, Head(envRx.unread))
        /\ seen' = seen
    BY <1>1, <1>7, <2>1, Popped DEF RecvEnvelope
  <2>3. seen \o Append(batch, Head(envRx.unread)) \o Tail(envRx.unread) = seen \o batch \o envRx.unread
    BY <1>1, <2>1, Handed
  <2>. QED
    BY <2>2, <2>3
<1>. QED
  BY <1>3, <1>4, <1>5, <1>6, <1>7

LEMMA OnMessageCarries ==
  ASSUME TypeOK, OneKind, NotBegun, InOrder, OnMessage, TypeOK', OneKind', NotBegun'
  PROVE  Carries
<1>1. /\ who = "web" /\ who' = "web" /\ wire # <<>> /\ wire' = Tail(wire)
      /\ seen' = Append(seen, Head(wire)) /\ rx' = rx
      /\ events' = events /\ lost' = lost /\ open' = open /\ handler' = handler /\ from' = from
  BY DEF OnMessage, OneKind, webQuiet
<1>2. Stream = seen \o wire \o rx.unread
  BY <1>1, WebStream
<1>3. Stream' = Append(seen, Head(wire)) \o Tail(wire) \o rx.unread
  <2>1. batch' = <<>> /\ envRx'.unread = <<>> /\ seen' \in Seq(Nat)
    <3>1. seen' \in Seq(Message') /\ Message' \subseteq Nat
      BY <1>1, Typed DEF TypeOK, LoopTypes, Message, Event
    <3>. QED
      BY <1>1, <3>1, SeqMonotonic DEF OneKind, NotBegun
  <2>2. seen' \o <<>> = seen'
    BY <2>1, ConcatEmptySeq
  <2>. QED
    BY <1>1, <2>1, <2>2 DEF Stream
<1>4. seen \in Seq(Nat) /\ wire \in Seq(Nat)
  BY StreamTyped
<1>5. Append(seen, Head(wire)) \o Tail(wire) = seen \o wire
  <2>1. <<>> \in Seq(Nat) /\ Head(wire) \in Nat
    BY <1>1, <1>4, HeadAndTail
  <2>2. <<>> \o Append(seen, Head(wire)) \o Tail(wire) = <<>> \o seen \o wire
    BY <1>1, <1>4, <2>1, Handed
  <2>3. Append(seen, Head(wire)) \in Seq(Nat)
    BY <1>4, <2>1, AppendProperties
  <2>4. <<>> \o Append(seen, Head(wire)) = Append(seen, Head(wire)) /\ <<>> \o seen = seen
    BY <1>4, <2>3, ConcatEmptySeq
  <2>. QED
    BY <2>2, <2>4
<1>. QED
  BY <1>1, <1>2, <1>3, <1>5 DEF Carries, InOrder

LEMMA PublishCarries ==
  ASSUME TypeOK, InOrder, NoSilentGap, NEW k \in Key, Publish(k)
  PROVE  InOrder' /\ NoSilentGap'
<1>. DEFINE a == seen \o batch \o envRx.unread \o wire
            r == rx.unread
<1>0. PICK n : n = Len(events) + 1
  OBVIOUS
<1>1. /\ a \in Seq(Nat) /\ r \in Seq(Nat) /\ a \o r \in Seq(Nat) /\ a \o r = Stream
      /\ Len(events) \in Nat /\ events \in Seq(Key) /\ from \in Nat
      /\ rx \in Channel(BusCap, Event) /\ BusCap \in Nat \ {0}
  BY StreamTyped, Typed DEF Stream, TypeOK, ServerTypes
<1>2. /\ Len(events') = n /\ n \in Event /\ n \in Nat
      /\ open' = open /\ handler' = handler /\ from' = from
      /\ Stream' = a \o rx'.unread
  <2>1. Len(Append(events, k)) = Len(events) + 1
    BY <1>1, AppendProperties
  <2>2. Len(events') = n /\ n \in Nat /\ n <= MaxEvents
    BY <1>0, <1>1, <2>1, Typed DEF Publish
  <2>3. n \in Event
    BY <1>0, <1>1, <2>2, Typed DEF Event
  <2>. QED
    BY <2>2, <2>3 DEF Publish, Stream, tuiVars
<1>3. CASE ~Subscribed
  <2>1. Stream' = Stream /\ lost' = lost
    BY <1>1, <1>2, <1>3 DEF Publish
  <2>. QED
    BY <1>0, <1>1, <1>2, <1>3, <2>1 DEF InOrder, NoSilentGap, Subscribed
<1>4. CASE Subscribed
  <2>1. /\ rx' = Push(BusCap, rx, n) /\ lost' = lost \cup Overwritten(BusCap, rx)
    BY <1>2, <1>4 DEF Publish
  <2>2. PICK q \in Seq(Nat) :
          /\ rx'.unread = Append(q, n)
          /\ Ordered(a \o q) /\ a \o q \in Seq(Nat)
          /\ ToSet(a \o q) \subseteq ToSet(Stream) /\ ToSet(Stream) \subseteq ToSet(a \o q) \cup lost'
    <3>0. /\ Ordered(a \o r) /\ a \o r = Stream /\ r \in Seq(Nat) /\ a \o r \in Seq(Nat)
          /\ lost \subseteq lost' /\ lost' = lost \cup Overwritten(BusCap, rx)
      BY <1>1, <2>1 DEF InOrder
    <3>. HIDE DEF a, r
    <3>1. CASE rx'.unread = Append(r, n)
      BY <3>0, <3>1
    <3>2. CASE r # <<>> /\ rx'.unread = Append(Tail(r), n) /\ Overwritten(BusCap, rx) = {Head(r)}
      <4>1. /\ a \o Tail(r) \o <<>> \in Seq(Nat)
            /\ Ordered(a \o r \o <<>>) => Ordered(a \o Tail(r) \o <<>>)
            /\ ToSet(a \o r \o <<>>) = ToSet(a \o Tail(r) \o <<>>) \cup {Head(r)}
        <5>1. <<>> \in Seq(Nat)
          BY EmptySeq
        <5>. QED
          BY <1>1, <3>2, <5>1, HeadDropped
      <4>2. Tail(r) \in Seq(Nat)
        BY <1>1, <3>2, HeadAndTail
      <4>3. a \o Tail(r) \in Seq(Nat)
        BY <1>1, <4>2, ConcatProperties
      <4>4. a \o r \o <<>> = a \o r /\ a \o Tail(r) \o <<>> = a \o Tail(r)
        BY <1>1, <4>3, ConcatEmptySeq
      <4>. QED
        BY <3>0, <3>2, <4>1, <4>2, <4>3, <4>4
    <3>. QED
      <4>1. \/ Push(BusCap, rx, n).unread = Append(rx.unread, n)
            \/ /\ rx.unread # <<>>
               /\ Push(BusCap, rx, n).unread = Append(Tail(rx.unread), n)
               /\ Overwritten(BusCap, rx) = {Head(rx.unread)}
        BY <1>1, <1>2, Pushed
      <4>. QED
        BY <2>1, <3>1, <3>2, <4>1 DEF r
  <2>3. Stream' = Append(a \o q, n)
    <3>1. Append(q, n) = q \o <<n>> /\ Append(a \o q, n) = (a \o q) \o <<n>> /\ <<n>> \in Seq(Nat)
      <4>1. PICK u \in Seq(Nat) : u = a \o q
        BY <2>2
      <4>2. Append(q, n) = q \o <<n>> /\ Append(u, n) = u \o <<n>> /\ <<n>> \in Seq(Nat)
        BY <1>2, AppendIsConcat
      <4>. QED
        BY <4>1, <4>2
    <3>2. (a \o q) \o <<n>> = a \o (q \o <<n>>)
      BY <1>1, <3>1, Associates
    <3>. QED
      BY <1>2, <2>2, <3>1, <3>2
  <2>4. ToSet(Stream) \subseteq 0..Len(events)
    BY DEF InOrder
  <2>5. \A x \in ToSet(a \o q) : x < n
    BY <1>0, <1>1, <2>2, <2>4
  <2>6. Ordered(Append(a \o q, n)) /\ ToSet(Append(a \o q, n)) = ToSet(a \o q) \cup {n}
    BY <1>2, <2>2, <2>5, GreaterAtTheEnd
  <2>7. InOrder'
    <3>1. ToSet(Stream') \subseteq 0..n
      <4>1. 0..Len(events) \subseteq 0..n /\ n \in 0..n
        BY <1>0, <1>1
      <4>2. ToSet(Stream') = ToSet(a \o q) \cup {n}
        BY <2>3, <2>6
      <4>3. ToSet(a \o q) \subseteq 0..n
        BY <2>2, <2>4, <4>1
      <4>. QED
        BY <4>1, <4>2, <4>3
    <3>. QED
      BY <1>2, <2>3, <2>6, <3>1 DEF InOrder
  <2>8. NoSilentGap'
    <3>1. SUFFICES ASSUME open, handler = "streaming", NEW x \in (from + 1)..n
                   PROVE  x \in ToSet(Stream') \cup lost'
      BY <1>2 DEF NoSilentGap
    <3>2. CASE x = n
      BY <2>3, <2>6, <3>2
    <3>3. CASE x # n
      <4>1. x \in (from + 1)..Len(events)
        BY <1>0, <1>1, <3>3
      <4>2. x \in ToSet(Stream) \cup lost
        BY <3>1, <4>1 DEF NoSilentGap
      <4>. QED
        BY <2>1, <2>2, <2>3, <2>6, <4>2
    <3>. QED
      BY <3>2, <3>3
  <2>. QED
    BY <2>7, <2>8
<1>. QED
  BY <1>3, <1>4

LEMMA StreamKept ==
  ASSUME Flows, [Next]_vars
  PROVE  InOrder' /\ NoSilentGap'
<1>1. TypeOK /\ OneKind /\ NotBegun /\ InOrder /\ NoSilentGap
  BY DEF Flows, ArrivesWhole
<1>2. TypeOK' /\ OneKind' /\ NotBegun'
  BY <1>1, TypeKept, KindKept, NotBegunKept
<1>3. from' \in Nat
  BY <1>2, Typed DEF TypeOK, ServerTypes
<1>4. CASE \E k \in Key : Publish(k)
  BY <1>1, <1>4, PublishCarries
<1>5. CASE ~\E k \in Key : Publish(k)
  <2>. SUFFICES Carries
    BY <1>1, <1>3, CarriedSafely
  <2>1. CASE UNCHANGED vars
    BY <1>1, <2>1, Still DEF vars, tuiVars
  <2>2. CASE Serve
    BY <1>1, <2>2, ServeCarries
  <2>3. CASE Break \/ Stop
    <3>1. CASE Break \/ (Stop /\ open)
      BY <1>1, <3>1, CutCarries DEF Break, Stop, tuiVars
    <3>2. CASE Stop /\ ~open
      BY <1>1, <3>2, Still DEF Stop, tuiVars
    <3>. QED
      BY <2>3, <3>1, <3>2
  <2>4. CASE Restart
    BY <1>1, <2>4, Still DEF Restart, tuiVars
  <2>5. CASE Start \/ Tell \/ Attempt \/ ConnectFailed \/ Ended \/ Wake
    BY <1>1, <2>5, Still DEF Start, Tell, Attempt, ConnectFailed, Ended, Wake, quiet, loopVars
  <2>6. CASE ConnectOk
    BY <1>1, <2>6, AcceptCarries DEF ConnectOk, quiet, loopVars
  <2>7. CASE Read
    BY <1>1, <2>7, ReadCarries
  <2>8. CASE Loop
    BY <1>1, <2>8, LoopCarries
  <2>9. CASE EnsureStarted \/ OnClose \/ OnTimer
    BY <1>1, <2>9, Still DEF EnsureStarted, OnClose, OnTimer, webQuiet, tuiVars
  <2>10. CASE OnOpen
    BY <1>1, <2>10, AcceptCarries DEF OnOpen, webQuiet, tuiVars
  <2>11. CASE OnMessage
    BY <1>1, <1>2, <2>11, OnMessageCarries
  <2>. QED
    BY <1>5, <2>1, <2>2, <2>3, <2>4, <2>5, <2>6, <2>7, <2>8, <2>9, <2>10, <2>11 DEF Next, Run, Web
<1>. QED
  BY <1>4, <1>5

\* A new event, or one that was lost, is none of what arrived.
LEMMA RingsKept ==
  ASSUME Flows, [Next]_vars
  PROVE  RingsExact'
<1>1. TypeOK /\ OneKind /\ InOrder /\ RingsExact
  BY DEF Flows, ArrivesWhole
<1>2. CASE OnMessage
  BY <1>2, RingStep DEF RingsExact
<1>3. CASE \E k \in Key : Publish(k)
  <2>1. PICK k \in Key : Publish(k)
    BY <1>3
  <2>2. seen' = seen /\ rings' = rings /\ count' = count /\ who' = who /\ events' = Append(events, k)
    BY <2>1 DEF Publish, webVars
  <2>3. \A e \in 1..Len(events) : events'[e] = events[e]
    BY <1>1, <2>2, Typed, AppendProperties
  <2>4. ToSet(seen) \subseteq 0..Len(events)
    <3>1. PICK a \in Seq(Nat) : a = seen \o batch \o envRx.unread \o wire
      BY <1>1, StreamTyped
    <3>2. PICK b \in Seq(Nat) : b = seen \o batch \o envRx.unread
      BY <1>1, StreamTyped
    <3>3. PICK c \in Seq(Nat) : c = seen \o batch
      BY <1>1, StreamTyped
    <3>4. seen \in Seq(Nat) /\ batch \in Seq(Nat) /\ envRx.unread \in Seq(Nat)
          /\ wire \in Seq(Nat) /\ rx.unread \in Seq(Nat)
      BY <1>1, StreamTyped
    <3>5. ToSet(seen) \subseteq ToSet(c)
      BY <3>3, <3>4, ToSetConcat
    <3>6. b = c \o envRx.unread
      BY <3>2, <3>3
    <3>7. ToSet(c) \subseteq ToSet(b)
      BY <3>4, <3>6, ToSetConcat
    <3>8. a = b \o wire
      BY <3>1, <3>2
    <3>9. ToSet(b) \subseteq ToSet(a)
      BY <3>4, <3>8, ToSetConcat
    <3>10. Stream = a \o rx.unread
      BY <3>1 DEF Stream
    <3>11. ToSet(a) \subseteq ToSet(Stream)
      BY <3>4, <3>10, ToSetConcat
    <3>. QED
      BY <1>1, <3>5, <3>7, <3>9, <3>11 DEF InOrder
  <2>5. \A l : Arrived(l)' = Arrived(l)
    <3>1. Len(events) \in Nat
      BY <1>1, Typed
    <3>. QED
      BY <2>2, <2>3, <2>4, <3>1 DEF Arrived
  <2>. QED
    BY <1>1, <2>2, <2>5 DEF RingsExact, RingExact
<1>4. CASE ~OnMessage /\ ~\E k \in Key : Publish(k)
  <2>1. who' = who /\ rings' = rings /\ count' = count /\ events' = events
    BY <1>4 DEF Next, vars, webVars, Serve, Break, Stop, Restart, Start, Run, Tell, Attempt, ConnectOk,
                ConnectFailed, Read, Ended, Wake, Loop, AppNew, EventLoop, RecvEnvelope, RecvStatus,
                Drained, StatusDrained, Web, EnsureStarted, OnOpen, OnClose, OnTimer, quiet, webQuiet
  <2>2. who = "web" => seen' = seen
    BY <1>1, <1>4 DEF Next, vars, Serve, Break, Stop, Restart, Start, Run, Tell, Attempt, ConnectOk,
                ConnectFailed, Read, Ended, Wake, Loop, AppNew, EventLoop, RecvEnvelope, RecvStatus,
                Drained, StatusDrained, Web, EnsureStarted, OnOpen, OnClose, OnTimer, quiet, OneKind
  <2>3. ASSUME who = "web", NEW l \in Key
        PROVE  RingExact(l)'
    <3>1. RingExact(l) /\ Arrived(l)' = Arrived(l)
      BY <1>1, <2>1, <2>2, <2>3 DEF RingsExact, Arrived
    <3>. QED
      BY <2>1, <3>1 DEF RingExact
  <2>. QED
    BY <2>1, <2>3 DEF RingsExact
<1>. QED
  BY <1>2, <1>3, <1>4

-----------------------------------------------------------------------------
(* The theorems.                                                           *)

LEMMA InitFlows == Init => Flows
<1>. SUFFICES ASSUME Init PROVE Flows
  OBVIOUS
<1>1. TypeOK
  BY InitTyped
<1>2. Stream = <<>>
  <2>1. <<>> \o <<>> = <<>>
    BY EmptySeq, ConcatEmptySeq
  <2>. QED
    BY <2>1 DEF Init, Stream, Empty
<1>3. InOrder /\ NoSilentGap
  BY <1>2, ToSetShort DEF Init, InOrder, NoSilentGap, Ordered
<1>4. RingsExact
  <2>1. \A k : Arrived(k) = {}
    BY ToSetShort DEF Init, Arrived
  <2>2. Cardinality({}) = 0 /\ RingMax \in Nat \ {0}
    BY FS_EmptySet, FeedAssumption
  <2>3. \A k \in Key : rings[k] = <<>> /\ count[k] = 0
    BY DEF Init
  <2>4. ASSUME NEW k \in Key
        PROVE  RingExact(k)
    <3>1. Len(<<>>) = 0 /\ 1..0 = {}
      OBVIOUS
    <3>2. rings[k] = <<>> /\ count[k] = 0 /\ Arrived(k) = {}
      BY <2>1, <2>3
    <3>. QED
      BY <2>2, <3>1, <3>2, ToSetShort DEF RingExact
  <2>. QED
    BY <2>4 DEF RingsExact
<1>5. OneKind /\ NotBegun /\ StatusComes /\ SocketOrTimer
  BY DEF Init, OneKind, NotBegun, StatusComes, SocketOrTimer, Empty
<1>. QED
  BY <1>1, <1>3, <1>4, <1>5 DEF Flows, ArrivesWhole

(* The inductive invariant: the stages of the feed, from the bus to what   *)
(* the client acted on, are one ordered sequence, and whatever has dropped *)
(* out of it is known lost.                                                *)
THEOREM AlwaysFlows == Spec => []Flows
<1>1. Init => Flows
  BY InitFlows
<1>2. Flows /\ [Next]_vars => Flows'
  <2>. SUFFICES ASSUME Flows, [Next]_vars PROVE Flows'
    OBVIOUS
  <2>1. TypeOK /\ OneKind /\ NotBegun /\ StatusComes /\ SocketOrTimer
    BY DEF Flows, ArrivesWhole
  <2>2. TypeOK' /\ InOrder' /\ NoSilentGap' /\ RingsExact'
    BY TypeKept, StreamKept, RingsKept
  <2>3. OneKind' /\ NotBegun' /\ StatusComes' /\ SocketOrTimer'
    BY <2>1, KindKept, NotBegunKept, StatusKept, SocketKept
  <2>. QED
    BY <2>2, <2>3 DEF Flows, ArrivesWhole
<1>. QED
  BY <1>1, <1>2, PTL DEF Spec

(* Events reach either client in the order they were sent, none twice and  *)
(* none missing unnoticed, and the web client's rings and counts are exact.*)
THEOREM EventsArriveWhole == Spec => []ArrivesWhole
<1>1. Flows => ArrivesWhole
  BY DEF Flows
<1>. QED
  BY <1>1, AlwaysFlows, PTL

(* The web client holds one socket at most and none beside a timer, and    *)
(* the TUI's dot ends at the bus's status.                                 *)
THEOREM ConnectedOnce == Spec => []OneConnection
<1>1. Flows => OneConnection
  <2>. SUFFICES ASSUME Flows PROVE OneConnection
    OBVIOUS
  <2>1. TypeOK /\ StatusComes /\ SocketOrTimer
    BY DEF Flows, ArrivesWhole
  <2>2. StatusFollows
    BY <2>1 DEF StatusFollows, StatusComes, IsEmpty, Empty
  <2>3. OneSocket
    BY <2>1 DEF OneSocket, SocketOrTimer, TypeOK, WebTypes
  <2>. QED
    BY <2>2, <2>3 DEF OneConnection
<1>. QED
  BY <1>1, AlwaysFlows, PTL
=============================================================================

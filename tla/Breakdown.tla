----------------------------- MODULE Breakdown ------------------------------
(***************************************************************************)
(* What a chat sent and received, broken down into a tree, in full or as   *)
(* the difference from the chat before it: by the TUI and by the dashboard.*)
(*                                                                         *)
(* A chat is a record [has, system, tools, input, output]: the content     *)
(* attributes it has, and a sequence of parts, of definitions [name, words]*)
(* (sorted by name, the unnamed last) and two of messages [role, parts].   *)
(* Parts are [type, call, words, long]: call is the id of a tool call, and *)
(* a text is the set of words a search can find in it.                     *)
(*                                                                         *)
(* A tree is the sequence of its nodes, top to bottom.  Node ids are paths *)
(* of strings; one node is under another if its id extends the other's.    *)
(***************************************************************************)
EXTENDS Integers, Sequences, SequencesExt, FiniteSets, FiniteSetsExt, TLC

CONSTANT NoChat

Text == {"text", "reasoning"}

Node(id, kind, badge, words, prims, size) ==
  [id |-> id, kind |-> kind, badge |-> badge, words |-> words, prims |-> prims, size |-> size,
   role |-> "", calls |-> {}]

Under(a, b) == IsStrictPrefix(b, a)
Below(tree, id) == {i \in DOMAIN tree : Under(tree[i].id, id)}
IsLeaf(tree, n) == Below(tree, n.id) = {}

At(id, i) == Append(id, ToString(i - 1))   \* the code counts from 0

PartsSize(parts) == Len(parts) + 1
MessagesSize(ms) == MapThenSumSet(LAMBDA i : PartsSize(ms[i].parts), DOMAIN ms) + 1

Flat(seqs) == FoldLeft(LAMBDA a, b : a \o b, <<>>, seqs)

-----------------------------------------------------------------------------
(* Parts and messages.                                                     *)

PartNode(p, id, kind) ==
  [Node(id, kind, "", p.words, <<[words |-> p.words, long |-> p.long]>>, 1) EXCEPT
     !.calls = IF p.type = "tool_call_response" THEN {p.call} ELSE {}]

PartNodes(parts, id, kind) == [i \in DOMAIN parts |-> PartNode(parts[i], At(id, i), kind)]

(* A message and its parts.                                                *)
MessageNodes(m, id, badge) ==
  <<[Node(id, "message", badge, {}, <<>>, PartsSize(m.parts)) EXCEPT !.role = m.role]>>
    \o PartNodes(m.parts, id, "part")

(* Messages of ms from the k-th on.                                        *)
MessageList(ms, k, id, badge) ==
  Flat([i \in 1..(Len(ms) - k + 1) |-> MessageNodes(ms[i + k - 1], At(id, i + k - 1), badge)])

-----------------------------------------------------------------------------
(* Differences.                                                            *)

(* Mistake: equal entries are taken away together, however many there are. *)
SurplusOfKinds(s, t) ==
  SelectSeq(s, LAMBDA x : x \notin ToSet(t))

(* The entries of s that are left when each entry of t takes an equal one  *)
(* of them away.                                                           *)
Surplus(s, t) ==
  LET Count(q, x, k) == Cardinality({j \in 1..k : q[j] = x})
      left == SelectSeq([i \in DOMAIN s |-> i], LAMBDA i : Count(s, s[i], i) > Count(t, s[i], Len(t)))
  IN [i \in DOMAIN left |-> s[left[i]]]

CommonPrefix(cur, prior) ==
  Max({k \in 0..Len(prior) : k <= Len(cur) /\ \A i \in 1..k : cur[i] = prior[i]})

CarriesOn(cur, prior) ==
  /\ prior # NoChat /\ prior.input # <<>>
  /\ CommonPrefix(cur.input, prior.input) = Len(prior.input)
  /\ Len(cur.input) > Len(prior.input)

(* What a system instruction says: the texts of its text parts.            *)
Body(parts) ==
  LET texts == SelectSeq(parts, LAMBDA p : p.type \in Text)
  IN [i \in DOMAIN texts |-> texts[i].words]

Words(parts) == UNION {parts[i].words : i \in DOMAIN parts}
NewWords(cur, prior) == Words(SelectSeq(cur, LAMBDA p : p.type \in Text)) \ Words(prior)

-----------------------------------------------------------------------------
(* The TUI.                                                                *)

Captured(c) == c.has \cap {"system", "input", "output"} # {}

(* The chat a tree is compared with, if any.                               *)
Baseline(mode, prior) ==
  IF mode = "DELTA" /\ prior # NoChat /\ (prior # NoChat => Captured(prior)) THEN prior ELSE NoChat

SystemNodes(cur, prior) ==
  LET id == <<"system">>
      size == PartsSize(cur.system)
      Section(kind, badge) == Node(id, kind, badge, {}, <<>>, size)
  IN IF prior = NoChat THEN <<Section("system", "")>> \o PartNodes(cur.system, id, "leaf")
     ELSE IF cur.system = prior.system \/ Body(cur.system) = Body(prior.system)
     THEN <<Node(Append(id, "unchanged"), "unchanged", "UNCHANGED", {}, <<>>, size)>>
     ELSE <<Section("changed", "CHANGED"),
            Node(Append(id, "diff"), "diff", "CHANGED",
                 NewWords(cur.system, prior.system), <<>>, size)>>

DefNode(d, id, badge) ==
  Node(id, "tool_def", badge, d.words, <<[words |-> d.words, long |-> FALSE]>>, 1)

DefNodes(defs, id, tag, badge) ==
  [i \in DOMAIN defs |-> DefNode(defs[i], Append(id, tag \o ToString(i - 1)), badge)]

ToolNodes(cur, prior) ==
  LET id == <<"tools">>
      size == PartsSize(cur.tools)
      removed == Surplus(prior.tools, cur.tools)
      added == Surplus(cur.tools, prior.tools)
      Section(badge) == Node(id, "tools", badge, {}, <<>>, size)
  IN IF prior = NoChat THEN <<Section("")>> \o DefNodes(cur.tools, id, "", "")
     ELSE IF removed = <<>> /\ added = <<>>
     THEN <<Node(Append(id, "unchanged"), "unchanged", "UNCHANGED", {}, <<>>, size)>>
     ELSE <<Section("CHANGED")>> \o DefNodes(removed, id, "rem", "REMOVED")
                                 \o DefNodes(added, id, "add", "ADDED")

InputNodes(cur, prior) ==
  LET id == <<"input">>
      size == MessagesSize(cur.input)
      Section(badge) == Node(id, "input", badge, {}, <<>>, size)
  IN IF CarriesOn(cur, prior)
     THEN <<Section("CHANGED"),
            Node(Append(id, "unchanged"), "carried", "UNCHANGED", {}, <<>>, MessagesSize(prior.input))>>
          \o MessageList(cur.input, Len(prior.input) + 1, id, "ADDED")
     ELSE <<Section("")>> \o MessageList(cur.input, 1, id, "")

OutputNodes(cur) ==
  <<Node(<<"output">>, "output", "", {}, <<>>, MessagesSize(cur.output))>>
    \o MessageList(cur.output, 1, <<"output">>, "")

(* build_tree, without its root, which is never drawn.                     *)
Tree(cur, prior) ==
  SystemNodes(cur, prior) \o ToolNodes(cur, prior) \o InputNodes(cur, prior) \o OutputNodes(cur)

NodeMatches(n, q) == q \in n.words \/ \E i \in DOMAIN n.prims : q \in n.prims[i].words

(* Matches and all they are under.                                         *)
SearchExpanded(tree, q) ==
  {tree[i].id : i \in {i \in DOMAIN tree :
     \E j \in DOMAIN tree : NodeMatches(tree[j], q) /\ IsPrefix(tree[i].id, tree[j].id)}}

SearchExpandedPrims(tree, q) ==
  UNION {{<<tree[i].id, k>> : k \in {k \in DOMAIN tree[i].prims : q \in tree[i].prims[k].words}} :
           i \in DOMAIN tree}

(* The nodes whose every ancestor is expanded.                             *)
Seen(tree, expanded) ==
  SelectSeq(tree, LAMBDA n : \A j \in DOMAIN tree : Under(n.id, tree[j].id) => tree[j].id \in expanded)

(* visible_frontier: the segments of the summary bar.                      *)
Frontier(tree, expanded) ==
  SelectSeq(Seen(tree, expanded), LAMBDA n : n.id \notin expanded \/ IsLeaf(tree, n))

(* Rows: of a node, of a primitive of it, or of some of its text.          *)
Row(id, what) == [id |-> id, what |-> what]

NodeRows(n, expanded, prims) ==
  LET PrimRows(k) ==
        <<Row(n.id, "prim")>> \o
          IF n.prims[k].long /\ <<n.id, k>> \in prims THEN <<Row(n.id, "text")>> ELSE <<>>
  IN <<Row(n.id, "node")>>
     \o (IF n.kind = "diff" THEN <<Row(n.id, "text")>> ELSE <<>>)
     \o (IF n.id \in expanded
         THEN Flat([k \in DOMAIN n.prims |-> PrimRows(k)])
              \o (IF n.kind = "part" THEN <<Row(n.id, "text")>> ELSE <<>>)
         ELSE <<>>)

Rows(tree, expanded, prims) ==
  LET seen == Seen(tree, expanded) IN Flat([i \in DOMAIN seen |-> NodeRows(seen[i], expanded, prims)])

(* auto_expand_for_tool_call: the message that answers the call.           *)
Answers(tree, call) ==
  {tree[i].id : i \in {i \in DOMAIN tree :
     tree[i].kind = "message" /\ tree[i].role = "tool" /\ tree[i].id[1] = "input"
     /\ \E j \in Below(tree, tree[i].id) : call \in tree[j].calls}}

(* allocate_widths: rounded down, what is left over going to those that    *)
(* lost most by it, the first of them first.                               *)
Allocated(segs, width) ==
  LET total == MapThenSumSet(LAMBDA i : segs[i].size, DOMAIN segs)
      Share(i) == (segs[i].size * width) \div total
      Lost(i) == (segs[i].size * width) % total
      left == width - MapThenSumSet(Share, DOMAIN segs)
      Sooner(i) == {j \in DOMAIN segs : Lost(j) > Lost(i) \/ (Lost(j) = Lost(i) /\ j < i)}
  IN [i \in DOMAIN segs |-> Share(i) + IF Cardinality(Sooner(i)) < left THEN 1 ELSE 0]

-----------------------------------------------------------------------------
(* The dashboard.                                                          *)

WebBaseline(mode, prior) ==
  IF mode = "DELTA" /\ prior # NoChat
     /\ (prior # NoChat => prior.system # <<>> \/ prior.tools # <<>> \/ prior.input # <<>>)
  THEN prior ELSE NoChat

WebText(parts) == [i \in DOMAIN parts |-> parts[i].words]

(* A definition is compared with the last of its name in the chat before.  *)
WebSurplus(s, t) ==
  LET LastNamed(q, i) == q[i].name = "" \/ \A j \in (i + 1)..Len(q) : q[j].name # q[i].name
      lasts == SelectSeq([i \in DOMAIN s |-> i], LAMBDA i : LastNamed(s, i))
      theirs == SelectSeq([i \in DOMAIN t |-> i], LAMBDA i : LastNamed(t, i))
  IN Surplus([i \in DOMAIN lasts |-> s[lasts[i]]], [i \in DOMAIN theirs |-> t[theirs[i]]])

WebNode(id, kind, prims) == Node(id, kind, "", {}, prims, 1)

WebSystemNodes(cur, prior) ==
  LET id == <<"root", "input", "system">> IN
  IF prior = NoChat THEN <<WebNode(id, "system", <<>>)>> \o PartNodes(cur.system, id, "leaf")
  ELSE IF cur.system = prior.system THEN <<WebNode(id, "unchanged", <<>>)>>
  ELSE <<WebNode(id, "changed", <<>>),
         WebNode(Append(id, "diff"), "diff",
                 <<[words |-> Words(cur.system) \ Words(prior.system), long |-> FALSE]>>)>>

WebToolNodes(cur, prior) ==
  LET id == <<"root", "input", "tool_defs">>
      removed == WebSurplus(prior.tools, cur.tools)
      added == WebSurplus(cur.tools, prior.tools)
  IN IF prior = NoChat THEN <<WebNode(id, "tools", <<>>)>> \o DefNodes(cur.tools, id, "", "")
     ELSE IF removed = <<>> /\ added = <<>> THEN <<WebNode(id, "unchanged", <<>>)>>
     ELSE <<WebNode(id, "tools", <<>>)>> \o DefNodes(removed, id, "rem/", "REMOVED")
                                         \o DefNodes(added, id, "add/", "ADDED")

WebInputNodes(cur, prior) ==
  LET id == <<"root", "input", "input_messages">> IN
  <<WebNode(id, "input", <<>>)>> \o
    IF CarriesOn(cur, prior)
    THEN <<WebNode(Append(id, "unchanged"), "carried", <<>>)>>
         \o MessageList(cur.input, Len(prior.input) + 1, id, "ADDED")
    ELSE MessageList(cur.input, 1, id, "")

(* buildTree: what the chat has no attribute for is left out.              *)
WebTree(cur, prior) ==
  LET If(key, nodes) == IF key \in cur.has THEN nodes ELSE <<>> IN
  <<WebNode(<<"root">>, "root", <<>>)>>
  \o (IF cur.has \cap {"system", "tools", "input"} # {}
      THEN <<WebNode(<<"root", "input">>, "context input", <<>>)>> ELSE <<>>)
  \o If("system", WebSystemNodes(cur, prior))
  \o If("tools", WebToolNodes(cur, prior))
  \o If("input", WebInputNodes(cur, prior))
  \o If("output", <<WebNode(<<"root", "output">>, "output", <<>>)>>
                  \o MessageList(cur.output, 1, <<"root", "output">>, ""))

(* computeActiveNodeIds: only what is in primitives and in what is new.    *)
ActiveIds(tree, q) ==
  {tree[i].id : i \in {i \in DOMAIN tree :
     \E j \in DOMAIN tree :
       /\ \E k \in DOMAIN tree[j].prims : q \in tree[j].prims[k].words
       /\ IsPrefix(tree[i].id, tree[j].id)}}

WebAnswers(cur, call) ==
  {<<"root", "input", "input_messages", ToString(i - 1)>> :
     i \in {i \in DOMAIN cur.input : cur.input[i].role = "tool" /\
              \E j \in DOMAIN cur.input[i].parts :
                cur.input[i].parts[j].type = "tool_call_response" /\ cur.input[i].parts[j].call = call}}
=============================================================================

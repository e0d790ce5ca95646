----------------------------- MODULE SpanLedger -----------------------------
(***************************************************************************)
(* What normalization promises about the span table and the pointers that  *)
(* hang off it, whatever the order, duplication or concurrency of ingest   *)
(* and wherever a handler may fail:                                        *)
(*   - a span row goes from absent to placeholder to real and never back;  *)
(*   - a pointer column is written once;                                   *)
(*   - it is written on a row of a real span, and it names an ancestor of  *)
(*     that span, of the kind the column is for, which is real itself.     *)
(***************************************************************************)
CONSTANTS Span, Column, Candidates, None

VARIABLES
  row,  \* row[s]: "absent", "placeholder" or "real"
  ptr   \* ptr[c][s]: the span that column c of a row of s points at

ledger == <<row, ptr>>

Init ==
  /\ row = [s \in Span |-> "absent"]
  /\ ptr = [c \in Column |-> [s \in Span |-> None]]

\* A child arrived first: its parent gets a skeletal row.
Reserve(s) ==
  /\ row[s] = "absent"
  /\ row' = [row EXCEPT ![s] = "placeholder"]
  /\ UNCHANGED ptr

\* The span itself arrives, over its placeholder if it has one.
Land(s) ==
  /\ row[s] # "real"
  /\ row' = [row EXCEPT ![s] = "real"]
  /\ UNCHANGED ptr

\* Some NULL pointers of one span are filled in.
Link(s) ==
  /\ row[s] = "real"
  /\ ptr' \in [Column -> [Span -> Span \cup {None}]]
  /\ \A c \in Column, t \in Span :
        ptr'[c][t] # ptr[c][t] =>
          /\ t = s
          /\ ptr[c][t] = None
          /\ ptr'[c][t] \in Candidates[c][t]
          /\ row[ptr'[c][t]] = "real"
  /\ UNCHANGED row

Next == \E s \in Span : Reserve(s) \/ Land(s) \/ Link(s)

Spec == Init /\ [][Next]_ledger
=============================================================================

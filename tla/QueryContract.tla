---------------------------- MODULE QueryContract ----------------------------
(***************************************************************************)
(* What the TUI's query cache promises to the panes that draw from it, for *)
(* keys that are never evicted.  An answer is represented by the version   *)
(* of the backend's data that it was computed from.                        *)
(*   - the cache never invents an answer, and never goes back to an older  *)
(*     one;                                                                *)
(*   - an answer that is presented as fresh was computed after the last    *)
(*     invalidation of its key.                                            *)
(***************************************************************************)
EXTENDS Naturals

CONSTANTS Key, None

VARIABLES
  server,   \* server[k]: version of the backend's data behind k
  board,    \* board[k]: version of the answer on show, or None
  fresh,    \* fresh[k]: whether that answer is presented as fresh
  promised  \* promised[k]: server[k] at the last invalidation of k

contract == <<server, board, fresh, promised>>

Init ==
  /\ server = [k \in Key |-> 0]
  /\ board = [k \in Key |-> None]
  /\ fresh = [k \in Key |-> FALSE]
  /\ promised = [k \in Key |-> 0]

\* The backend's data change.
Change(k) ==
  /\ server' = [server EXCEPT ![k] = @ + 1]
  /\ UNCHANGED <<board, fresh, promised>>

\* The client is told that the answers for some keys may have changed.
Invalidate(K) ==
  /\ promised' = [k \in Key |-> IF k \in K THEN server[k] ELSE promised[k]]
  /\ fresh' = [k \in Key |-> IF k \in K THEN FALSE ELSE fresh[k]]
  /\ UNCHANGED <<server, board>>

\* An answer that the backend has given is put on show.
Answer(k, v) ==
  /\ v >= promised[k]
  /\ board[k] # None => v >= board[k]
  /\ board' = [board EXCEPT ![k] = v]
  /\ fresh' = [fresh EXCEPT ![k] = TRUE]
  /\ UNCHANGED <<server, promised>>

\* An answer grows old.
Age(k) ==
  /\ fresh' = [fresh EXCEPT ![k] = FALSE]
  /\ UNCHANGED <<server, board, promised>>

Next ==
  \/ \E k \in Key : Change(k) \/ Age(k) \/ \E v \in 0..server[k] : Answer(k, v)
  \/ \E K \in SUBSET Key : Invalidate(K)

Spec == Init /\ [][Next]_contract
=============================================================================

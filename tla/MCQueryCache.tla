---------------------------- MODULE MCQueryCache -----------------------------
(***************************************************************************)
(* Small instances of QueryCache: a list and a search, or span details     *)
(* that compete for the places of the cache.                               *)
(***************************************************************************)
EXTENDS QueryCache

CONSTANTS sessions, tree, hits, a, b

MCSegment == sessions :> "sessions" @@ tree :> "session-span-tree"
             @@ hits :> "search-spans" @@ a :> "span" @@ b :> "span"

NoSelection == {{}}
OneSelected == {{a}, {b}}

Turns == {<<"derived", "chat_turn">>}
NoEnvelope == {}

TaskSymmetry == Permutations(Task)
=============================================================================

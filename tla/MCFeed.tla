------------------------------- MODULE MCFeed -------------------------------
(***************************************************************************)
(* Small channels for TLC: each of them can overrun.                       *)
(***************************************************************************)
EXTENDS Feed
=============================================================================

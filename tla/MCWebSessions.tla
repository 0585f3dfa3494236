---------------------------- MODULE MCWebSessions ----------------------------
(* WebSessions for TLC: symmetric requests. *)
EXTENDS WebSessions, TLC

Symmetry == Permutations(Tasks)
=============================================================================

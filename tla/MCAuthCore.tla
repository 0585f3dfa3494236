----------------------------- MODULE MCAuthCore -----------------------------
(* AuthCore for TLC: symmetric codes and keys. *)
EXTENDS AuthCore, TLC

Symmetry == Permutations(Codes) \cup Permutations(Keys)
=============================================================================

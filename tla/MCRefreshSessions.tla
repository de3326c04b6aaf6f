------------------------- MODULE MCRefreshSessions -------------------------
(* Small instances of RefreshSessions for TLC, and the mutants of its definitions. *)
EXTENDS RefreshSessions, TLC

Symmetry == Permutations(User) \cup Permutations(Request) \cup Permutations(Session)
=============================================================================

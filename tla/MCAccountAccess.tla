-------------------------- MODULE MCAccountAccess --------------------------
(* Small instances of AccountAccess for TLC. *)
EXTENDS AccountAccess, TLC

Symmetry == Permutations(User) \cup Permutations(Login) \cup Permutations(Mailing) \cup Permutations(Token)
============================================================================

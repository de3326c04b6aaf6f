---------------------------- MODULE MCAdminGuard ----------------------------
(* Small instances of AdminGuard for TLC. *)
EXTENDS AdminGuard, TLC

Symmetry == Permutations(User) \cup Permutations(Request) \cup Permutations(Login)

(* Everything the administrator routes can do, with two of the four statuses. *)
Guarded == {op \in GuardedOperation : op[1] = "patch" => op[3] \in {"ACTIVE", "DISABLED"}}
=============================================================================

----------------------------- MODULE MCUserAdmin -----------------------------
(* Small instances of UserAdmin for TLC. *)
EXTENDS UserAdmin, TLC

Symmetry == Permutations(Request) \cup Permutations(User)
=============================================================================

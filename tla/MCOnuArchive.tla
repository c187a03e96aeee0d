---------------------------- MODULE MCOnuArchive ----------------------------
(* Small instances of OnuArchive for TLC. *)
EXTENDS OnuArchive, TLC

Symmetry ==
    Permutations(Handler) \cup Permutations(Walk) \cup Permutations(OnuId) \cup Permutations(RowId)
=============================================================================

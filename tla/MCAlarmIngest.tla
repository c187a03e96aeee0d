---------------------------- MODULE MCAlarmIngest ----------------------------
(* Small instances of AlarmIngest for TLC. *)
EXTENDS AlarmIngest, TLC

CONSTANTS k1, k2, p1, p2

\* Key k1 belongs to OLT p1, k2 to p2.
OneKey == {k1}
OneOlt == {p1}
OneOltOf == (k1 :> p1)
TwoKeys == {k1, k2}
TwoOlts == {p1, p2}
TwoOltOf == (k1 :> p1) @@ (k2 :> p2)

Symmetry == Permutations(Handler) \cup Permutations(AlarmId)
=============================================================================

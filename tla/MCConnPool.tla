----------------------------- MODULE MCConnPool -----------------------------
(***************************************************************************)
(* ConnPool on small sets.  Three callers are the fewest that overlap two  *)
(* opens of one identity with an evict; the slots bound how many opens a   *)
(* behaviour has.                                                          *)
(***************************************************************************)
EXTENDS ConnPool, TLC

CONSTANTS c1, c2, c3, i1, i2, s1, s2, s3

CallersMC == {c1, c2, c3}
CallersTwo == {c1, c2}
IdsMC == {i1, i2}
IdsOne == {i1}
SlotsMC == {s1, s2, s3}
SlotsTwo == {s1, s2}

Symm == Permutations(CallersMC) \cup Permutations(IdsMC) \cup Permutations(SlotsMC)

=============================================================================

--------------------------- MODULE MCConnRegistry ---------------------------
(***************************************************************************)
(* ConnRegistry with two spellings of one component path and two names, so *)
(* that upserts refresh, renames collide and a manual entry can sit on the *)
(* path of a detected one.                                                 *)
(***************************************************************************)
EXTENDS ConnRegistry

CONSTANTS p1, p1b, n1, n2, v1

PathsMC == {p1, p1b}
NamesMC == {n1, n2}
ValuesMC == {v1}
KeysMC == {"/c/a.yaml", "."}
NormMC == [p \in {p1, p1b, NoPath} |-> IF p = NoPath THEN "." ELSE "/c/a.yaml"]

\* No file; a file written before ids existed, its manual entry on the path of a
\* component; a file with a tombstone.
OldFilesMC ==
    {{},
     {[ManualEntry(n1, p1, v1) EXCEPT !.id = NoId]},
     {[AutoEntry(p1b, n2, v1) EXCEPT !.dismissed = TRUE]}}

=============================================================================

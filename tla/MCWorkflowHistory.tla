------------------------- MODULE MCWorkflowHistory -------------------------
(***************************************************************************)
(* A parent with two sequence ids and a child with a task under way.       *)
(***************************************************************************)
EXTENDS WorkflowHistory

MCIds == Permutations(Ids)
=============================================================================

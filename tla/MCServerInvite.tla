--------------------------- MODULE MCServerInvite ---------------------------
(***************************************************************************)
(* The tasks of the TU are interchangeable.                                *)
(***************************************************************************)
EXTENDS ServerInvite, TLC

TaskSymmetry == Permutations(TuTasks)
=============================================================================

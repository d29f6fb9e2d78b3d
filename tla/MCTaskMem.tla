----------------------------- MODULE MCTaskMem -----------------------------
(* TaskMem with its processes interchangeable. *)
EXTENDS TaskMem, TLC

UserSymmetry == Permutations(Users)

=============================================================================

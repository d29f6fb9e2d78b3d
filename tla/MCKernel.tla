------------------------------ MODULE MCKernel ------------------------------
(***************************************************************************)
(* Model checking of Kernel.                                               *)
(***************************************************************************)
EXTENDS Kernel, TLC

MCTimeouts == {-1}

\* Processes that only exit, and task_structs that do neither, are alike.
Alike == Permutations(Exiters \ Forkers)
           \cup Permutations(Users \ (Exiters \cup Forkers))

=============================================================================

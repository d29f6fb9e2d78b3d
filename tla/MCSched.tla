------------------------------ MODULE MCSched ------------------------------
(***************************************************************************)
(* Model checking of Sched on small sets of tasks and priorities.          *)
(***************************************************************************)
EXTENDS Sched

CONSTANT MaxTick    \* the longest timeout the instance uses

MCTimeouts == {-1} \cup 1 .. MaxTick

=============================================================================

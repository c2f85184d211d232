---------------------------- MODULE MCScheduler ----------------------------
(* TLC instance of Scheduler. *)
EXTENDS Scheduler, TLC

\* Workers are built with options of their own: here with unequal local deques.
EvenLocalMax == [w \in Workers |-> 1]
UnevenLocalMax == [w \in Workers |-> IF w = 0 THEN 3 ELSE 1]

\* Tasks are interchangeable: nothing compares them.
Symmetry == Permutations(Task)
============================================================================

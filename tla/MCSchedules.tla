---------------------------- MODULE MCSchedules ----------------------------
(***************************************************************************)
(* Schedules on small instances: intervals of a few minutes in place of    *)
(* hours, with a jitter of one minute.                                     *)
(***************************************************************************)
EXTENDS Schedules, TLC

MCMaxJitter == [i \in Intervals |-> 1]

Symmetry == Permutations(Workers) \cup Permutations(Puts) \cup Permutations(Sites)
=============================================================================

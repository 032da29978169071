---------------------------- MODULE MCScheduling ----------------------------
(* Instances of Scheduling: two half hours and the hour they make up. *)
EXTENDS Scheduling, TLC

HalfHours == {<<0, 1>>, <<1, 2>>, <<0, 2>>}
Symmetric == Permutations(Callers) \cup Permutations(Technicians)
=============================================================================

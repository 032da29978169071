---------------------------- MODULE MCAutomation ----------------------------
(* Automation with interchangeable workers.                                *)
EXTENDS Automation, TLC

Symmetry == Permutations(Workers)
=============================================================================

------------------------------- MODULE MCQuotes -------------------------------
(* An instance of Quotes whose shares and taxes have to be rounded. *)
EXTENDS Quotes, TLC

OddKinds == {[gross |-> 5, off |-> 0, rate |-> 10], [gross |-> 3, off |-> 2, rate |-> 50],
             [gross |-> 1, off |-> 0, rate |-> 0]}
Discounts == {[type |-> "PERCENTAGE", value |-> 50], [type |-> "FIXED", value |-> 1]}
Symmetric == Permutations(Requests)
=============================================================================

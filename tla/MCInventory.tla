----------------------------- MODULE MCInventory -----------------------------
(* Instances of Inventory.  Requests are interchangeable; locations are not, *)
(* they are ordered by Rank.                                                 *)
EXTENDS Inventory, TLC

CONSTANTS r1, r2, l1, l2

LocationRank == l1 :> 1 @@ l2 :> 2
Symmetric == Permutations(Requests)
==============================================================================

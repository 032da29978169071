----------------------------- MODULE MCDelivery -----------------------------
(* The properties say nothing of a delivery that two processes have had under *)
(* way at once: no state is explored beyond.                                  *)
EXTENDS Delivery, TLC

Apart == overlapped = {}

Symmetry == Permutations(Deliveries) \cup Permutations(Processes)

=============================================================================

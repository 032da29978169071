------------------------------- MODULE MCAssets -------------------------------
(* Customers, locations and callers are interchangeable. *)
EXTENDS Assets, TLC

Symmetric ==
  Permutations(Customers) \cup Permutations(Locations) \cup Permutations(Callers)

\* Not followed further: an asset that was sold, or whose status changed, between
\* the read and the write of a call; an asset or a work order that is gone, which no
\* step tells from one still to come; a second customer out of business.
Focus ==
  /\ \A a \in Assets : asset[a] # Gone /\ crossed[a] \in {{}, {"location"}}
  /\ \A w \in Orders : order[w] # Gone
  /\ \E c \in Customers : \A d \in Customers \ {c} : customer[d] = "ACTIVE"
=============================================================================

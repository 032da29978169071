--------------------------- MODULE MCIntegrations ---------------------------
(* Integrations with interchangeable requests, connections and servers.    *)
EXTENDS Integrations, TLC

\* Not followed: an outbound operation beside events of every nature, which it
\* neither reads nor changes; it meets dated ones.
Focus == (\E r \in Requests : attempt[r] > 0) => Dated = Events

Symmetry == Permutations(Requests) \cup Permutations(Connections) \cup Permutations(Servers)
=============================================================================

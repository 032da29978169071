--------------------------- MODULE MCSubscription ---------------------------
(* A trial at Stripe and a paid subscription at Paddle; symmetry of processes. *)
EXTENDS Subscription, TLC

TheBeginnings == {<<"STRIPE", "TRIALING">>, <<"PADDLE", "ACTIVE">>}

\* Not followed: anything beyond a write that overtook another, where the properties
\* say nothing; beside a call, a second event or a third delivery; after a crash, a
\* call, or two processes at once.
Undisturbed ==
  /\ ~overtaken
  /\ calls # 0 => Len(events) <= 1 /\ deliveries < MaxDeliveries
  /\ crashes # 0 => calls = 0 /\ \E p \in Procs : IsAt(p, "idle")

Symmetry == Permutations(Procs)

=============================================================================

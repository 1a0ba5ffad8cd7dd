----------------------------- MODULE MCDelivery -----------------------------
(* Delivery, and the queue over its table, on small instances. *)
EXTENDS ReconciliationQueue, TLC

Symmetry == Permutations(Candidate) \cup Permutations(Key) \cup Permutations(Worker)
=============================================================================

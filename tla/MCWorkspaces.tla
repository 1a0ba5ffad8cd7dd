---------------------------- MODULE MCWorkspaces ----------------------------
(* Workspaces on a small instance: a thread for each of two workspaces. *)
EXTENDS Workspaces, TLC

CONSTANTS w1, w2, t1, t2

TwoThreads == t1 :> w1 @@ t2 :> w2

Swap == t1 :> t2 @@ t2 :> t1 @@ w1 :> w2 @@ w2 :> w1

\* Ids are alike, and so are the two threads together with their workspaces.
Symmetry == Permutations(SourceId) \cup Permutations(Observation) \cup {Swap}
=============================================================================

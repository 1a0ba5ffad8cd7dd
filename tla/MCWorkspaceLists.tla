-------------------------- MODULE MCWorkspaceLists --------------------------
(* WorkspaceLists on a small instance: a thread for each of two workspaces. *)
EXTENDS WorkspaceLists, TLC

CONSTANTS w1, w2, t1, t2

TwoThreads == t1 :> w1 @@ t2 :> w2

Symmetry == Permutations(SourceId) \cup Permutations(Observation)

\* Baselines and values are read by no list and by no check but to write them.
Watched(q) ==
  IF q = None \/ q.op \in {"promote", "prune"} THEN <<>>
  ELSE IF q.op = "save" THEN <<q.id, q.observation, q.raised>>
  ELSE <<q>>

AllButValues ==
  <<backend, {<<s.space, s.id, s.workspace>> : s \in sources},
    {<<x.space, x.id, x.source>> : x \in observations},
    candidates, attempts, pc, [t \in Thread |-> Watched(request[t])], listing>>
=============================================================================

--------------------------- MODULE MCPostgresClaim ---------------------------
(* PostgresClaim on a small instance. *)
EXTENDS PostgresClaim, TLC

Symmetry == Permutations(Candidate) \cup Permutations(Key) \cup Permutations(Worker)

\* What the recipient accepted is read by no guard and by no property of the run.
AllButAccepted ==
  <<candidateState, rows, now, pc, local, sends, rejections, verdicts, holder, seen>>
=============================================================================

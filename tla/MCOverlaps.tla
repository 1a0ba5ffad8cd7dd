------------------------------ MODULE MCOverlaps ------------------------------
(* Overlaps on a small instance. *)
EXTENDS Overlaps, TLC

CONSTANTS t1, t2

Keyed == {[enabled |-> TRUE, transitions |-> {"Opened"}, unique_keys |-> TRUE]}

Outcome(health, usable, raw) == [health |-> health, usable |-> usable, raw |-> raw]

\* A workspace that an early release left has a third to begin with: a Warning
\* without row values that is its baseline.
RowResults == {Outcome("Healthy", TRUE, TRUE), Outcome("Critical", FALSE, FALSE)}

Symmetry == Permutations({t1, t2})
=============================================================================

--------------------------- MODULE MCCredentials ---------------------------
(* Credentials on small instances. *)
EXTENDS Credentials, TLC

Symmetry == Permutations(Account) \cup Permutations(Transaction)
=============================================================================

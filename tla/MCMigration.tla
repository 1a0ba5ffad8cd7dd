---------------------------- MODULE MCMigration ----------------------------
(* Migration on a small instance. *)
EXTENDS Migration, TLC

CONSTANTS s1, s2, s3, o1, o2, o3

\* Two sources of the workspace, one reviewed Healthy baseline and an incident
\* that has been delivered; and a source of another workspace.
InUse ==
  [sources      |-> {s1, s2, s3},
   baseline     |-> s1 :> o1 @@ s2 :> None @@ s3 :> None,
   observations |-> s1 :> <<o1>> @@ s2 :> <<o2>> @@ s3 :> << >>,
   reviews      |-> {o1},
   candidates   |-> {o2},
   attempts     |-> {o2}]

Stores == {InUse}
=============================================================================

---------------------------- MODULE MCDependencies ----------------------------
EXTENDS DependencyImpact

CONSTANTS sales, stock, s1, s2, model, r1, r2

TheDefinitions ==
  (sales :> [dataset |-> model, upstream |-> {s1, s2}])
    @@ (stock :> [dataset |-> model, upstream |-> {s1}])

TheHealths == (s1 :> "Healthy") @@ (s2 :> Null)

Workers == Permutations(Worker)

TheReports == [d \in Dataset |-> {r1}]

\* An edge that closes a cycle, and one a user wrote under a discovered id.
TheUserEdges ==
  {[id |-> <<"manual">>, upstream |-> <<"report", r1>>, downstream |-> <<"source", s1>>,
    discovered |-> FALSE],
   [id |-> <<"pbi", sales, "report", r2>>, upstream |-> <<"source", s2>>,
    downstream |-> <<"report", r2>>, discovered |-> TRUE]}
=============================================================================

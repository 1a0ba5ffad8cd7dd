--------------------------- MODULE DependencyImpact ---------------------------
(* What lies downstream of an asset, on the graphs that Dependencies makes.     *)
EXTENDS Dependencies

Assets(E) == {e.upstream : e \in E} \cup {e.downstream : e \in E}

\* adjacency: the edges from an asset to those right below it.
Below(E, a) == {e \in E : e.upstream = a}

\* Mutant: the root is not among the visited.
DirectUnrooted(E, root) ==
  [queue |-> SetToSeq({e.downstream : e \in Below(E, root)}), visited |-> {}, found |-> <<>>]

\* The walk begins with the assets right below the root, each once, and with the
\* root visited.
Direct(E, root) ==
  [queue |-> SetToSeq({e.downstream : e \in Below(E, root)}), visited |-> {root}, found |-> <<>>]

\* One turn of the loop.
Visit(E, walk) ==
  IF walk.queue = <<>> THEN walk
  ELSE LET a     == Head(walk.queue)
           seen  == walk.visited \cup {a}
           below == SetToSeq({e \in Below(E, a) : e.downstream \notin seen})
       IN  IF a \in walk.visited
           THEN [walk EXCEPT !.queue = Tail(@)]
           ELSE [queue   |-> Tail(walk.queue) \o [i \in DOMAIN below |-> below[i].downstream],
                 visited |-> seen,
                 found   |-> Append(walk.found, a)]

\* The walk after each number of turns.
Walk(E, root) ==
  LET after[n \in Nat] == IF n = 0 THEN Direct(E, root) ELSE Visit(E, after[n - 1])
  IN  after

\* No edge is queued twice, so the queue is empty after as many turns as there
\* are edges, if not before.
BlastRadius(E, root) == Walk(E, root)[Cardinality(E)].found

-----------------------------------------------------------------------------
\* On every graph that discovery and users can make, cyclic ones included, the
\* walk ends, and the blast radius of an asset is every other asset reachable
\* from it, once: the radius and the root are closed under edges, and each asset
\* of the radius is right below the root or an asset before it
\* (dependencies.py:64-86, docs/MILESTONES.md:97).
BlastRadiusIsReachability ==
  \A root \in Assets(edges) :
    LET found == BlastRadius(edges, root)
        Before(i) == {root} \cup {found[j] : j \in 1..(i - 1)}
    IN  /\ \A i \in DOMAIN found :
             /\ found[i] \notin Before(i)
             /\ \E e \in edges : e.downstream = found[i] /\ e.upstream \in Before(i)
        /\ \A e \in edges :
             e.upstream \in ToSet(found) \cup {root} => e.downstream \in ToSet(found) \cup {root}
=============================================================================

------------------------- MODULE DependenciesProofs -------------------------
(***************************************************************************)
(* What a discovery leaves and what trust means, for every set of guards,  *)
(* sources and requests.                                                   *)
(*                                                                         *)
(* Other guards' checks write edges between any two steps of a discovery.  *)
(* They cannot matter because ids carry the guard's namespace; the checks  *)
(* of the same guard, and users, can, and then the discovery is disturbed. *)
(* The invariant says what an undisturbed discovery still has to do:       *)
(* Settling relates the edges there are, those to delete and those to      *)
(* write, to the target, which moves with the definition.                  *)
(*                                                                         *)
(* The blast radius is everything reachable, on every finite graph.        *)
(***************************************************************************)
EXTENDS DependencyImpact, FiniteSetTheorems, SequenceTheorems, WellFoundedInduction, TLAPS

USE DependenciesAssumption

-----------------------------------------------------------------------------
(* Sequences and finite sets.                                              *)

LEMMA SeqOfSet ==
  ASSUME NEW S, IsFiniteSet(S)
  PROVE  SetToSeq(S) \in Seq(S) /\ ToSet(SetToSeq(S)) = S
<1> DEFINE n == Cardinality(S)
           f == SetToSeq(S)
<1>1. n \in Nat /\ ExistsBijection(1..n, S)
  BY FS_CardinalityType
<1>2. \E g \in [1..n -> S] : IsInjective(g)
  BY <1>1 DEF ExistsBijection, Bijection, Injection
<1>3. f \in [1..n -> S] /\ IsInjective(f)
  BY <1>2 DEF SetToSeq
<1>4. f \in Injection(1..n, S)
  BY <1>3 DEF Injection
<1>5. Cardinality(1..n) = n
  BY <1>1, FS_Interval
<1>6. f \in Surjection(1..n, S)
  BY <1>4, <1>5, FS_Injection
<1> QED BY <1>1, <1>3, <1>6 DEF ToSet, Surjection

LEMMA ToSetConcat ==
  ASSUME NEW S, NEW s \in Seq(S), NEW t \in Seq(S)
  PROVE  s \o t \in Seq(S) /\ ToSet(s \o t) = ToSet(s) \cup ToSet(t)
<1>1. Range(s \o t) = Range(s) \cup Range(t) /\ s \o t \in Seq(S)
  BY RangeConcatenation, ConcatProperties
<1> QED BY <1>1 DEF Range, ToSet

LEMMA ToSetHeadTail ==
  ASSUME NEW S, NEW s \in Seq(S), s # <<>>
  PROVE  /\ Head(s) \in S /\ Tail(s) \in Seq(S)
         /\ ToSet(s) = {Head(s)} \cup ToSet(Tail(s))
<1>1. /\ Head(s) \in S /\ Tail(s) \in Seq(S) /\ Len(Tail(s)) = Len(s) - 1
      /\ \A i \in 1..Len(Tail(s)) : Tail(s)[i] = s[i + 1]
  BY HeadTailProperties
<1>2. /\ Len(s) \in Nat \ {0} /\ DOMAIN s = 1..Len(s) /\ DOMAIN Tail(s) = 1..(Len(s) - 1)
      /\ Head(s) = s[1]
  BY <1>1, EmptySeq, LenProperties
<1>3. ASSUME NEW i \in 1..Len(s) PROVE s[i] \in {Head(s)} \cup ToSet(Tail(s))
  <2>1. CASE i = 1
    BY <1>2, <2>1
  <2>2. CASE i > 1
    <3>1. i - 1 \in 1..(Len(s) - 1) /\ Tail(s)[i - 1] = s[i]
      BY <1>1, <1>2, <2>2
    <3> QED BY <1>2, <3>1 DEF ToSet
  <2> QED BY <2>1, <2>2
<1>4. ASSUME NEW i \in 1..(Len(s) - 1) PROVE Tail(s)[i] \in ToSet(s)
  <2>1. i + 1 \in 1..Len(s) /\ Tail(s)[i] = s[i + 1]
    BY <1>1, <1>2
  <2> QED BY <1>2, <2>1 DEF ToSet
<1> QED BY <1>1, <1>2, <1>3, <1>4 DEF ToSet

LEMMA ToSetEmpty == ToSet(<<>>) = {}
  BY DEF ToSet

LEMMA SeqOnto ==
  ASSUME NEW S, NEW s \in Seq(S) PROVE s \in Seq(ToSet(s))
  BY SeqDef DEF ToSet

LEMMA SeqInto ==
  ASSUME NEW S, NEW T, S \subseteq T, NEW s \in Seq(S) PROVE s \in Seq(T)
  BY SeqMonotonic

-----------------------------------------------------------------------------
(* Namespaces and targets.                                                 *)

LEMMA NamespacesDisjoint ==
  ASSUME NEW g, NEW h, NEW id, InNamespace(id, g), InNamespace(id, h) PROVE g = h
<1>1. SubSeq(<<"pbi", g>>, 1, 2) = SubSeq(<<"pbi", h>>, 1, 2)
  BY DEF InNamespace, IsPrefix
<1> QED BY <1>1

LEMMA OwnNamespace ==
  ASSUME NEW g, NEW kind, NEW x PROVE InNamespace(<<"pbi", g, kind, x>>, g)
  BY DEF InNamespace, IsPrefix

\* The edges a discovery for g may write, whatever its definition.
Discoverable(g) == UNION {SourceEdges(g, d) \cup ReportEdges(g, d, Report) : d \in Definition}

TargetOf(g, d, reports) == SourceEdges(g, d) \cup ReportEdges(g, d, reports)

Target(w) == TargetOf(local[w].guard, definitions[local[w].guard], local[w].reports)

LEMMA DiscoverableFacts ==
  ASSUME NEW g, NEW e \in Discoverable(g) PROVE e.discovered /\ InNamespace(e.id, g)
<1>1. \E kind, x : e.id = <<"pbi", g, kind, x>> /\ e.discovered
  BY DEF Discoverable, SourceEdges, ReportEdges, Edge
<1> QED BY <1>1, OwnNamespace

LEMMA IdParts ==
  \A g, k, l, x, y : <<"pbi", g, k, x>> = <<"pbi", g, l, y>> => k = l /\ x = y
  OBVIOUS

LEMMA TargetFacts ==
  ASSUME NEW g \in Guard, NEW d \in Definition, NEW reports \in SUBSET Report
  PROVE  /\ TargetOf(g, d, reports) \subseteq Discoverable(g)
         /\ \A t, u \in TargetOf(g, d, reports) : t.id = u.id => t = u
<1>1. TargetOf(g, d, reports) \subseteq Discoverable(g)
  <2>1. ReportEdges(g, d, reports) \subseteq ReportEdges(g, d, Report)
    BY DEF ReportEdges
  <2> QED BY <2>1 DEF TargetOf, Discoverable
<1>2. \A t \in SourceEdges(g, d) : \E s :
        t.id = <<"pbi", g, "source", s>>
          /\ t = Edge(<<"pbi", g, "source", s>>, <<"source", s>>, <<"semantic_model", d.dataset>>)
  BY DEF SourceEdges, Edge
<1>3. \A t \in ReportEdges(g, d, reports) : \E r :
        t.id = <<"pbi", g, "report", r>>
          /\ t = Edge(<<"pbi", g, "report", r>>, <<"semantic_model", d.dataset>>, <<"report", r>>)
  BY DEF ReportEdges, Edge
<1>5. ASSUME NEW t \in TargetOf(g, d, reports), NEW u \in TargetOf(g, d, reports), t.id = u.id
      PROVE  t = u
  <2>1. ASSUME NEW v \in SourceEdges(g, d), NEW w \in SourceEdges(g, d), v.id = w.id PROVE v = w
    <3>1. PICK x : /\ v.id = <<"pbi", g, "source", x>>
                   /\ v = Edge(<<"pbi", g, "source", x>>, <<"source", x>>, <<"semantic_model", d.dataset>>)
      BY <1>2
    <3>2. PICK y : /\ w.id = <<"pbi", g, "source", y>>
                   /\ w = Edge(<<"pbi", g, "source", y>>, <<"source", y>>, <<"semantic_model", d.dataset>>)
      BY <1>2
    <3>3. <<"pbi", g, "source", x>> = <<"pbi", g, "source", y>>
      BY <2>1, <3>1, <3>2, Zenon
    <3>4. x = y
      BY <3>3, IdParts
    <3> QED BY <3>1, <3>2, <3>4, Zenon
  <2>2. ASSUME NEW v \in ReportEdges(g, d, reports), NEW w \in ReportEdges(g, d, reports), v.id = w.id
        PROVE  v = w
    <3>1. PICK x : /\ v.id = <<"pbi", g, "report", x>>
                   /\ v = Edge(<<"pbi", g, "report", x>>, <<"semantic_model", d.dataset>>, <<"report", x>>)
      BY <1>3
    <3>2. PICK y : /\ w.id = <<"pbi", g, "report", y>>
                   /\ w = Edge(<<"pbi", g, "report", y>>, <<"semantic_model", d.dataset>>, <<"report", y>>)
      BY <1>3
    <3>3. <<"pbi", g, "report", x>> = <<"pbi", g, "report", y>>
      BY <2>2, <3>1, <3>2, Zenon
    <3>4. x = y
      BY <3>3, IdParts
    <3> QED BY <3>1, <3>2, <3>4, Zenon
  <2>3. ASSUME NEW v \in SourceEdges(g, d), NEW w \in ReportEdges(g, d, reports) PROVE v.id # w.id
    <3>1. PICK x : v.id = <<"pbi", g, "source", x>>
      BY <1>2
    <3>2. PICK y : w.id = <<"pbi", g, "report", y>>
      BY <1>3
    <3> QED BY <3>1, <3>2
  <2> QED BY <1>5, <2>1, <2>2, <2>3 DEF TargetOf
<1> QED BY <1>1, <1>5

LEMMA DesiredIsTarget ==
  ASSUME NEW g \in Guard, NEW d \in Definition, NEW reports \in SUBSET Report
  PROVE  /\ PowerBIEdges(g, d, reports) \in Seq(Discoverable(g))
         /\ ToSet(PowerBIEdges(g, d, reports)) = TargetOf(g, d, reports)
<1>1. d.upstream \subseteq Source
  BY DEF Definition
<1>2. IsFiniteSet(SourceEdges(g, d))
  <2> DEFINE f == [s \in d.upstream |->
                     Edge(<<"pbi", g, "source", s>>, <<"source", s>>, <<"semantic_model", d.dataset>>)]
  <2>1. f \in Surjection(d.upstream, SourceEdges(g, d))
    BY DEF Surjection, SourceEdges
  <2>2. IsFiniteSet(d.upstream)
    BY <1>1, FS_Subset
  <2> QED BY <2>1, <2>2, FS_Surjection
<1>3. IsFiniteSet(ReportEdges(g, d, reports))
  <2> DEFINE f == [r \in reports |->
                     Edge(<<"pbi", g, "report", r>>, <<"semantic_model", d.dataset>>, <<"report", r>>)]
  <2>1. f \in Surjection(reports, ReportEdges(g, d, reports))
    BY DEF Surjection, ReportEdges
  <2>2. IsFiniteSet(reports)
    BY FS_Subset
  <2> QED BY <2>1, <2>2, FS_Surjection
<1>4. /\ SourceEdges(g, d) \subseteq Discoverable(g)
      /\ ReportEdges(g, d, reports) \subseteq Discoverable(g)
  BY TargetFacts DEF TargetOf
<1>5. /\ SetToSeq(SourceEdges(g, d)) \in Seq(Discoverable(g))
      /\ SetToSeq(ReportEdges(g, d, reports)) \in Seq(Discoverable(g))
      /\ ToSet(SetToSeq(SourceEdges(g, d))) = SourceEdges(g, d)
      /\ ToSet(SetToSeq(ReportEdges(g, d, reports))) = ReportEdges(g, d, reports)
  BY <1>2, <1>3, <1>4, SeqOfSet, SeqInto
<1> QED BY <1>5, ToSetConcat DEF PowerBIEdges, TargetOf

-----------------------------------------------------------------------------
(* What a discovery has still to do.                                       *)

IdsUnique(E) == \A x, y \in E : x.id = y.id => x = y

OwnEdges(E, g) == {e \in E : InNamespace(e.id, g)}

\* E are the edges, T those that the discovery of g is to leave, stale the ids
\* it has still to delete and desired the edges it has still to write.
Settling(E, T, g, stale, desired) ==
  /\ desired \subseteq T
  /\ T \subseteq E \cup desired
  /\ \A id \in stale : InNamespace(id, g) /\ \A t \in T : t.id # id
  /\ \A e \in OwnEdges(E, g) : e.discovered => e.id \in stale \/ \E t \in T : t.id = e.id

\* With nothing left to do, the edges of g are the target.
LEMMA Settled ==
  ASSUME NEW E, NEW T, NEW g, Settling(E, T, g, {}, {}), IdsUnique(E),
         T \subseteq Discoverable(g)
  PROVE  {e \in E : e.discovered /\ InNamespace(e.id, g)} = T
<1>1. \A t \in T : t \in E /\ t.discovered /\ InNamespace(t.id, g)
  BY DiscoverableFacts DEF Settling
<1>2. ASSUME NEW e \in E, e.discovered, InNamespace(e.id, g) PROVE e \in T
  BY <1>1, <1>2 DEF Settling, IdsUnique, OwnEdges
<1> QED BY <1>1, <1>2

\* It is a matter of the edges in the namespace of g only.
LEMMA SettlingOwn ==
  ASSUME NEW E, NEW F, NEW T, NEW g, NEW stale, NEW desired,
         Settling(E, T, g, stale, desired), OwnEdges(E, g) = OwnEdges(F, g),
         T \subseteq Discoverable(g)
  PROVE  Settling(F, T, g, stale, desired)
<1>1. \A t \in T : InNamespace(t.id, g)
  BY DiscoverableFacts
<1> QED BY <1>1 DEF Settling, OwnEdges

LEMMA SettlingUpsert ==
  ASSUME NEW E, NEW T, NEW g, NEW d, NEW desired, IdsUnique(T),
         Settling(E, T, g, {}, {d} \cup desired), NEW F, F = {e \in E : e.id # d.id} \cup {d}
  PROVE  Settling(F, T, g, {}, desired)
  BY DEF Settling, OwnEdges, IdsUnique

-----------------------------------------------------------------------------
(* The invariant.                                                          *)

\* What a worker holds between two steps.
Evidence == [checked_at : Nat, available : BOOLEAN, health : Health, reports : SUBSET Report]
Checking == [guard : Guard, definition : Definition, healths : SUBSET (Health \cup {Null}),
             unread : SUBSET Source]
Saving   == [guard : Guard, snapshot : Evidence, upstream : SUBSET Source]

ListingSound(l) ==
  /\ l.guard \in Guard /\ l.reports \in SUBSET Report
  /\ l.desired \in Seq(Discoverable(l.guard))

ReplacingSound(l) ==
  /\ ListingSound(l)
  /\ l.stale \in Seq(ToSet(l.stale))
  /\ \A id \in ToSet(l.stale) : InNamespace(id, l.guard)
  /\ l.stale = <<>> => l.desired # <<>>

LocalSound(w) ==
  /\ pc[w] = "upstream" => local[w] \in Checking
  /\ pc[w] \in {"save", "definition"} => local[w] \in Saving
  /\ pc[w] = "list" => ListingSound(local[w])
  /\ pc[w] = "replace" => ReplacingSound(local[w])

DTypes ==
  /\ definitions \in [Guard -> Definition]
  /\ observed \in [Source -> Health \cup {Null}]
  /\ pc \in [Worker -> {"idle", "upstream", "save", "definition", "list", "replace"}]
  /\ local = [w \in Worker |-> local[w]]
  /\ clock \in Nat
  /\ wasHealthy \in [Worker -> SUBSET Source]
  /\ disturbed \in [Worker -> BOOLEAN]
  /\ IsFiniteSet(edges)
  /\ \A w \in Worker : LocalSound(w)

\* The sources are read while the monitor writes: Healthy is what every source
\* read so far was at some time.
TrustSound(w) ==
  /\ pc[w] = "upstream" =>
       /\ \A s \in Source : observed[s] = "Healthy" => s \in wasHealthy[w]
       /\ local[w].healths \subseteq {"Healthy"} =>
            local[w].definition.upstream \ local[w].unread \subseteq wasHealthy[w]
  /\ pc[w] = "save" /\ local[w].snapshot.health = "Healthy" =>
       local[w].upstream \subseteq wasHealthy[w]

DiscoverySound(w) ==
  /\ pc[w] = "list" /\ ~disturbed[w] => ToSet(local[w].desired) = Target(w)
  /\ pc[w] = "replace" /\ ~disturbed[w] =>
       Settling(edges, Target(w), local[w].guard, ToSet(local[w].stale), ToSet(local[w].desired))

DInv ==
  /\ DTypes
  /\ IdsUnique(edges)
  /\ \A w \in Worker : TrustSound(w) /\ DiscoverySound(w)

-----------------------------------------------------------------------------
(* Frames.                                                                 *)

Moves(w) == \A v \in Worker \ {w} : pc'[v] = pc[v] /\ local'[v] = local[v]

LEMMA TrustFrame ==
  ASSUME DInv, NEW v \in Worker, pc'[v] = pc[v], local'[v] = local[v],
         pc[v] \in {"upstream", "save"} => wasHealthy[v] \subseteq wasHealthy'[v],
         pc[v] = "upstream" =>
           \A s \in Source : observed'[s] = "Healthy" => observed[s] = "Healthy" \/ s \in wasHealthy'[v]
  PROVE  TrustSound(v)'
<1>1. TrustSound(v)
  BY DEF DInv
<1> QED BY <1>1 DEF TrustSound

\* A discovery does not notice what happens outside its namespace.
LEMMA DiscoveryFrame ==
  ASSUME DInv, NEW v \in Worker, pc'[v] = pc[v], local'[v] = local[v],
         Discovering(v) /\ ~disturbed'[v] =>
           /\ ~disturbed[v]
           /\ definitions'[local[v].guard] = definitions[local[v].guard]
           /\ OwnEdges(edges', local[v].guard) = OwnEdges(edges, local[v].guard)
  PROVE  DiscoverySound(v)'
<1>1. DiscoverySound(v) /\ LocalSound(v)
  BY DEF DInv, DTypes
<1>2. Discovering(v) /\ ~disturbed'[v] => Target(v)' = Target(v)
  BY DEF Target
<1>3. pc[v] = "list" /\ ~disturbed'[v] => ToSet(local'[v].desired) = Target(v)'
  BY <1>1, <1>2 DEF DiscoverySound, Discovering
<1>4. ASSUME pc[v] = "replace", ~disturbed'[v]
      PROVE  Settling(edges', Target(v)', local[v].guard, ToSet(local[v].stale), ToSet(local[v].desired))
  <2>1. /\ Settling(edges, Target(v), local[v].guard, ToSet(local[v].stale), ToSet(local[v].desired))
        /\ Target(v)' = Target(v) /\ OwnEdges(edges', local[v].guard) = OwnEdges(edges, local[v].guard)
    BY <1>1, <1>2, <1>4 DEF DiscoverySound, Discovering
  <2>2. Target(v) \subseteq Discoverable(local[v].guard)
    BY <1>1, <1>4, TargetFacts DEF LocalSound, ReplacingSound, ListingSound, Target, DInv, DTypes
  <2> QED BY <2>1, <2>2, SettlingOwn
<1> QED BY <1>3, <1>4 DEF DiscoverySound

LEMMA LocalFrame ==
  ASSUME DInv, NEW v \in Worker, pc'[v] = pc[v], local'[v] = local[v] PROVE LocalSound(v)'
<1>1. LocalSound(v)
  BY DEF DInv, DTypes
<1> QED BY <1>1 DEF LocalSound

LEMMA TrustTypes ==
  \A refresh, healths : /\ Trust(refresh, healths) \in Health
                        /\ Trust(refresh, healths) = "Healthy" => healths \subseteq {"Healthy"}
  BY DEF Trust, Health

LEMMA EdgesWritten ==
  ASSUME DInv, NEW e
  PROVE  /\ IsFiniteSet(Upserted(e)) /\ IdsUnique(Upserted(e))
         /\ \A g : OwnEdges(Upserted(e), g) = OwnEdges(edges, g) \/ InNamespace(e.id, g)
<1>1. IsFiniteSet({x \in edges : x.id # e.id})
  BY FS_Subset DEF DInv, DTypes
<1>2. IsFiniteSet(Upserted(e))
  BY <1>1, FS_AddElement DEF Upserted
<1>3. IdsUnique(Upserted(e))
  BY DEF DInv, IdsUnique, Upserted
<1>4. ASSUME NEW g, ~InNamespace(e.id, g) PROVE OwnEdges(Upserted(e), g) = OwnEdges(edges, g)
  BY <1>4 DEF OwnEdges, Upserted
<1> QED BY <1>2, <1>3, <1>4

LEMMA EdgesDeleted ==
  ASSUME DInv, NEW id
  PROVE  /\ IsFiniteSet(Deleted(id)) /\ IdsUnique(Deleted(id))
         /\ \A g : OwnEdges(Deleted(id), g) = OwnEdges(edges, g) \/ InNamespace(id, g)
<1>1. IsFiniteSet(Deleted(id))
  BY FS_Subset DEF DInv, DTypes, Deleted
<1>2. IdsUnique(Deleted(id))
  BY DEF DInv, IdsUnique, Deleted
<1>3. ASSUME NEW g, ~InNamespace(id, g) PROVE OwnEdges(Deleted(id), g) = OwnEdges(edges, g)
  BY <1>3 DEF OwnEdges, Deleted
<1> QED BY <1>1, <1>2, <1>3

-----------------------------------------------------------------------------
(* The steps.                                                              *)

\* What every step of a worker w shows of the others.
LEMMA OthersSound ==
  ASSUME DInv, NEW w, Moves(w), NEW v \in Worker \ {w},
         wasHealthy[v] \subseteq wasHealthy'[v], observed' = observed,
         Discovering(v) /\ ~disturbed'[v] =>
           /\ ~disturbed[v]
           /\ definitions'[local[v].guard] = definitions[local[v].guard]
           /\ OwnEdges(edges', local[v].guard) = OwnEdges(edges, local[v].guard)
  PROVE  LocalSound(v)' /\ TrustSound(v)' /\ DiscoverySound(v)'
<1>1. pc'[v] = pc[v] /\ local'[v] = local[v]
  BY DEF Moves
<1>2. pc[v] = "upstream" => \A s \in Source : observed[s] = "Healthy" => s \in wasHealthy[v]
  BY DEF DInv, TrustSound
<1> QED BY <1>1, <1>2, LocalFrame, TrustFrame, DiscoveryFrame

Locations == {"idle", "upstream", "save", "definition", "list", "replace"}

\* A step of w that leaves the history of the others alone.
StepOf(w) ==
  /\ Moves(w)
  /\ pc' \in [Worker -> Locations] /\ local' = [v \in Worker |-> local'[v]] /\ clock' \in Nat
  /\ wasHealthy' \in [Worker -> SUBSET Source]
  /\ \A v \in Worker \ {w} : wasHealthy'[v] = wasHealthy[v]
  /\ disturbed' \in [Worker -> BOOLEAN]

\* A step of w which writes no edge and no definition.
LEMMA QuietStep ==
  ASSUME DInv, NEW w \in Worker, StepOf(w), UNCHANGED <<worldVars, edges>>,
         \A v \in Worker \ {w} : disturbed'[v] = disturbed[v],
         LocalSound(w)', TrustSound(w)', DiscoverySound(w)'
  PROVE  DInv'
<1>1. definitions' = definitions /\ edges' = edges /\ observed' = observed
  BY DEF worldVars
<1>2. \A v \in Worker \ {w} : LocalSound(v)' /\ TrustSound(v)' /\ DiscoverySound(v)'
  BY <1>1, OthersSound DEF StepOf
<1>3. IdsUnique(edges')
  BY <1>1 DEF DInv
<1>4. DTypes'
  BY <1>1, <1>2 DEF DInv, DTypes, StepOf, Locations
<1> QED BY <1>2, <1>3, <1>4 DEF DInv

LEMMA StartCheckStep ==
  ASSUME DInv, NEW w \in Worker, NEW g \in Guard, StartCheck(w, g) PROVE DInv'
<1>1. PICK l : l = [guard |-> g, definition |-> definitions[g], healths |-> {},
                    unread |-> definitions[g].upstream]
  OBVIOUS
<1>2. /\ pc' = [pc EXCEPT ![w] = "upstream"] /\ local' = [local EXCEPT ![w] = l]
      /\ wasHealthy' = [wasHealthy EXCEPT ![w] = {s \in Source : observed[s] = "Healthy"}]
      /\ disturbed' = disturbed /\ clock' = clock
      /\ UNCHANGED <<worldVars, edges>> /\ observed' = observed
  BY <1>1 DEF StartCheck, Goto, worldVars
<1>3. /\ StepOf(w) /\ pc'[w] = "upstream" /\ local'[w] = l
      /\ wasHealthy'[w] = {s \in Source : observed[s] = "Healthy"}
  BY <1>2 DEF DInv, DTypes, StepOf, Moves, Locations
<1>4. l \in Checking /\ l.definition.upstream = l.unread
  BY <1>1 DEF Checking, Definition, DInv, DTypes
<1>5. LocalSound(w)' /\ TrustSound(w)' /\ DiscoverySound(w)'
  BY <1>2, <1>3, <1>4 DEF LocalSound, TrustSound, DiscoverySound
<1> QED BY <1>2, <1>3, <1>5, QuietStep

LEMMA ReadUpstreamStep ==
  ASSUME DInv, NEW w \in Worker, ReadUpstream(w) PROVE DInv'
<1>1. PICK s \in local[w].unread :
        local' = [local EXCEPT ![w].healths = @ \cup {observed[s]}, ![w].unread = @ \ {s}]
  BY DEF ReadUpstream
<1>2. pc[w] = "upstream" /\ local[w] \in Checking /\ s \in Source
  BY DEF ReadUpstream, DInv, DTypes, LocalSound, Checking
<1>3. PICK l : l = [local[w] EXCEPT !.healths = @ \cup {observed[s]}, !.unread = @ \ {s}]
  OBVIOUS
<1>4. local' = [local EXCEPT ![w] = l] /\ local'[w] = l
  BY <1>1, <1>3 DEF DInv, DTypes
<1>5. /\ StepOf(w) /\ pc' = pc /\ wasHealthy' = wasHealthy /\ disturbed' = disturbed
      /\ UNCHANGED <<worldVars, edges>> /\ observed' = observed
  BY <1>4 DEF ReadUpstream, DInv, DTypes, worldVars, StepOf, Moves, Locations
<1>6. /\ l \in Checking /\ l.definition = local[w].definition
      /\ l.healths = local[w].healths \cup {observed[s]} /\ l.unread = local[w].unread \ {s}
  BY <1>2, <1>3 DEF Checking, DInv, DTypes
<1>7. TrustSound(w)
  BY DEF DInv
<1>8. l.healths \subseteq {"Healthy"} => l.definition.upstream \ l.unread \subseteq wasHealthy[w]
  BY <1>2, <1>6, <1>7 DEF TrustSound
<1>9. LocalSound(w)' /\ TrustSound(w)' /\ DiscoverySound(w)'
  BY <1>2, <1>4, <1>5, <1>6, <1>7, <1>8 DEF LocalSound, TrustSound, DiscoverySound
<1> QED BY <1>2, <1>4, <1>5, <1>9, QuietStep

LEMMA ReadPowerBIStep ==
  ASSUME DInv, NEW w \in Worker, ReadPowerBI(w) PROVE DInv'
<1>1. /\ pc[w] = "upstream" /\ local[w] \in Checking /\ local[w].unread = {} /\ TrustSound(w)
      /\ clock' = clock + 1
  BY DEF ReadPowerBI, DInv, DTypes, LocalSound
<1>2. PICK available \in BOOLEAN, health \in Health, reports \in SUBSET Report :
        /\ health = "Healthy" => local[w].healths \subseteq {"Healthy"}
        /\ local' = [local EXCEPT ![w] =
             [guard |-> local[w].guard,
              snapshot |-> [checked_at |-> clock + 1, available |-> available, health |-> health,
                            reports |-> reports],
              upstream |-> local[w].definition.upstream]]
  <2>1. local[w].definition.dataset \in Dataset
    BY <1>1 DEF Checking, Definition
  <2>2. \A R \in SUBSET ReportsOf[local[w].definition.dataset] : R \in SUBSET Report
    BY <2>1
  <2>3. "Warning" \in Health /\ {} \in SUBSET Report
    BY DEF Health
  <2>4. CASE \E refresh \in Refresh, reports \in SUBSET ReportsOf[local[w].definition.dataset] :
               local' = [local EXCEPT ![w] =
                 [guard |-> local[w].guard,
                  snapshot |-> [checked_at |-> clock + 1, available |-> TRUE,
                                health |-> Trust(refresh, local[w].healths), reports |-> reports],
                  upstream |-> local[w].definition.upstream]]
    <3>1. PICK refresh \in Refresh, reports \in SUBSET ReportsOf[local[w].definition.dataset] :
               local' = [local EXCEPT ![w] =
                 [guard |-> local[w].guard,
                  snapshot |-> [checked_at |-> clock + 1, available |-> TRUE,
                                health |-> Trust(refresh, local[w].healths), reports |-> reports],
                  upstream |-> local[w].definition.upstream]]
      BY <2>4
    <3>2. /\ reports \in SUBSET Report /\ TRUE \in BOOLEAN
          /\ Trust(refresh, local[w].healths) \in Health
          /\ Trust(refresh, local[w].healths) = "Healthy" => local[w].healths \subseteq {"Healthy"}
      BY <2>2, TrustTypes
    <3> QED BY <3>1, <3>2, Zenon
  <2>5. CASE local' = [local EXCEPT ![w] =
                 [guard |-> local[w].guard,
                  snapshot |-> [checked_at |-> clock + 1, available |-> FALSE,
                                health |-> "Warning", reports |-> {}],
                  upstream |-> local[w].definition.upstream]]
    <3>1. "Warning" # "Healthy" /\ FALSE \in BOOLEAN
      OBVIOUS
    <3> QED BY <2>3, <2>5, <3>1, Zenon
  <2> QED BY <2>4, <2>5 DEF ReadPowerBI
<1>3. PICK l : l = [guard |-> local[w].guard,
                    snapshot |-> [checked_at |-> clock + 1, available |-> available,
                                  health |-> health, reports |-> reports],
                    upstream |-> local[w].definition.upstream]
  OBVIOUS
<1>4. l \in Saving /\ l.snapshot.health = health /\ l.upstream = local[w].definition.upstream
  BY <1>1, <1>3 DEF Saving, Evidence, Checking, Definition, DInv, DTypes
<1>0. local' = [local EXCEPT ![w] = l]
  BY <1>2, <1>3, Zenon
<1>5. /\ pc' = [pc EXCEPT ![w] = "save"] /\ local' = [local EXCEPT ![w] = l]
      /\ wasHealthy' = wasHealthy /\ disturbed' = disturbed /\ UNCHANGED <<worldVars, edges>>
  BY <1>0 DEF ReadPowerBI, Goto
<1>8. clock' \in Nat
  BY <1>1 DEF DInv, DTypes
<1>7. StepOf(w) /\ pc'[w] = "save" /\ local'[w] = l
  BY <1>5, <1>8 DEF DInv, DTypes, StepOf, Moves, Locations
<1>6. LocalSound(w)' /\ TrustSound(w)' /\ DiscoverySound(w)'
  BY <1>1, <1>2, <1>4, <1>5, <1>7 DEF LocalSound, TrustSound, DiscoverySound
<1> QED BY <1>5, <1>6, <1>7, QuietStep

LEMMA SaveSnapshotStep ==
  ASSUME DInv, NEW w \in Worker, SaveSnapshot(w) PROVE DInv'
<1>1. pc[w] = "save" /\ local[w] \in Saving
  BY DEF SaveSnapshot, DInv, DTypes, LocalSound
<1>2. /\ wasHealthy' = [wasHealthy EXCEPT ![w] = {}] /\ disturbed' = disturbed
      /\ UNCHANGED <<worldVars, edges>> /\ clock' = clock
      /\ \/ pc' = [pc EXCEPT ![w] = "definition"] /\ local' = local
         \/ pc' = [pc EXCEPT ![w] = "idle"] /\ local' = [local EXCEPT ![w] = Idle]
  BY DEF SaveSnapshot, Goto
<1>3. /\ StepOf(w) /\ pc'[w] \in {"definition", "idle"}
      /\ pc'[w] = "definition" => local'[w] = local[w]
  BY <1>2 DEF DInv, DTypes, StepOf, Moves, Locations
<1>4. LocalSound(w)' /\ TrustSound(w)' /\ DiscoverySound(w)'
  BY <1>1, <1>3 DEF LocalSound, TrustSound, DiscoverySound
<1> QED BY <1>2, <1>3, <1>4, QuietStep

LEMMA ReadDefinitionStep ==
  ASSUME DInv, NEW w \in Worker, ReadDefinition(w) PROVE DInv'
<1> DEFINE g == local[w].guard
           reports == local[w].snapshot.reports
<1>1. /\ pc[w] = "definition" /\ g \in Guard /\ reports \in SUBSET Report
      /\ definitions[g] \in Definition
  BY DEF ReadDefinition, DInv, DTypes, LocalSound, Saving, Evidence
<1>2. PICK l : l = [guard |-> g, reports |-> reports,
                    desired |-> PowerBIEdges(g, definitions[g], reports)]
  OBVIOUS
<1>3. /\ pc' = [pc EXCEPT ![w] = "list"] /\ local' = [local EXCEPT ![w] = l]
      /\ disturbed' = [disturbed EXCEPT ![w] = FALSE] /\ wasHealthy' = wasHealthy
      /\ clock' = clock /\ UNCHANGED <<worldVars, edges>>
  BY <1>2 DEF ReadDefinition, Goto
<1>4. /\ StepOf(w) /\ pc'[w] = "list" /\ local'[w] = l /\ definitions' = definitions
      /\ \A v \in Worker \ {w} : disturbed'[v] = disturbed[v]
  BY <1>3 DEF DInv, DTypes, StepOf, Moves, Locations, worldVars
<1>5. /\ l.guard = g /\ l.reports = reports /\ l.desired \in Seq(Discoverable(g))
      /\ ToSet(l.desired) = TargetOf(g, definitions[g], reports)
  BY <1>1, <1>2, DesiredIsTarget
<1>6. LocalSound(w)'
  BY <1>1, <1>4, <1>5 DEF LocalSound, ListingSound
<1>7. DiscoverySound(w)' /\ TrustSound(w)'
  BY <1>1, <1>4, <1>5 DEF DiscoverySound, Target, TrustSound
<1> QED BY <1>3, <1>4, <1>6, <1>7, QuietStep

\* What is left of a replacement: the worker goes on with it, or is done.
LEMMA RemainingSound ==
  ASSUME DInv, NEW w \in Worker, NEW stale, NEW desired, Remaining(w, stale, desired),
         ListingSound(local[w]),
         stale \in Seq(ToSet(stale)), \A id \in ToSet(stale) : InNamespace(id, local[w].guard),
         desired \in Seq(Discoverable(local[w].guard)),
         definitions' = definitions, disturbed'[w] = disturbed[w],
         ~disturbed[w] => Settling(edges', Target(w), local[w].guard, ToSet(stale), ToSet(desired))
  PROVE  /\ Moves(w) /\ pc' \in [Worker -> Locations] /\ local' = [v \in Worker |-> local'[v]]
         /\ LocalSound(w)' /\ TrustSound(w)' /\ DiscoverySound(w)'
         /\ pc'[w] = "idle" => stale = <<>> /\ desired = <<>>
<1>1. CASE stale = <<>> /\ desired = <<>>
  <2>1. pc' = [pc EXCEPT ![w] = "idle"] /\ local' = [local EXCEPT ![w] = Idle]
    BY <1>1 DEF Remaining, Goto
  <2>2. pc'[w] = "idle"
    BY <2>1 DEF DInv, DTypes
  <2> QED BY <1>1, <2>1, <2>2
        DEF DInv, DTypes, Moves, Locations, LocalSound, TrustSound, DiscoverySound
<1>2. CASE ~(stale = <<>> /\ desired = <<>>)
  <2>1. PICK l : l = [guard |-> local[w].guard, reports |-> local[w].reports,
                      stale |-> stale, desired |-> desired]
    OBVIOUS
  <2>2. pc' = [pc EXCEPT ![w] = "replace"] /\ local' = [local EXCEPT ![w] = l]
    BY <1>2, <2>1 DEF Remaining, Goto
  <2>3. pc'[w] = "replace" /\ local'[w] = l
    BY <2>2 DEF DInv, DTypes
  <2>4. l.guard = local[w].guard /\ l.reports = local[w].reports /\ l.stale = stale /\ l.desired = desired
    BY <2>1
  <2>5. LocalSound(w)'
    BY <1>2, <2>3, <2>4 DEF LocalSound, ReplacingSound, ListingSound
  <2>6. Target(w)' = Target(w)
    BY <2>3, <2>4 DEF Target
  <2>7. TrustSound(w)' /\ DiscoverySound(w)'
    BY <2>3, <2>4, <2>6 DEF TrustSound, DiscoverySound
  <2>8. Moves(w) /\ pc' \in [Worker -> Locations] /\ local' = [v \in Worker |-> local'[v]]
    BY <2>2 DEF DInv, DTypes, Moves, Locations
  <2> QED BY <2>3, <2>5, <2>7, <2>8
<1> QED BY <1>1, <1>2

\* What a discovering worker holds, and the target it has while undisturbed.
LEMMA HeldTarget ==
  ASSUME DInv, NEW w \in Worker, Discovering(w)
  PROVE  /\ ListingSound(local[w]) /\ IdsUnique(Target(w))
         /\ Target(w) \subseteq Discoverable(local[w].guard)
<1>1. ListingSound(local[w])
  BY DEF Discovering, DInv, DTypes, LocalSound, ReplacingSound
<1> QED BY <1>1, TargetFacts DEF ListingSound, Target, IdsUnique, DInv, DTypes

\* What listing the edges settles.
LEMMA ListEdgesSettles ==
  ASSUME DInv, NEW w \in Worker, ListEdges(w), NEW stale, stale = SetToSeq(Stale(w))
  PROVE  /\ stale \in Seq(ToSet(stale)) /\ \A id \in ToSet(stale) : InNamespace(id, local[w].guard)
         /\ ~disturbed[w] =>
              Settling(edges, Target(w), local[w].guard, ToSet(stale), ToSet(local[w].desired))
<1> DEFINE own == {x \in edges : x.discovered /\ InNamespace(x.id, local[w].guard)}
<1>1. Stale(w) = {e.id : e \in own} \ {d.id : d \in ToSet(local[w].desired)}
  BY DEF Stale
<1>2. IsFiniteSet(Stale(w))
  <2> DEFINE f == [e \in own |-> e.id]
  <2>1. IsFiniteSet(own)
    BY FS_Subset DEF DInv, DTypes
  <2>2. f \in Surjection(own, {e.id : e \in own})
    BY DEF Surjection
  <2>3. IsFiniteSet({e.id : e \in own})
    BY <2>1, <2>2, FS_Surjection
  <2> QED BY <1>1, <2>3, FS_Subset
<1>3. stale \in Seq(ToSet(stale)) /\ ToSet(stale) = Stale(w)
  BY <1>2, SeqOfSet
<1>4. \A id \in Stale(w) : InNamespace(id, local[w].guard)
  BY <1>1
<1>5. ASSUME ~disturbed[w]
      PROVE  Settling(edges, Target(w), local[w].guard, Stale(w), ToSet(local[w].desired))
  <2>1. ToSet(local[w].desired) = Target(w)
    BY <1>5 DEF ListEdges, DInv, DiscoverySound
  <2>2. \A id \in Stale(w) : \A t \in Target(w) : t.id # id
    BY <1>1, <2>1
  <2>3. ASSUME NEW e \in OwnEdges(edges, local[w].guard), e.discovered
        PROVE  e.id \in Stale(w) \/ \E t \in Target(w) : t.id = e.id
    BY <1>1, <2>1, <2>3 DEF OwnEdges
  <2> QED BY <1>4, <2>1, <2>2, <2>3 DEF Settling
<1> QED BY <1>3, <1>4, <1>5

LEMMA ListEdgesStep ==
  ASSUME DInv, NEW w \in Worker, ListEdges(w) PROVE DInv'
<1>1. PICK stale : stale = SetToSeq(Stale(w))
  OBVIOUS
<1>2. /\ Discovering(w) /\ Remaining(w, stale, local[w].desired) /\ edges' = edges
      /\ definitions' = definitions /\ disturbed' = disturbed /\ wasHealthy' = wasHealthy
      /\ clock' = clock /\ UNCHANGED <<worldVars, edges>>
  BY <1>1 DEF ListEdges, Discovering, worldVars
<1>3. ListingSound(local[w])
  BY <1>2, HeldTarget
<1>4. /\ stale \in Seq(ToSet(stale)) /\ \A id \in ToSet(stale) : InNamespace(id, local[w].guard)
      /\ ~disturbed[w] =>
           Settling(edges', Target(w), local[w].guard, ToSet(stale), ToSet(local[w].desired))
  BY <1>1, <1>2, ListEdgesSettles
<1>5. /\ Moves(w) /\ pc' \in [Worker -> Locations] /\ local' = [v \in Worker |-> local'[v]]
      /\ LocalSound(w)' /\ TrustSound(w)' /\ DiscoverySound(w)'
  BY <1>2, <1>3, <1>4, RemainingSound DEF ListingSound
<1>6. StepOf(w)
  BY <1>2, <1>5 DEF StepOf, DInv, DTypes
<1> QED BY <1>2, <1>5, <1>6, QuietStep

\* A step of w which writes one edge in the namespace of its guard: it disturbs
\* the discoveries of the same guard, and the others do not notice.
LEMMA WriteStep ==
  ASSUME DInv, NEW w \in Worker, StepOf(w), Disturbs(w), UNCHANGED worldVars, wasHealthy' = wasHealthy,
         NEW id, InNamespace(id, local[w].guard), IsFiniteSet(edges'), IdsUnique(edges'),
         \A g : OwnEdges(edges', g) = OwnEdges(edges, g) \/ InNamespace(id, g),
         LocalSound(w)', TrustSound(w)', DiscoverySound(w)'
  PROVE  DInv'
<1>1. definitions' = definitions /\ observed' = observed
  BY DEF worldVars
<1>2. ASSUME NEW v \in Worker \ {w}, Discovering(v) /\ ~disturbed'[v]
      PROVE  ~disturbed[v] /\ OwnEdges(edges', local[v].guard) = OwnEdges(edges, local[v].guard)
  <2>1. ~disturbed[v] /\ local[v].guard # local[w].guard
    BY <1>2 DEF Disturbs
  <2>2. ~InNamespace(id, local[v].guard)
    BY <2>1, NamespacesDisjoint
  <2> QED BY <2>1, <2>2
<1>3. ASSUME NEW v \in Worker \ {w} PROVE LocalSound(v)' /\ TrustSound(v)' /\ DiscoverySound(v)'
  BY <1>1, <1>2, OthersSound DEF StepOf
<1>4. DTypes'
  BY <1>1, <1>3 DEF DInv, DTypes, StepOf, Locations
<1> QED BY <1>3, <1>4 DEF DInv

LEMMA DeleteStaleSettles ==
  ASSUME DInv, NEW w \in Worker, DeleteStale(w)
  PROVE  /\ InNamespace(Head(local[w].stale), local[w].guard) /\ ListingSound(local[w])
         /\ Tail(local[w].stale) \in Seq(ToSet(Tail(local[w].stale)))
         /\ \A id \in ToSet(Tail(local[w].stale)) : InNamespace(id, local[w].guard)
         /\ ~disturbed[w] => Settling(edges', Target(w), local[w].guard,
                                      ToSet(Tail(local[w].stale)), ToSet(local[w].desired))
<1> DEFINE stale == local[w].stale
<1>1. pc[w] = "replace" /\ stale # <<>> /\ edges' = Deleted(Head(stale)) /\ ReplacingSound(local[w])
  BY DEF DeleteStale, DInv, DTypes, LocalSound
<1>2. /\ ToSet(stale) = {Head(stale)} \cup ToSet(Tail(stale))
      /\ Tail(stale) \in Seq(ToSet(stale)) /\ Head(stale) \in ToSet(stale)
  BY <1>1, ToSetHeadTail DEF ReplacingSound
<1>3. Tail(stale) \in Seq(ToSet(Tail(stale)))
  BY <1>2, SeqOnto
<1>4. ASSUME ~disturbed[w]
      PROVE  Settling(edges', Target(w), local[w].guard, ToSet(Tail(stale)), ToSet(local[w].desired))
  <2>1. Settling(edges, Target(w), local[w].guard, {Head(stale)} \cup ToSet(Tail(stale)),
                 ToSet(local[w].desired))
    BY <1>1, <1>2, <1>4 DEF DInv, DiscoverySound
  <2>2. \A e : e \in edges' <=> e \in edges /\ e.id # Head(stale)
    BY <1>1 DEF Deleted
  <2> HIDE DEF stale
  <2> QED BY <2>1, <2>2 DEF Settling, OwnEdges
<1> QED BY <1>1, <1>2, <1>3, <1>4 DEF ReplacingSound

LEMMA DeleteStaleStep ==
  ASSUME DInv, NEW w \in Worker, DeleteStale(w)
  PROVE  /\ DInv'
         /\ pc'[w] = "idle" => Tail(local[w].stale) = <<>> /\ local[w].desired = <<>>
<1> DEFINE id == Head(local[w].stale)
<1>1. /\ edges' = Deleted(id) /\ Remaining(w, Tail(local[w].stale), local[w].desired)
      /\ Disturbs(w) /\ UNCHANGED worldVars /\ wasHealthy' = wasHealthy /\ clock' = clock
      /\ definitions' = definitions
  BY DEF DeleteStale, worldVars
<1>2. disturbed'[w] = disturbed[w] /\ disturbed' \in [Worker -> BOOLEAN]
  BY <1>1 DEF Disturbs, DInv, DTypes
<1>3. /\ InNamespace(id, local[w].guard) /\ ListingSound(local[w])
      /\ local[w].desired \in Seq(Discoverable(local[w].guard))
  BY DeleteStaleSettles DEF ListingSound
<1>4. /\ Moves(w) /\ pc' \in [Worker -> Locations] /\ local' = [v \in Worker |-> local'[v]]
      /\ LocalSound(w)' /\ TrustSound(w)' /\ DiscoverySound(w)'
      /\ pc'[w] = "idle" => Tail(local[w].stale) = <<>> /\ local[w].desired = <<>>
  BY <1>1, <1>2, <1>3, DeleteStaleSettles, RemainingSound
<1>5. StepOf(w)
  BY <1>1, <1>2, <1>4 DEF StepOf, DInv, DTypes
<1>6. /\ IsFiniteSet(edges') /\ IdsUnique(edges')
      /\ \A g : OwnEdges(edges', g) = OwnEdges(edges, g) \/ InNamespace(id, g)
  BY <1>1, EdgesDeleted
<1>7. DInv'
  BY <1>1, <1>3, <1>4, <1>5, <1>6, WriteStep
<1> QED BY <1>4, <1>7

LEMMA UpsertDesiredSettles ==
  ASSUME DInv, NEW w \in Worker, UpsertDesired(w)
  PROVE  /\ InNamespace(Head(local[w].desired).id, local[w].guard) /\ ListingSound(local[w])
         /\ Tail(local[w].desired) \in Seq(Discoverable(local[w].guard))
         /\ ~disturbed[w] => Settling(edges', Target(w), local[w].guard,
                                      {}, ToSet(Tail(local[w].desired)))
<1> DEFINE desired == local[w].desired
<1>1. /\ pc[w] = "replace" /\ local[w].stale = <<>> /\ edges' = Upserted(Head(desired))
      /\ Discovering(w) /\ ListingSound(local[w]) /\ desired # <<>>
  BY DEF UpsertDesired, Discovering, DInv, DTypes, LocalSound, ReplacingSound
<1>2. /\ ToSet(desired) = {Head(desired)} \cup ToSet(Tail(desired))
      /\ Tail(desired) \in Seq(Discoverable(local[w].guard))
      /\ Head(desired) \in Discoverable(local[w].guard)
  BY <1>1, ToSetHeadTail DEF ListingSound
<1>3. InNamespace(Head(desired).id, local[w].guard)
  BY <1>2, DiscoverableFacts
<1>4. ASSUME ~disturbed[w]
      PROVE  Settling(edges', Target(w), local[w].guard, {}, ToSet(Tail(desired)))
  <2>1. Settling(edges, Target(w), local[w].guard, {}, {Head(desired)} \cup ToSet(Tail(desired)))
    BY <1>1, <1>2, <1>4, ToSetEmpty DEF DInv, DiscoverySound
  <2>2. IdsUnique(Target(w))
    BY <1>1, HeldTarget
  <2> QED BY <1>1, <2>1, <2>2, SettlingUpsert DEF Upserted
<1> QED BY <1>1, <1>2, <1>3, <1>4

LEMMA UpsertDesiredStep ==
  ASSUME DInv, NEW w \in Worker, UpsertDesired(w)
  PROVE  /\ DInv' /\ local[w].stale = <<>>
         /\ pc'[w] = "idle" => Tail(local[w].desired) = <<>>
<1> DEFINE e == Head(local[w].desired)
<1>1. /\ edges' = Upserted(e) /\ Remaining(w, <<>>, Tail(local[w].desired))
      /\ Disturbs(w) /\ UNCHANGED worldVars /\ wasHealthy' = wasHealthy /\ clock' = clock
      /\ definitions' = definitions /\ local[w].stale = <<>>
  BY DEF UpsertDesired, worldVars
<1>2. disturbed'[w] = disturbed[w] /\ disturbed' \in [Worker -> BOOLEAN]
  BY <1>1 DEF Disturbs, DInv, DTypes
<1>3. /\ InNamespace(e.id, local[w].guard) /\ ListingSound(local[w])
      /\ Tail(local[w].desired) \in Seq(Discoverable(local[w].guard))
      /\ <<>> \in Seq(ToSet(<<>>)) /\ ToSet(<<>>) = {}
  BY UpsertDesiredSettles, ToSetEmpty, EmptySeq
<1>4. /\ Moves(w) /\ pc' \in [Worker -> Locations] /\ local' = [v \in Worker |-> local'[v]]
      /\ LocalSound(w)' /\ TrustSound(w)' /\ DiscoverySound(w)'
      /\ pc'[w] = "idle" => Tail(local[w].desired) = <<>>
  <2>1. PICK stale, desired : stale = <<>> /\ desired = Tail(local[w].desired)
    OBVIOUS
  <2>2. /\ Remaining(w, stale, desired) /\ stale \in Seq(ToSet(stale)) /\ ToSet(stale) = {}
        /\ desired \in Seq(Discoverable(local[w].guard))
        /\ ~disturbed[w] =>
             Settling(edges', Target(w), local[w].guard, ToSet(stale), ToSet(desired))
    BY <1>1, <1>3, <2>1, UpsertDesiredSettles
  <2>3. \A id \in ToSet(stale) : InNamespace(id, local[w].guard)
    BY <2>2
  <2>4. definitions' = definitions /\ disturbed'[w] = disturbed[w] /\ ListingSound(local[w])
    BY <1>1, <1>2, <1>3
  <2>5. /\ Moves(w) /\ pc' \in [Worker -> Locations] /\ local' = [v \in Worker |-> local'[v]]
        /\ LocalSound(w)' /\ TrustSound(w)' /\ DiscoverySound(w)'
        /\ pc'[w] = "idle" => stale = <<>> /\ desired = <<>>
    BY <2>2, <2>3, <2>4, RemainingSound
  <2> QED BY <2>1, <2>5
<1>5. StepOf(w)
  BY <1>1, <1>2, <1>4 DEF StepOf, DInv, DTypes
<1>6. /\ IsFiniteSet(edges') /\ IdsUnique(edges')
      /\ \A g : OwnEdges(edges', g) = OwnEdges(edges, g) \/ InNamespace(e.id, g)
  BY <1>1, EdgesWritten
<1>7. DInv'
  BY <1>1, <1>3, <1>4, <1>5, <1>6, WriteStep
<1> QED BY <1>1, <1>4, <1>7

LEMMA FailStep ==
  ASSUME DInv, NEW w \in Worker, Fail(w) PROVE DInv'
<1>1. /\ pc' = [pc EXCEPT ![w] = "idle"] /\ local' = [local EXCEPT ![w] = Idle]
      /\ wasHealthy' = [wasHealthy EXCEPT ![w] = {}]
      /\ disturbed' = [disturbed EXCEPT ![w] = FALSE]
      /\ clock' = clock /\ UNCHANGED <<worldVars, edges>>
  BY DEF Fail, Goto
<1>2. StepOf(w) /\ pc'[w] = "idle" /\ \A v \in Worker \ {w} : disturbed'[v] = disturbed[v]
  BY <1>1 DEF DInv, DTypes, StepOf, Moves, Locations
<1>3. LocalSound(w)' /\ TrustSound(w)' /\ DiscoverySound(w)'
  BY <1>2 DEF LocalSound, TrustSound, DiscoverySound
<1> QED BY <1>1, <1>2, <1>3, QuietStep

\* A user's write: each discovery whose guard it touches is disturbed.
LEMMA UserStep ==
  ASSUME DInv, definitions' \in [Guard -> Definition], IsFiniteSet(edges'), IdsUnique(edges'),
         UNCHANGED <<observed, pc, local, clock, wasHealthy>>,
         disturbed' \in [Worker -> BOOLEAN],
         \A w \in Worker : Discovering(w) /\ ~disturbed'[w] =>
           /\ ~disturbed[w]
           /\ definitions'[local[w].guard] = definitions[local[w].guard]
           /\ OwnEdges(edges', local[w].guard) = OwnEdges(edges, local[w].guard)
  PROVE  DInv'
<1>1. \A w \in Worker : LocalSound(w)' /\ DiscoverySound(w)'
  BY LocalFrame, DiscoveryFrame
<1>2. \A w \in Worker : TrustSound(w)'
  BY TrustFrame
<1>3. DTypes'
  BY <1>1 DEF DInv, DTypes
<1> QED BY <1>1, <1>2, <1>3 DEF DInv

LEMMA UpsertGuardStep ==
  ASSUME DInv, NEW g \in Guard, NEW d \in Definition, UpsertGuard(g, d) PROVE DInv'
<1>1. /\ definitions' = [definitions EXCEPT ![g] = d] /\ edges' = edges
      /\ disturbed' = [w \in Worker |-> disturbed[w] \/ (Discovering(w) /\ local[w].guard = g)]
      /\ UNCHANGED <<observed, pc, local, clock, wasHealthy>>
  BY DEF UpsertGuard, UserWrites
<1>2. disturbed' \in [Worker -> BOOLEAN] /\ definitions' \in [Guard -> Definition]
  BY <1>1 DEF DInv, DTypes, Discovering
<1>3. ASSUME NEW w \in Worker, Discovering(w), ~disturbed'[w]
      PROVE  ~disturbed[w] /\ definitions'[local[w].guard] = definitions[local[w].guard]
  <2>1. ~disturbed[w] /\ local[w].guard # g
    BY <1>1, <1>3
  <2>2. local[w].guard \in Guard
    BY <1>3, HeldTarget DEF ListingSound
  <2> QED BY <1>1, <2>1, <2>2 DEF DInv, DTypes
<1>4. IsFiniteSet(edges') /\ IdsUnique(edges')
  BY <1>1 DEF DInv, DTypes
<1> QED BY <1>1, <1>2, <1>3, <1>4, UserStep

LEMMA PutEdgeStep ==
  ASSUME DInv, NEW e, PutEdge(e) PROVE DInv'
<1>1. /\ definitions' = definitions /\ edges' = Upserted(e)
      /\ disturbed' = [w \in Worker |->
                         disturbed[w] \/ (Discovering(w) /\ InNamespace(e.id, local[w].guard))]
      /\ UNCHANGED <<observed, pc, local, clock, wasHealthy>>
  BY DEF PutEdge, UserWrites
<1>2. disturbed' \in [Worker -> BOOLEAN] /\ definitions' \in [Guard -> Definition]
  BY <1>1 DEF DInv, DTypes, Discovering
<1>3. /\ IsFiniteSet(edges') /\ IdsUnique(edges')
      /\ \A g : OwnEdges(edges', g) = OwnEdges(edges, g) \/ InNamespace(e.id, g)
  BY <1>1, EdgesWritten
<1> QED BY <1>1, <1>2, <1>3, UserStep

LEMMA DeleteEdgeStep ==
  ASSUME DInv, NEW e, DeleteEdge(e) PROVE DInv'
<1>1. /\ definitions' = definitions /\ edges' = Deleted(e.id)
      /\ disturbed' = [w \in Worker |->
                         disturbed[w] \/ (Discovering(w) /\ InNamespace(e.id, local[w].guard))]
      /\ UNCHANGED <<observed, pc, local, clock, wasHealthy>>
  BY DEF DeleteEdge, UserWrites
<1>2. disturbed' \in [Worker -> BOOLEAN] /\ definitions' \in [Guard -> Definition]
  BY <1>1 DEF DInv, DTypes, Discovering
<1>3. /\ IsFiniteSet(edges') /\ IdsUnique(edges')
      /\ \A g : OwnEdges(edges', g) = OwnEdges(edges, g) \/ InNamespace(e.id, g)
  BY <1>1, EdgesDeleted
<1> QED BY <1>1, <1>2, <1>3, UserStep

LEMMA ObserveStep ==
  ASSUME DInv, NEW s \in Source, NEW health \in Health, Observe(s, health) PROVE DInv'
<1>1. /\ observed' = [observed EXCEPT ![s] = health]
      /\ wasHealthy' = [w \in Worker |->
           IF pc[w] \in {"upstream", "save"} /\ health = "Healthy"
           THEN wasHealthy[w] \cup {s} ELSE wasHealthy[w]]
      /\ UNCHANGED <<definitions, edges, pc, local, clock, disturbed>>
  BY DEF Observe
<1>2. /\ observed' \in [Source -> Health \cup {Null}]
      /\ wasHealthy' \in [Worker -> SUBSET Source]
      /\ \A w \in Worker : wasHealthy[w] \subseteq wasHealthy'[w]
  BY <1>1 DEF DInv, DTypes
<1>3. ASSUME NEW w \in Worker, pc[w] = "upstream", NEW t \in Source, observed'[t] = "Healthy"
      PROVE  observed[t] = "Healthy" \/ t \in wasHealthy'[w]
  BY <1>1, <1>3 DEF DInv, DTypes
<1>4. \A w \in Worker : LocalSound(w)' /\ DiscoverySound(w)'
  BY <1>1, LocalFrame, DiscoveryFrame
<1>5. \A w \in Worker : TrustSound(w)'
  BY <1>1, <1>2, <1>3, TrustFrame
<1>6. DTypes'
  BY <1>1, <1>2, <1>4 DEF DInv, DTypes
<1> QED BY <1>1, <1>4, <1>5, <1>6 DEF DInv

-----------------------------------------------------------------------------
(* The theorems.                                                           *)

LEMMA DInductiveInit == Init => DInv
<1> SUFFICES ASSUME Init PROVE DInv
  OBVIOUS
<1>1. IsFiniteSet(edges) /\ IdsUnique(edges)
  BY FS_EmptySet DEF Init, IdsUnique
<1>2. \A w \in Worker : pc[w] = "idle"
  BY DEF Init
<1>3. \A w \in Worker : LocalSound(w) /\ TrustSound(w) /\ DiscoverySound(w)
  BY <1>2 DEF LocalSound, TrustSound, DiscoverySound
<1>4. DTypes
  BY <1>1, <1>3 DEF Init, DTypes, Definition, Health
<1> QED BY <1>1, <1>3, <1>4 DEF DInv

LEMMA DInductiveStep == DInv /\ [Next]_vars => DInv'
<1> SUFFICES ASSUME DInv, [Next]_vars PROVE DInv'
  OBVIOUS
<1>1. CASE UNCHANGED vars
  BY <1>1, UserStep DEF vars, DInv, DTypes
<1>2. ASSUME NEW w \in Worker, NEW g \in Guard, StartCheck(w, g) PROVE DInv'
  BY <1>2, StartCheckStep
<1>3. ASSUME NEW w \in Worker,
             \/ ReadUpstream(w) \/ ReadPowerBI(w) \/ SaveSnapshot(w) \/ ReadDefinition(w)
             \/ ListEdges(w) \/ DeleteStale(w) \/ UpsertDesired(w) \/ Fail(w)
      PROVE  DInv'
  BY <1>3, ReadUpstreamStep, ReadPowerBIStep, SaveSnapshotStep, ReadDefinitionStep,
     ListEdgesStep, DeleteStaleStep, UpsertDesiredStep, FailStep
<1>4. ASSUME NEW g \in Guard, NEW d \in Definition, UpsertGuard(g, d) PROVE DInv'
  BY <1>4, UpsertGuardStep
<1>5. ASSUME NEW e, PutEdge(e) \/ DeleteEdge(e) PROVE DInv'
  BY <1>5, PutEdgeStep, DeleteEdgeStep
<1>6. ASSUME NEW s \in Source, NEW health \in Health, Observe(s, health) PROVE DInv'
  BY <1>6, ObserveStep
<1> QED BY <1>1, <1>2, <1>3, <1>4, <1>5, <1>6 DEF Next

\* What an undisturbed discovery has still to do always leads from the edges
\* there are to the edges of the definition, and what a check has read so far
\* was true at some time since it began (dependency_service.py:20-39,
\* power_bi_service.py:30-60).
THEOREM DiscoveryInvariant == Spec => []DInv
  BY DInductiveInit, DInductiveStep, PTL DEF Spec

\* Healthy means every source of the definition was Healthy at some time since
\* the check began, however many checks and observations interleave
\* (power_bi_service.py:45-48, power_bi.py:140-215).
THEOREM TrustIsJustified == Spec => []HealthyIsJustified
<1>1. DInv => HealthyIsJustified
  BY DEF DInv, TrustSound, HealthyIsJustified
<1> QED BY <1>1, DiscoveryInvariant, PTL

\* The last step of a discovery that nobody disturbed leaves exactly the edges
\* of the definition and of the snapshot (dependency_service.py:20-39).
LEMMA LastStepCompletes ==
  ASSUME DInv, [Next]_vars, NEW w \in Worker, Discovering(w), pc'[w] = "idle",
         ~disturbed[w], ~Fail(w)
  PROVE  {e \in edges' : e.discovered /\ InNamespace(e.id, local[w].guard)} = Target(w)
<1>1. IdsUnique(Target(w)) /\ Target(w) \subseteq Discoverable(local[w].guard)
  BY HeldTarget
<1>2. DInv' /\ IdsUnique(edges')
  BY DInductiveStep DEF DInv
<1>3. pc[w] \in {"list", "replace"} /\ pc'[w] # pc[w]
  BY DEF Discovering
<1>4. ASSUME NEW v \in Worker, v # w, Moves(v) PROVE FALSE
  BY <1>3, <1>4 DEF Moves
<1>5. ListEdges(w) \/ DeleteStale(w) \/ UpsertDesired(w)
  <2>1. CASE UNCHANGED vars
    BY <1>3, <2>1 DEF vars
  <2>2. ASSUME NEW v \in Worker,
               \/ \E g \in Guard : StartCheck(v, g)
               \/ ReadUpstream(v) \/ ReadPowerBI(v) \/ SaveSnapshot(v)
               \/ ReadDefinition(v) \/ ListEdges(v) \/ DeleteStale(v) \/ UpsertDesired(v)
               \/ Fail(v)
        PROVE  ListEdges(w) \/ DeleteStale(w) \/ UpsertDesired(w)
    <3>1. ASSUME v # w PROVE pc'[w] = pc[w]
      BY <2>2, <3>1 DEF StartCheck, ReadUpstream, ReadPowerBI, SaveSnapshot, ReadDefinition,
        ListEdges, DeleteStale, UpsertDesired, Remaining, Fail, Goto, DInv, DTypes
    <3>2. v = w
      BY <1>3, <3>1
    <3> QED BY <1>3, <2>2, <3>2
          DEF StartCheck, ReadUpstream, ReadPowerBI, SaveSnapshot, ReadDefinition
  <2>3. ASSUME \/ \E g \in Guard, d \in Definition : UpsertGuard(g, d)
               \/ \E e \in UserEdges : PutEdge(e)
               \/ \E e \in edges : DeleteEdge(e)
               \/ \E s \in Source, health \in Health : Observe(s, health)
        PROVE  pc' = pc
    BY <2>3 DEF UpsertGuard, PutEdge, DeleteEdge, UserWrites, Observe
  <2> QED BY <1>3, <2>1, <2>2, <2>3 DEF Next
<1>6. Settling(edges', Target(w), local[w].guard, {}, {})
  <2>1. CASE ListEdges(w)
    <3>1. PICK stale : stale = SetToSeq(Stale(w))
      OBVIOUS
    <3>2. edges' = edges /\ Remaining(w, stale, local[w].desired)
      BY <2>1, <3>1 DEF ListEdges
    <3>3. stale = <<>> /\ local[w].desired = <<>>
      BY <1>3, <3>2 DEF Remaining, Goto, DInv, DTypes
    <3> QED BY <2>1, <3>1, <3>2, <3>3, ListEdgesSettles, ToSetEmpty
  <2>2. CASE DeleteStale(w)
    BY <2>2, DeleteStaleStep, DeleteStaleSettles, ToSetEmpty
  <2>3. CASE UpsertDesired(w)
    BY <2>3, UpsertDesiredStep, UpsertDesiredSettles, ToSetEmpty
  <2> QED BY <1>5, <2>1, <2>2, <2>3
<1> QED BY <1>1, <1>2, <1>6, Settled

\* A discovery that ends undisturbed leaves exactly the edges of its definition
\* and snapshot, whatever died half way before it and whatever the other guards'
\* checks write meanwhile (dependency_service.py:20-39).
THEOREM DiscoveryCompletes == Spec => DiscoveryIsComplete
<1>1. DInv /\ [Next]_vars =>
        \A w \in Worker :
          Discovering(w) /\ pc'[w] = "idle" /\ ~disturbed[w] /\ ~Fail(w) =>
            {e \in edges' : e.discovered /\ InNamespace(e.id, local[w].guard)}
              = SourceEdges(local[w].guard, definitions[local[w].guard])
                  \cup ReportEdges(local[w].guard, definitions[local[w].guard], local[w].reports)
  BY LastStepCompletes DEF Target, TargetOf
<1> QED BY <1>1, DiscoveryInvariant, PTL DEF Spec, DiscoveryIsComplete

-----------------------------------------------------------------------------
(* Blast radius.                                                           *)

LEMMA LeastOf ==
  ASSUME NEW T \in SUBSET Nat, T # {} PROVE \E m \in T : \A n \in T : m <= n
<1>1. PICK R : R = {p \in Nat \X Nat : p[1] < p[2]}
  OBVIOUS
<1>2. IsWellFoundedOn(R, Nat)
  BY <1>1, NatLessThanWellFounded DEF OpToRel
<1>3. \E m \in T : \A n \in T : <<n, m>> \notin R
  BY <1>2, WFMin
<1>4. \A m, n \in Nat : <<n, m>> \in R <=> n < m
  BY <1>1
<1>5. \A m, n \in Nat : ~(n < m) => m <= n
  OBVIOUS
<1> QED BY <1>3, <1>4, <1>5

\* g is the first n turns of a loop.
Turns(g, n, start, step) ==
  /\ g[0] = start
  /\ \A i \in 1..n : g[i] = step[g[i - 1]]

LEMMA TurnsExist ==
  ASSUME NEW S, NEW start \in S, NEW step \in [S -> S], NEW n \in Nat
  PROVE  \E g \in [0..n -> S] : Turns(g, n, start, step)
<1> DEFINE bad == {m \in Nat : ~\E g \in [0..m -> S] : Turns(g, m, start, step)}
<1>1. SUFFICES ASSUME bad # {} PROVE FALSE
  OBVIOUS
<1>2. PICK m \in bad : \A k \in bad : m <= k
  <2> bad \in SUBSET Nat
    OBVIOUS
  <2> HIDE DEF bad
  <2> QED BY <1>1, LeastOf
<1>3. m \in Nat
  OBVIOUS
<1>4. CASE m = 0
  <2>1. [i \in 0..0 |-> start] \in [0..0 -> S] /\ Turns([i \in 0..0 |-> start], 0, start, step)
    BY DEF Turns
  <2> QED BY <1>4, <2>1
<1>5. CASE m # 0
  <2>1. m - 1 \in Nat /\ ~(m <= m - 1) /\ m - 1 \in 0..(m - 1)
    BY <1>3, <1>5
  <2>2. m - 1 \notin bad
    BY <1>2, <2>1
  <2>3. PICK g \in [0..(m - 1) -> S] : Turns(g, m - 1, start, step)
    BY <2>1, <2>2
  <2>4. PICK h : h = [i \in 0..m |-> IF i = m THEN step[g[m - 1]] ELSE g[i]]
    OBVIOUS
  <2>5. /\ \A i \in 0..(m - 1) : i \in 0..m /\ h[i] = g[i]
        /\ h[m] = step[g[m - 1]] /\ g[m - 1] \in S
    BY <1>3, <2>1, <2>4
  <2>6. h \in [0..m -> S]
    <3>1. ASSUME NEW i \in 0..m PROVE h[i] \in S
      <4>1. CASE i = m
        BY <2>5, <4>1
      <4>2. CASE i # m
        <5>1. i \in 0..(m - 1)
          BY <1>3, <4>2
        <5> QED BY <2>5, <5>1
      <4> QED BY <4>1, <4>2
    <3> QED BY <2>4, <3>1
  <2>7. ASSUME NEW i \in 1..m PROVE h[i] = step[h[i - 1]]
    <3>1. i - 1 \in 0..(m - 1)
      BY <1>3
    <3>2. CASE i = m
      BY <2>5, <3>1, <3>2
    <3>3. CASE i # m
      <4>1. i \in 1..(m - 1) /\ i \in 0..(m - 1)
        BY <1>3, <3>3
      <4> QED BY <2>3, <2>5, <3>1, <4>1 DEF Turns
    <3> QED BY <3>2, <3>3
  <2>8. h[0] = start
    BY <2>1, <2>3, <2>5 DEF Turns
  <2>9. Turns(h, m, start, step)
    BY <2>7, <2>8 DEF Turns
  <2> QED BY <2>6, <2>9
<1> QED BY <1>4, <1>5

LEMMA TurnsAgree ==
  ASSUME NEW start, NEW step, NEW m \in Nat, NEW n \in Nat, NEW g, NEW h,
         Turns(g, m, start, step), Turns(h, n, start, step), NEW i \in Nat, i <= m, i <= n
  PROVE  g[i] = h[i]
<1> DEFINE bad == {k \in Nat : k <= m /\ k <= n /\ g[k] # h[k]}
<1>1. SUFFICES ASSUME bad # {} PROVE FALSE
  OBVIOUS
<1>2. PICK k \in bad : \A j \in bad : k <= j
  <2> bad \in SUBSET Nat
    OBVIOUS
  <2> HIDE DEF bad
  <2> QED BY <1>1, LeastOf
<1>3. k # 0
  BY DEF Turns
<1>4. k - 1 \in Nat /\ ~(k <= k - 1) /\ k - 1 <= m /\ k - 1 <= n /\ k \in 1..m /\ k \in 1..n
  BY <1>3
<1>5. g[k - 1] = h[k - 1]
  BY <1>2, <1>4
<1> QED BY <1>4, <1>5 DEF Turns

\* A loop has a state after every number of turns.
Loop(f, start, step) == f = [n \in Nat |-> IF n = 0 THEN start ELSE step[f[n - 1]]]

LEMMA LoopExists ==
  ASSUME NEW S, NEW start \in S, NEW step \in [S -> S]
  PROVE  \E f \in [Nat -> S] : Loop(f, start, step)
<1> DEFINE G(n) == CHOOSE g \in [0..n -> S] : Turns(g, n, start, step)
<1>1. ASSUME NEW n \in Nat PROVE G(n) \in [0..n -> S] /\ Turns(G(n), n, start, step)
  BY TurnsExist
<1> HIDE DEF G
<1>2. PICK f : f = [n \in Nat |-> G(n)[n]]
  OBVIOUS
<1>3. ASSUME NEW n \in Nat PROVE f[n] = IF n = 0 THEN start ELSE step[f[n - 1]]
  <2>1. CASE n = 0
    BY <1>1, <1>2, <2>1 DEF Turns
  <2>2. CASE n # 0
    <3>1. n - 1 \in Nat /\ n - 1 <= n /\ n - 1 <= n - 1 /\ n \in 1..n
      BY <2>2
    <3>2. G(n)[n - 1] = G(n - 1)[n - 1]
      BY <1>1, <3>1, TurnsAgree
    <3>3. G(n)[n] = step[G(n)[n - 1]]
      BY <1>1, <3>1 DEF Turns
    <3> QED BY <1>2, <2>2, <3>1, <3>2, <3>3
  <2> QED BY <2>1, <2>2
<1>4. f \in [Nat -> S]
  <2>1. ASSUME NEW n \in Nat PROVE G(n)[n] \in S
    <3>1. G(n) \in [0..n -> S] /\ n \in 0..n
      BY <1>1
    <3> QED BY <3>1
  <2> QED BY <1>2, <2>1
<1>5. Loop(f, start, step)
  BY <1>2, <1>3 DEF Loop
<1> QED BY <1>4, <1>5

\* The states of the walk.
Walks(A) == [queue : Seq(A), visited : SUBSET A, found : Seq(A)]

LEMMA WalkIs ==
  ASSUME NEW E, NEW root, NEW A, Direct(E, root) \in Walks(A),
         \A walk \in Walks(A) : Visit(E, walk) \in Walks(A)
  PROVE  /\ Walk(E, root) \in [Nat -> Walks(A)]
         /\ Walk(E, root)[0] = Direct(E, root)
         /\ \A n \in Nat \ {0} : Walk(E, root)[n] = Visit(E, Walk(E, root)[n - 1])
<1>1. PICK S, start, step : /\ S = Walks(A) /\ start = Direct(E, root)
                            /\ step = [walk \in S |-> Visit(E, walk)]
  OBVIOUS
<1>2. start \in S /\ step \in [S -> S]
  BY <1>1
<1>3. PICK f \in [Nat -> S] : Loop(f, start, step)
  BY <1>2, LoopExists
<1>4. f = [n \in Nat |-> IF n = 0 THEN Direct(E, root) ELSE Visit(E, f[n - 1])]
  <2>0. f = [n \in Nat |-> IF n = 0 THEN start ELSE step[f[n - 1]]]
    BY <1>3 DEF Loop
  <2>1. ASSUME NEW n \in Nat, n # 0 PROVE step[f[n - 1]] = Visit(E, f[n - 1])
    <3>1. n - 1 \in Nat
      BY <2>1
    <3> QED BY <1>1, <1>3, <3>1
  <2> QED BY <1>1, <2>0, <2>1
<1>5. PICK w : w = Walk(E, root)
  OBVIOUS
<1>6. w = [n \in Nat |-> IF n = 0 THEN Direct(E, root) ELSE Visit(E, w[n - 1])]
  BY <1>4, <1>5 DEF Walk
<1>7. w[0] = Direct(E, root) /\ \A n \in Nat \ {0} : w[n] = Visit(E, w[n - 1])
  BY <1>6
<1>8. ASSUME NEW n \in Nat PROVE w[n] \in Walks(A)
  <2> DEFINE bad == {k \in Nat : w[k] \notin Walks(A)}
  <2>1. SUFFICES ASSUME bad # {} PROVE FALSE
    OBVIOUS
  <2>2. PICK k \in bad : \A j \in bad : k <= j
    <3> bad \in SUBSET Nat
      OBVIOUS
    <3> HIDE DEF bad
    <3> QED BY <2>1, LeastOf
  <2>3. k # 0
    BY <1>7
  <2>4. k - 1 \in Nat /\ ~(k <= k - 1)
    BY <2>3
  <2>5. w[k - 1] \in Walks(A)
    BY <2>2, <2>4
  <2> QED BY <1>7, <2>3, <2>5
<1> QED BY <1>5, <1>6, <1>7, <1>8

\* The root and the assets found before the i-th.
Earlier(root, found, i) == {root} \cup {found[j] : j \in 1..(i - 1)}

Ordered(E, root, found) ==
  \A i \in DOMAIN found :
    /\ found[i] \notin Earlier(root, found, i)
    /\ \E e \in E : e.downstream = found[i] /\ e.upstream \in Earlier(root, found, i)

\* What is queued is below what was visited, and what is below that is queued
\* or visited.
WalkSound(E, root, walk) ==
  /\ walk.visited = {root} \cup ToSet(walk.found)
  /\ Ordered(E, root, walk.found)
  /\ \A a \in ToSet(walk.queue) : \E e \in E : e.downstream = a /\ e.upstream \in walk.visited
  /\ \A e \in E : e.upstream \in walk.visited => e.downstream \in walk.visited \cup ToSet(walk.queue)

\* At most so many turns are left.
TurnsLeft(E, walk) == Len(walk.queue) + Cardinality({e \in E : e.upstream \notin walk.visited})

LEMMA SetToSeqLength ==
  ASSUME NEW S, IsFiniteSet(S)
  PROVE  SetToSeq(S) \in Seq(S) /\ Len(SetToSeq(S)) = Cardinality(S)
<1> DEFINE n == Cardinality(S)
           f == SetToSeq(S)
<1>1. n \in Nat /\ ExistsBijection(1..n, S)
  BY FS_CardinalityType
<1>2. \E g \in [1..n -> S] : IsInjective(g)
  BY <1>1 DEF ExistsBijection, Bijection, Injection
<1>3. f \in [1..n -> S]
  BY <1>2 DEF SetToSeq
<1> HIDE DEF f, n
<1>4. f \in Seq(S) /\ Len(f) = n
  BY <1>1, <1>3
<1> QED BY <1>4 DEF f, n

\* What a turn queues.
Downstreams(D) == [i \in DOMAIN SetToSeq(D) |-> SetToSeq(D)[i].downstream]

LEMMA Queued ==
  ASSUME NEW D, IsFiniteSet(D), NEW A, \A e \in D : e.downstream \in A
  PROVE  /\ Downstreams(D) \in Seq(A) /\ Len(Downstreams(D)) = Cardinality(D)
         /\ ToSet(Downstreams(D)) = {e.downstream : e \in D}
<1>0. PICK below, q : below = SetToSeq(D) /\ q = [i \in DOMAIN below |-> below[i].downstream]
  OBVIOUS
<1>1. below \in Seq(D) /\ Len(below) = Cardinality(D) /\ ToSet(below) = D
  BY <1>0, SetToSeqLength, SeqOfSet
<1>2. Len(below) \in Nat /\ DOMAIN below = 1..Len(below) /\ \A i \in DOMAIN below : below[i] \in D
  BY <1>1
<1>3. q \in [1..Len(below) -> A] /\ \A i \in DOMAIN below : q[i] = below[i].downstream
  BY <1>0, <1>2
<1>4. q \in Seq(A) /\ Len(q) = Len(below)
  BY <1>2, <1>3
<1>5. ToSet(q) = {below[i].downstream : i \in DOMAIN below}
  BY <1>2, <1>3 DEF ToSet
<1>6. {below[i].downstream : i \in DOMAIN below} = {e.downstream : e \in D}
  BY <1>1, <1>2 DEF ToSet
<1>7. q = Downstreams(D)
  BY <1>0 DEF Downstreams
<1> QED BY <1>1, <1>4, <1>5, <1>6, <1>7

LEMMA TurnsLeftIs ==
  ASSUME NEW E, IsFiniteSet(E), NEW A, NEW walk \in Walks(A)
  PROVE  /\ Len(walk.queue) \in Nat
         /\ Cardinality({e \in E : e.upstream \notin walk.visited}) \in Nat
         /\ TurnsLeft(E, walk) \in Nat
<1>1. Len(walk.queue) \in Nat
  BY DEF Walks
<1>2. PICK D : D = {e \in E : e.upstream \notin walk.visited}
  OBVIOUS
<1>3. Cardinality(D) \in Nat
  <2>1. D \subseteq E
    BY <1>2
  <2> QED BY <2>1, FS_Subset, FS_CardinalityType
<1> QED BY <1>1, <1>2, <1>3 DEF TurnsLeft

LEMMA DirectSound ==
  ASSUME NEW E, IsFiniteSet(E), NEW root, NEW A, A = Assets(E) \cup {root}
  PROVE  /\ Direct(E, root) \in Walks(A) /\ WalkSound(E, root, Direct(E, root))
         /\ TurnsLeft(E, Direct(E, root)) <= Cardinality(E)
<1>1. PICK walk : walk = Direct(E, root)
  OBVIOUS
<1>2. PICK D, S : D = Below(E, root) /\ S = {e.downstream : e \in D}
  OBVIOUS
<1>3. D \subseteq E /\ IsFiniteSet(D) /\ Cardinality(D) \in Nat /\ \A e \in D : e.upstream = root
  BY <1>2, FS_Subset, FS_CardinalityType DEF Below
<1>4. S \subseteq A /\ IsFiniteSet(S) /\ Cardinality(S) \in Nat /\ Cardinality(S) <= Cardinality(D)
  <2>1. PICK f : f = [e \in D |-> e.downstream]
    OBVIOUS
  <2>2. f \in Surjection(D, S)
    BY <1>2, <2>1 DEF Surjection
  <2>3. IsFiniteSet(S) /\ Cardinality(S) <= Cardinality(D)
    BY <1>3, <2>2, FS_Surjection
  <2>4. S \subseteq A
    BY <1>2, <1>3 DEF Assets
  <2> QED BY <2>3, <2>4, FS_CardinalityType
<1>5. /\ walk.queue = SetToSeq(S) /\ walk.visited = {root} /\ walk.found = <<>>
      /\ walk = [queue |-> SetToSeq(S), visited |-> {root}, found |-> <<>>]
  BY <1>1, <1>2 DEF Direct
<1>6. SetToSeq(S) \in Seq(S) /\ Len(SetToSeq(S)) = Cardinality(S) /\ ToSet(SetToSeq(S)) = S
  BY <1>4, SetToSeqLength, SeqOfSet
<1>7. walk \in Walks(A)
  <2>1. SetToSeq(S) \in Seq(A)
    BY <1>4, <1>6, SeqInto
  <2>2. <<>> \in Seq(A) /\ {root} \in SUBSET A
    OBVIOUS
  <2> QED BY <1>5, <2>1, <2>2 DEF Walks
<1>8. WalkSound(E, root, walk)
  <2>1. walk.visited = {root} \cup ToSet(walk.found) /\ Ordered(E, root, walk.found)
    BY <1>5, ToSetEmpty DEF Ordered
  <2>2. \A a \in ToSet(walk.queue) : \E e \in E : e.downstream = a /\ e.upstream \in walk.visited
    BY <1>2, <1>3, <1>5, <1>6
  <2>3. \A e \in E : e.upstream \in walk.visited => e.downstream \in ToSet(walk.queue)
    BY <1>2, <1>5, <1>6 DEF Below
  <2> QED BY <2>1, <2>2, <2>3 DEF WalkSound
<1>9. TurnsLeft(E, walk) <= Cardinality(E)
  <2>1. PICK rest : rest = {e \in E : e.upstream \notin walk.visited}
    OBVIOUS
  <2>2. rest = E \ D
    BY <1>2, <1>5, <2>1 DEF Below
  <2>3. Cardinality(E \ D) = Cardinality(E) - Cardinality(D)
    <3>1. E \cap D = D
      BY <1>3
    <3> QED BY <3>1, FS_Difference
  <2>4. TurnsLeft(E, walk) = Cardinality(S) + (Cardinality(E) - Cardinality(D))
    BY <1>5, <1>6, <2>1, <2>2, <2>3 DEF TurnsLeft
  <2>5. Cardinality(E) \in Nat
    BY FS_CardinalityType
  <2> QED BY <1>3, <1>4, <2>4, <2>5
<1> QED BY <1>1, <1>7, <1>8, <1>9

\* A turn that skips an asset visited before.
Skips(walk, next) ==
  /\ Head(walk.queue) \in walk.visited
  /\ next.queue = Tail(walk.queue) /\ next.visited = walk.visited /\ next.found = walk.found

\* A turn that visits an asset and queues what is below it.
Visits(E, walk, next) ==
  \E q : LET a    == Head(walk.queue)
             seen == walk.visited \cup {a}
             D    == {e \in Below(E, a) : e.downstream \notin seen}
         IN  /\ a \notin walk.visited
             /\ Len(q) = Cardinality(D) /\ ToSet(q) = {e.downstream : e \in D}
             /\ q \in Seq({e.downstream : e \in E})
             /\ next.queue = Tail(walk.queue) \o q /\ next.visited = seen
             /\ next.found = Append(walk.found, a)

LEMMA VisitIs ==
  ASSUME NEW E, IsFiniteSet(E), NEW root, NEW A, A = Assets(E) \cup {root},
         NEW walk \in Walks(A)
  PROVE  /\ Visit(E, walk) \in Walks(A)
         /\ walk.queue # <<>> => Skips(walk, Visit(E, walk)) \/ Visits(E, walk, Visit(E, walk))
         /\ walk.queue = <<>> => Visit(E, walk) = walk
<1>1. PICK next : next = Visit(E, walk)
  OBVIOUS
<1>2. walk.queue \in Seq(A) /\ walk.found \in Seq(A) /\ walk.visited \in SUBSET A
  BY DEF Walks
<1>3. CASE walk.queue = <<>>
  <2>1. next = walk
    BY <1>1, <1>3 DEF Visit
  <2> QED BY <1>1, <1>3, <2>1
<1>4. ASSUME walk.queue # <<>>, Head(walk.queue) \in walk.visited
      PROVE  next \in Walks(A) /\ Skips(walk, next)
  <2>1. next = [walk EXCEPT !.queue = Tail(walk.queue)]
    BY <1>1, <1>4 DEF Visit
  <2>2. Tail(walk.queue) \in Seq(A)
    BY <1>2, <1>4, ToSetHeadTail
  <2>3. next \in Walks(A) /\ next.queue = Tail(walk.queue) /\ next.visited = walk.visited
        /\ next.found = walk.found
    BY <2>1, <2>2 DEF Walks
  <2> QED BY <1>4, <2>3 DEF Skips
<1>5. ASSUME walk.queue # <<>>, Head(walk.queue) \notin walk.visited
      PROVE  next \in Walks(A) /\ Visits(E, walk, next)
  <2>1. PICK a, seen : a = Head(walk.queue) /\ seen = walk.visited \cup {a}
    OBVIOUS
  <2>2. PICK D : D = {e \in Below(E, a) : e.downstream \notin seen}
    OBVIOUS
  <2>4. PICK q : q = Downstreams(D)
    OBVIOUS
  <2>5. next = [queue |-> Tail(walk.queue) \o q, visited |-> seen, found |-> Append(walk.found, a)]
    BY <1>1, <1>5, <2>1, <2>2, <2>4 DEF Visit, Downstreams
  <2>6. D \subseteq E /\ IsFiniteSet(D)
    <3>1. D \subseteq E
      BY <2>2 DEF Below
    <3> QED BY <3>1, FS_Subset
  <2>7. PICK B : B = {e.downstream : e \in E}
    OBVIOUS
  <2>8. q \in Seq(B) /\ Len(q) = Cardinality(D) /\ ToSet(q) = {e.downstream : e \in D}
    <3>1. \A e \in D : e.downstream \in B
      BY <2>6, <2>7
    <3> QED BY <2>4, <2>6, <3>1, Queued
  <2>9. a \in A /\ Tail(walk.queue) \in Seq(A) /\ q \in Seq(A)
    <3>1. B \subseteq A
      BY <2>7 DEF Assets
    <3>2. q \in Seq(A)
      BY <2>8, <3>1, SeqInto
    <3> QED BY <1>2, <1>5, <2>1, <3>2, ToSetHeadTail
  <2>10. next \in Walks(A)
    <3>1. Tail(walk.queue) \o q \in Seq(A) /\ Append(walk.found, a) \in Seq(A) /\ seen \in SUBSET A
      BY <1>2, <2>1, <2>9, ToSetConcat
    <3> QED BY <2>5, <3>1 DEF Walks
  <2>11. Visits(E, walk, next)
    <3>1. next.queue = Tail(walk.queue) \o q /\ next.visited = seen
          /\ next.found = Append(walk.found, a)
      BY <2>5
    <3> QED BY <1>5, <2>1, <2>2, <2>7, <2>8, <3>1 DEF Visits
  <2> QED BY <2>10, <2>11
<1> QED BY <1>1, <1>3, <1>4, <1>5

LEMMA SkipSound ==
  ASSUME NEW E, IsFiniteSet(E), NEW root, NEW A, NEW walk \in Walks(A), NEW next \in Walks(A),
         walk.queue # <<>>, Skips(walk, next), WalkSound(E, root, walk)
  PROVE  WalkSound(E, root, next) /\ TurnsLeft(E, next) = TurnsLeft(E, walk) - 1
<1>1. /\ walk.queue \in Seq(A) /\ Tail(walk.queue) \in Seq(A)
      /\ ToSet(walk.queue) = {Head(walk.queue)} \cup ToSet(Tail(walk.queue))
  BY ToSetHeadTail DEF Walks
<1>2. Len(Tail(walk.queue)) = Len(walk.queue) - 1
  BY <1>1, HeadTailProperties
<1>3. WalkSound(E, root, next)
  BY <1>1 DEF WalkSound, Skips
<1>4. TurnsLeft(E, next) = TurnsLeft(E, walk) - 1
  <2>1. PICK rest : rest = Cardinality({e \in E : e.upstream \notin walk.visited})
    OBVIOUS
  <2>2. /\ TurnsLeft(E, walk) = Len(walk.queue) + rest
        /\ TurnsLeft(E, next) = (Len(walk.queue) - 1) + rest
    BY <1>2, <2>1 DEF TurnsLeft, Skips
  <2>3. Len(walk.queue) \in Nat /\ rest \in Nat
    BY <2>1, TurnsLeftIs
  <2> QED BY <2>2, <2>3
<1> QED BY <1>3, <1>4

LEMMA VisitSound ==
  ASSUME NEW E, IsFiniteSet(E), NEW root, NEW A, A = Assets(E) \cup {root},
         NEW walk \in Walks(A), NEW next \in Walks(A),
         walk.queue # <<>>, Visits(E, walk, next), WalkSound(E, root, walk)
  PROVE  WalkSound(E, root, next) /\ TurnsLeft(E, next) <= TurnsLeft(E, walk) - 1
<1>1. PICK a, seen : a = Head(walk.queue) /\ seen = walk.visited \cup {a}
  OBVIOUS
<1>2. PICK out : out = Below(E, a)
  OBVIOUS
<1>3. PICK D : D = {e \in out : e.downstream \notin seen}
  OBVIOUS
<1>4. PICK q : /\ a \notin walk.visited
               /\ Len(q) = Cardinality(D) /\ ToSet(q) = {e.downstream : e \in D}
               /\ q \in Seq({e.downstream : e \in E})
               /\ next.queue = Tail(walk.queue) \o q /\ next.visited = seen
               /\ next.found = Append(walk.found, a)
  BY <1>1, <1>2, <1>3 DEF Visits
<1>5. /\ walk.queue \in Seq(A) /\ Tail(walk.queue) \in Seq(A) /\ walk.found \in Seq(A) /\ a \in A
      /\ ToSet(walk.queue) = {a} \cup ToSet(Tail(walk.queue))
      /\ Len(Tail(walk.queue)) = Len(walk.queue) - 1 /\ Len(walk.queue) \in Nat
  <2>1. walk.queue \in Seq(A) /\ walk.found \in Seq(A)
    BY DEF Walks
  <2>2. Len(Tail(walk.queue)) = Len(walk.queue) - 1
    BY <2>1, HeadTailProperties
  <2> QED BY <1>1, <2>1, <2>2, ToSetHeadTail
<1>6. q \in Seq(A)
  <2>1. PICK B : B = {e.downstream : e \in E}
    OBVIOUS
  <2>2. B \subseteq A /\ q \in Seq(B)
    BY <1>4, <2>1 DEF Assets
  <2> QED BY <2>2, SeqInto
<1>7. ToSet(next.queue) = ToSet(Tail(walk.queue)) \cup {e.downstream : e \in D}
  <2>1. PICK r : r = Tail(walk.queue)
    OBVIOUS
  <2>2. r \in Seq(A) /\ q \in Seq(A)
    BY <1>5, <1>6, <2>1
  <2>3. ToSet(r \o q) = ToSet(r) \cup ToSet(q)
    BY <2>2, ToSetConcat
  <2> QED BY <1>4, <2>1, <2>3
<1>8. PICK n : n = Len(walk.found)
  OBVIOUS
<1>9. /\ n \in Nat /\ DOMAIN walk.found = 1..n /\ Len(next.found) = n + 1
      /\ DOMAIN next.found = 1..(n + 1) /\ next.found[n + 1] = a
      /\ \A i \in 1..n : next.found[i] = walk.found[i]
  BY <1>4, <1>5, <1>8
<1>10. ToSet(next.found) = ToSet(walk.found) \cup {a}
  BY <1>9 DEF ToSet
<1>11. \E e \in E : e.downstream = a /\ e.upstream \in walk.visited
  BY <1>5 DEF WalkSound
<1>12. Ordered(E, root, next.found)
  <2>1. ASSUME NEW i \in 1..n PROVE Earlier(root, next.found, i) = Earlier(root, walk.found, i)
    <3>1. \A j \in 1..(i - 1) : next.found[j] = walk.found[j]
      BY <1>9
    <3> QED BY <3>1 DEF Earlier
  <2>2. Earlier(root, next.found, n + 1) = walk.visited
    <3>1. (n + 1) - 1 = n
      BY <1>9
    <3>2. Earlier(root, next.found, n + 1) = {root} \cup {walk.found[j] : j \in 1..n}
      BY <1>9, <3>1 DEF Earlier
    <3>3. ToSet(walk.found) = {walk.found[j] : j \in 1..n}
      BY <1>9 DEF ToSet
    <3> QED BY <3>2, <3>3 DEF WalkSound
  <2>3. ASSUME NEW i \in 1..(n + 1)
        PROVE  /\ next.found[i] \notin Earlier(root, next.found, i)
               /\ \E e \in E : e.downstream = next.found[i]
                               /\ e.upstream \in Earlier(root, next.found, i)
    <3>1. CASE i = n + 1
      BY <1>4, <1>9, <1>11, <2>2, <3>1
    <3>2. CASE i # n + 1
      <4>1. i \in 1..n /\ i \in DOMAIN walk.found
        BY <1>9, <3>2
      <4>2. Ordered(E, root, walk.found)
        BY DEF WalkSound
      <4> QED BY <1>9, <2>1, <4>1, <4>2 DEF Ordered
    <3> QED BY <3>1, <3>2
  <2> QED BY <1>9, <2>3 DEF Ordered
<1>13. WalkSound(E, root, next)
  <2>1. next.visited = {root} \cup ToSet(next.found)
    BY <1>1, <1>4, <1>10 DEF WalkSound
  <2>2. ASSUME NEW b \in ToSet(next.queue)
        PROVE  \E e \in E : e.downstream = b /\ e.upstream \in next.visited
    <3>1. CASE b \in ToSet(Tail(walk.queue))
      BY <1>1, <1>4, <1>5, <3>1 DEF WalkSound
    <3>2. CASE b \in {e.downstream : e \in D}
      <4>1. \A e \in D : e \in E /\ e.upstream = a
        BY <1>2, <1>3 DEF Below
      <4> QED BY <1>1, <1>4, <3>2, <4>1
    <3> QED BY <1>7, <3>1, <3>2
  <2>3. ASSUME NEW e \in E, e.upstream \in next.visited
        PROVE  e.downstream \in next.visited \cup ToSet(next.queue)
    <3>1. CASE e.upstream = a
      <4>1. e.downstream \in seen \/ e \in D
        BY <1>2, <1>3, <3>1 DEF Below
      <4> QED BY <1>4, <1>7, <4>1
    <3>2. CASE e.upstream # a
      <4>1. e.downstream \in walk.visited \cup ToSet(walk.queue)
        BY <1>1, <1>4, <2>3, <3>2 DEF WalkSound
      <4> QED BY <1>1, <1>4, <1>5, <1>7, <4>1
    <3> QED BY <3>1, <3>2
  <2> QED BY <1>12, <2>1, <2>2, <2>3 DEF WalkSound
<1>14. TurnsLeft(E, next) <= TurnsLeft(E, walk) - 1
  <2>1. PICK rest, after : /\ rest = {e \in E : e.upstream \notin walk.visited}
                           /\ after = {e \in E : e.upstream \notin next.visited}
    OBVIOUS
  <2>2. out \subseteq rest /\ D \subseteq out /\ rest \subseteq E
    BY <1>2, <1>3, <1>4, <2>1 DEF Below
  <2>3. after = rest \ out
    BY <1>1, <1>2, <1>4, <2>1 DEF Below
  <2>4. /\ IsFiniteSet(rest) /\ IsFiniteSet(out) /\ Cardinality(rest) \in Nat
        /\ Cardinality(out) \in Nat /\ Cardinality(D) \in Nat /\ Cardinality(D) <= Cardinality(out)
    BY <2>2, FS_Subset, FS_CardinalityType
  <2>5. Cardinality(after) = Cardinality(rest) - Cardinality(out)
    <3>1. rest \cap out = out
      BY <2>2
    <3> QED BY <2>3, <2>4, <3>1, FS_Difference
  <2>6. Len(next.queue) = (Len(walk.queue) - 1) + Cardinality(D)
    <3>1. Len(Tail(walk.queue) \o q) = Len(Tail(walk.queue)) + Len(q)
      BY <1>5, <1>6, ConcatProperties
    <3> QED BY <1>4, <1>5, <3>1
  <2>7. /\ TurnsLeft(E, walk) = Len(walk.queue) + Cardinality(rest)
        /\ TurnsLeft(E, next) = Len(next.queue) + Cardinality(after)
    BY <2>1 DEF TurnsLeft
  <2> QED BY <1>5, <2>4, <2>5, <2>6, <2>7
<1> QED BY <1>13, <1>14

LEMMA WalkEnds ==
  ASSUME NEW E, IsFiniteSet(E), NEW root
  PROVE  \E walk : /\ walk.found = BlastRadius(E, root) /\ walk.queue = <<>>
                   /\ WalkSound(E, root, walk)
                   /\ \E A : walk \in Walks(A)
<1>1. PICK A : A = Assets(E) \cup {root}
  OBVIOUS
<1>2. /\ Direct(E, root) \in Walks(A) /\ WalkSound(E, root, Direct(E, root))
      /\ TurnsLeft(E, Direct(E, root)) <= Cardinality(E)
  BY <1>1, DirectSound
<1>3. \A walk \in Walks(A) : Visit(E, walk) \in Walks(A)
  BY <1>1, VisitIs
<1>4. PICK after : after = Walk(E, root)
  OBVIOUS
<1>5. /\ after \in [Nat -> Walks(A)] /\ after[0] = Direct(E, root)
      /\ \A n \in Nat \ {0} : after[n] = Visit(E, after[n - 1])
  BY <1>2, <1>3, <1>4, WalkIs
<1>6. PICK most : most = Cardinality(E)
  OBVIOUS
<1>7. most \in Nat
  BY <1>6, FS_CardinalityType
<1> DEFINE Good(n) == /\ WalkSound(E, root, after[n])
                      /\ after[n].queue = <<>> \/ TurnsLeft(E, after[n]) + n <= most
<1>8. Good(0)
  <2>1. TurnsLeft(E, after[0]) \in Nat
    BY <1>5, TurnsLeftIs
  <2> QED BY <1>2, <1>5, <1>6, <1>7, <2>1
<1>9. ASSUME NEW n \in Nat, Good(n) PROVE Good(n + 1)
  <2>1. PICK walk \in Walks(A) : walk = after[n]
    BY <1>5
  <2>2. PICK next \in Walks(A) : next = after[n + 1]
    BY <1>5
  <2>3. next = Visit(E, walk)
    <3>1. n + 1 \in Nat \ {0} /\ (n + 1) - 1 = n
      OBVIOUS
    <3> QED BY <1>5, <2>1, <2>2, <3>1
  <2>4. TurnsLeft(E, walk) \in Nat /\ TurnsLeft(E, next) \in Nat
    BY TurnsLeftIs
  <2>5. WalkSound(E, root, walk)
    BY <1>9, <2>1
  <2>6. CASE walk.queue = <<>>
    <3>1. next = walk
      BY <1>1, <2>3, <2>6, VisitIs
    <3> QED BY <2>2, <2>5, <2>6, <3>1
  <2>7. CASE walk.queue # <<>>
    <3>1. Skips(walk, next) \/ Visits(E, walk, next)
      BY <1>1, <2>3, <2>7, VisitIs
    <3>2. WalkSound(E, root, next) /\ TurnsLeft(E, next) <= TurnsLeft(E, walk) - 1
      <4>1. CASE Skips(walk, next)
        BY <2>4, <2>5, <2>7, <4>1, SkipSound
      <4>2. CASE Visits(E, walk, next)
        BY <1>1, <2>5, <2>7, <4>2, VisitSound
      <4> QED BY <3>1, <4>1, <4>2
    <3>3. TurnsLeft(E, walk) + n <= most
      BY <1>9, <2>1, <2>7
    <3>4. TurnsLeft(E, next) + (n + 1) <= most
      BY <1>7, <2>4, <3>2, <3>3
    <3> QED BY <2>2, <3>2, <3>4
  <2> QED BY <2>6, <2>7
<1>10. ASSUME NEW n \in Nat PROVE Good(n)
  <2> DEFINE bad == {m \in Nat : ~Good(m)}
  <2>1. SUFFICES ASSUME bad # {} PROVE FALSE
    OBVIOUS
  <2>2. PICK m \in bad : \A k \in bad : m <= k
    <3> bad \in SUBSET Nat
      OBVIOUS
    <3> HIDE DEF bad
    <3> QED BY <2>1, LeastOf
  <2> HIDE DEF Good
  <2>3. m \in Nat /\ ~Good(m)
    OBVIOUS
  <2>4. m # 0
    BY <1>8, <2>3
  <2>5. PICK k \in Nat : k = m - 1
    BY <2>3, <2>4
  <2>6. m = k + 1 /\ ~(m <= k)
    BY <2>3, <2>5
  <2>7. Good(k)
    BY <2>2, <2>6
  <2> QED BY <1>9, <2>3, <2>6, <2>7
<1>11. PICK walk \in Walks(A) : walk = after[most]
  BY <1>5, <1>7
<1>12. WalkSound(E, root, walk) /\ (walk.queue = <<>> \/ TurnsLeft(E, walk) + most <= most)
  BY <1>7, <1>10, <1>11
<1>13. walk.queue = <<>>
  <2>1. SUFFICES ASSUME TurnsLeft(E, walk) + most <= most PROVE walk.queue = <<>>
    BY <1>12
  <2>2. /\ Len(walk.queue) \in Nat /\ TurnsLeft(E, walk) \in Nat
        /\ Cardinality({e \in E : e.upstream \notin walk.visited}) \in Nat
    BY TurnsLeftIs
  <2>3. Len(walk.queue) = 0
    BY <1>7, <2>1, <2>2 DEF TurnsLeft
  <2> QED BY <2>3, EmptySeq DEF Walks
<1>14. walk.found = BlastRadius(E, root)
  BY <1>4, <1>6, <1>11 DEF BlastRadius
<1> QED BY <1>12, <1>13, <1>14

LEMMA RadiusIs ==
  ASSUME DInv PROVE BlastRadiusIsReachability
<1>1. IsFiniteSet(edges)
  BY DEF DInv, DTypes
<1>2. SUFFICES ASSUME NEW root
               PROVE  LET found == BlastRadius(edges, root)
                          Before(i) == {root} \cup {found[j] : j \in 1..(i - 1)}
                      IN  /\ \A i \in DOMAIN found :
                               /\ found[i] \notin Before(i)
                               /\ \E e \in edges : e.downstream = found[i] /\ e.upstream \in Before(i)
                          /\ \A e \in edges :
                               e.upstream \in ToSet(found) \cup {root} =>
                                 e.downstream \in ToSet(found) \cup {root}
  BY DEF BlastRadiusIsReachability
<1>3. PICK found : found = BlastRadius(edges, root)
  OBVIOUS
<1>4. PICK walk : walk.found = found /\ walk.queue = <<>> /\ WalkSound(edges, root, walk)
  BY <1>1, <1>3, WalkEnds
<1>5. \A i \in DOMAIN found :
        /\ found[i] \notin Earlier(root, found, i)
        /\ \E e \in edges : e.downstream = found[i] /\ e.upstream \in Earlier(root, found, i)
  BY <1>4 DEF WalkSound, Ordered
<1>6. ASSUME NEW e \in edges, e.upstream \in ToSet(found) \cup {root}
      PROVE  e.downstream \in ToSet(found) \cup {root}
  <2>1. walk.visited = {root} \cup ToSet(found) /\ ToSet(walk.queue) = {}
    BY <1>4, ToSetEmpty DEF WalkSound
  <2> QED BY <1>4, <1>6, <2>1 DEF WalkSound
<1> QED BY <1>3, <1>5, <1>6 DEF Earlier

\* On every graph that discovery and users can make, of any size and with any
\* cycles, the walk ends, and the blast radius of an asset is every other asset
\* reachable from it, once (dependencies.py:64-86).
THEOREM RadiusIsReachability == Spec => []BlastRadiusIsReachability
<1>1. DInv => BlastRadiusIsReachability
  BY RadiusIs
<1> QED BY <1>1, DiscoveryInvariant, PTL
=============================================================================

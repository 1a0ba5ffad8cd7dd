----------------------------- MODULE Dependencies -----------------------------
(* The dependency graph of a workspace, and the Power BI guards whose checks   *)
(* discover a part of it.  A check reads the health of the guard's sources one *)
(* by one, asks Power BI, saves a snapshot, and then replaces the edges the    *)
(* guard discovered earlier: it lists the edges, deletes the stale ones and    *)
(* writes the new ones, each in a transaction of its own.  Checks overlap,     *)
(* die half way, and users edit guards and edges meanwhile.                    *)
EXTENDS FiniteSets, Naturals, SequencesExt

CONSTANTS
  Guard,           \* ids of guards, none of which contains ":"
  Source, Dataset, Report,
  ReportsOf,       \* the reports Power BI has for a dataset
  Worker,          \* requests that check a guard
  Configured,      \* the definitions of the guards at the start
  Monitored,       \* the health of the sources at the start
  UserEdges,       \* edges users may write
  Null,
  MaxChecks, MaxEdits, MaxObservations   \* bounds on what may happen

ASSUME DependenciesAssumption ==
  /\ IsFiniteSet(Source) /\ IsFiniteSet(Report)
  /\ ReportsOf \in [Dataset -> SUBSET Report]
  /\ \A e \in UserEdges : e.upstream # e.downstream
  /\ Configured \in [Guard -> [dataset : Dataset, upstream : SUBSET Source]]
  /\ Monitored \in [Source -> {"Healthy", "Warning", "Critical", Null}]
  /\ MaxChecks \in Nat /\ MaxEdits \in Nat /\ MaxObservations \in Nat

Health     == {"Healthy", "Warning", "Critical"}
\* What the latest refresh says: Failed is also cancelled or disabled, Unclear is
\* none, not finished, or a word the code does not know.
Refresh    == {"Completed", "Failed", "Unclear"}
Definition == [dataset : Dataset, upstream : SUBSET Source]

VARIABLES
  definitions,   \* the guard's definition
  snapshots,     \* the time and health of the guard's latest snapshot, or Null
  edges,         \* the rows of dependency_edges
  observed,      \* the health of the latest observation of a source, or Null
  pc, local,     \* of each worker: where it is, and what it holds
  clock,         \* the number of checks so far, the time they are made at
  edits, observations,
  wasHealthy,    \* history: sources Healthy at some time in the worker's check
  disturbed      \* history: others wrote what the worker's discovery is writing

worldVars == <<definitions, observed, edits, observations>>
vars == <<definitions, snapshots, edges, observed, pc, local, clock, edits,
          observations, wasHealthy, disturbed>>

Idle == [guard |-> Null]

Init ==
  /\ definitions = Configured
  /\ snapshots = [g \in Guard |-> Null]
  /\ edges = {}
  /\ observed = Monitored
  /\ pc = [w \in Worker |-> "idle"]
  /\ local = [w \in Worker |-> Idle]
  /\ clock = 0 /\ edits = 0 /\ observations = 0
  /\ wasHealthy = [w \in Worker |-> {}]
  /\ disturbed = [w \in Worker |-> FALSE]

-----------------------------------------------------------------------------
(* Edges *)

InNamespace(id, g) == IsPrefix(<<"pbi", g>>, id)

Edge(id, upstream, downstream) ==
  [id |-> id, upstream |-> upstream, downstream |-> downstream, discovered |-> TRUE]

\* The edges from the guard's sources to its model, then those from its model
\* to the reports in the snapshot.
SourceEdges(g, d) ==
  {Edge(<<"pbi", g, "source", s>>, <<"source", s>>, <<"semantic_model", d.dataset>>) :
     s \in d.upstream}

ReportEdges(g, d, reports) ==
  {Edge(<<"pbi", g, "report", r>>, <<"semantic_model", d.dataset>>, <<"report", r>>) :
     r \in reports}

PowerBIEdges(g, d, reports) ==
  SetToSeq(SourceEdges(g, d)) \o SetToSeq(ReportEdges(g, d, reports))

Upserted(e) == {x \in edges : x.id # e.id} \cup {e}

Deleted(id) == {x \in edges : x.id # id}

-----------------------------------------------------------------------------
(* Trust: correlate_power_bi_trust *)

\* Mutant: a source without an observation counts as Healthy.
TrustIgnoringMissing(refresh, healths) ==
  CASE refresh = "Failed" -> "Critical"
    [] refresh # "Completed" -> "Warning"
    [] "Critical" \in healths -> "Critical"
    [] "Warning" \in healths -> "Warning"
    [] OTHER -> "Healthy"

Trust(refresh, healths) ==
  CASE refresh = "Failed" -> "Critical"
    [] refresh # "Completed" -> "Warning"
    [] "Critical" \in healths -> "Critical"
    [] healths \subseteq {"Healthy"} -> "Healthy"
    [] OTHER -> "Warning"

-----------------------------------------------------------------------------
(* A check of a guard *)

Goto(w, label) == pc' = [pc EXCEPT ![w] = label]

StartCheck(w, g) ==
  /\ pc[w] = "idle" /\ clock < MaxChecks
  /\ Goto(w, "upstream")
  /\ local' = [local EXCEPT ![w] =
       [guard |-> g, definition |-> definitions[g], healths |-> {},
        unread |-> definitions[g].upstream]]
  /\ wasHealthy' = [wasHealthy EXCEPT ![w] = {s \in Source : observed[s] = "Healthy"}]
  /\ UNCHANGED <<worldVars, snapshots, edges, clock, disturbed>>

\* get_latest of the next source of the definition.
ReadUpstream(w) ==
  /\ pc[w] = "upstream"
  /\ \E s \in local[w].unread :
       local' = [local EXCEPT ![w].healths = @ \cup {observed[s]}, ![w].unread = @ \ {s}]
  /\ UNCHANGED <<worldVars, snapshots, edges, pc, clock, wasHealthy, disturbed>>

\* Without authorization, or without the model or its refreshes, the guard is
\* not available.  A failed request for the reports only leaves them out.
ReadPowerBI(w) ==
  LET l == local[w]
      Evidence(available, health, reports) ==
        [checked_at |-> clock + 1, available |-> available, health |-> health,
         reports |-> reports]
      Read(snapshot) ==
        local' = [local EXCEPT ![w] = [guard |-> l.guard, snapshot |-> snapshot,
                                       upstream |-> l.definition.upstream]]
  IN  /\ pc[w] = "upstream" /\ l.unread = {} /\ clock < MaxChecks
      /\ clock' = clock + 1
      /\ Goto(w, "save")
      /\ \/ Read(Evidence(FALSE, "Warning", {}))
         \/ \E refresh \in Refresh, reports \in SUBSET ReportsOf[l.definition.dataset] :
              Read(Evidence(TRUE, Trust(refresh, l.healths), reports))
      /\ UNCHANGED <<worldVars, snapshots, edges, wasHealthy, disturbed>>

\* Snapshots are kept by the time of their check; the latest is shown.
SaveSnapshot(w) ==
  LET l == local[w]
      latest == snapshots[l.guard]
  IN  /\ pc[w] = "save"
      /\ wasHealthy' = [wasHealthy EXCEPT ![w] = {}]
      /\ snapshots' = IF latest # Null /\ latest.checked_at > l.snapshot.checked_at
                      THEN snapshots
                      ELSE [snapshots EXCEPT ![l.guard] =
                             [checked_at |-> l.snapshot.checked_at, health |-> l.snapshot.health]]
      /\ IF l.snapshot.available
         THEN Goto(w, "definition") /\ UNCHANGED local
         ELSE Goto(w, "idle") /\ local' = [local EXCEPT ![w] = Idle]
      /\ UNCHANGED <<worldVars, edges, clock, disturbed>>

\* The definition is read again for the edges.
ReadDefinition(w) ==
  LET l == local[w]
  IN  /\ pc[w] = "definition"
      /\ Goto(w, "list")
      /\ local' = [local EXCEPT ![w] =
           [guard |-> l.guard, reports |-> l.snapshot.reports,
            desired |-> PowerBIEdges(l.guard, definitions[l.guard], l.snapshot.reports)]]
      /\ disturbed' = [disturbed EXCEPT ![w] = FALSE]
      /\ UNCHANGED <<worldVars, snapshots, edges, clock, wasHealthy>>

\* What is left of the replacement; with nothing left, the request is answered.
Remaining(w, stale, desired) ==
  IF stale = <<>> /\ desired = <<>>
  THEN Goto(w, "idle") /\ local' = [local EXCEPT ![w] = Idle]
  ELSE /\ Goto(w, "replace")
       /\ local' = [local EXCEPT ![w] =
            [guard |-> local[w].guard, reports |-> local[w].reports,
             stale |-> stale, desired |-> desired]]

\* Mutant: discovered edges are told apart by the flag alone.
StaleAnywhere(w) ==
  {e.id : e \in {x \in edges : x.discovered}} \ {d.id : d \in ToSet(local[w].desired)}

Stale(w) ==
  {e.id : e \in {x \in edges : x.discovered /\ InNamespace(x.id, local[w].guard)}}
     \ {d.id : d \in ToSet(local[w].desired)}

ListEdges(w) ==
  /\ pc[w] = "list"
  /\ Remaining(w, SetToSeq(Stale(w)), local[w].desired)
  /\ UNCHANGED <<worldVars, snapshots, edges, clock, wasHealthy, disturbed>>

Discovering(w) == pc[w] \in {"list", "replace"}

\* Other checks of the same guard are disturbed by what w writes.
Disturbs(w) ==
  disturbed' = [x \in Worker |->
    disturbed[x] \/ (x # w /\ Discovering(x) /\ local[x].guard = local[w].guard)]

DeleteStale(w) ==
  LET l == local[w]
  IN  /\ pc[w] = "replace" /\ l.stale # <<>>
      /\ edges' = Deleted(Head(l.stale))
      /\ Remaining(w, Tail(l.stale), l.desired)
      /\ Disturbs(w)
      /\ UNCHANGED <<worldVars, snapshots, clock, wasHealthy>>

UpsertDesired(w) ==
  LET l == local[w]
  IN  /\ pc[w] = "replace" /\ l.stale = <<>>
      /\ edges' = Upserted(Head(l.desired))
      /\ Remaining(w, <<>>, Tail(l.desired))
      /\ Disturbs(w)
      /\ UNCHANGED <<worldVars, snapshots, clock, wasHealthy>>

\* A store call raises or the process dies: the request ends where it is.
Fail(w) ==
  /\ pc[w] # "idle"
  /\ Goto(w, "idle")
  /\ local' = [local EXCEPT ![w] = Idle]
  /\ wasHealthy' = [wasHealthy EXCEPT ![w] = {}]
  /\ disturbed' = [disturbed EXCEPT ![w] = FALSE]
  /\ UNCHANGED <<worldVars, snapshots, edges, clock>>

-----------------------------------------------------------------------------
(* Users and the monitor *)

UserWrites(touches(_)) ==
  /\ edits < MaxEdits
  /\ edits' = edits + 1
  /\ disturbed' = [w \in Worker |->
                     disturbed[w] \/ (Discovering(w) /\ touches(local[w].guard))]
  /\ UNCHANGED <<snapshots, observed, pc, local, clock, observations, wasHealthy>>

UpsertGuard(g, d) ==
  /\ UserWrites(LAMBDA x : x = g)
  /\ definitions' = [definitions EXCEPT ![g] = d]
  /\ UNCHANGED edges

PutEdge(e) ==
  /\ UserWrites(LAMBDA g : InNamespace(e.id, g))
  /\ edges' = Upserted(e)
  /\ UNCHANGED definitions

DeleteEdge(e) ==
  /\ UserWrites(LAMBDA g : InNamespace(e.id, g))
  /\ edges' = Deleted(e.id)
  /\ UNCHANGED definitions

\* A source is checked, as in Monitoring.
Observe(s, health) ==
  /\ observations < MaxObservations
  /\ observations' = observations + 1
  /\ observed' = [observed EXCEPT ![s] = health]
  /\ wasHealthy' = [w \in Worker |->
       IF pc[w] \in {"upstream", "save"} /\ health = "Healthy"
       THEN wasHealthy[w] \cup {s} ELSE wasHealthy[w]]
  /\ UNCHANGED <<definitions, snapshots, edges, pc, local, clock, edits, disturbed>>

Next ==
  \/ \E w \in Worker :
       \/ \E g \in Guard : StartCheck(w, g)
       \/ ReadUpstream(w) \/ ReadPowerBI(w) \/ SaveSnapshot(w)
       \/ ReadDefinition(w) \/ ListEdges(w) \/ DeleteStale(w) \/ UpsertDesired(w)
       \/ Fail(w)
  \/ \E g \in Guard, d \in Definition : UpsertGuard(g, d)
  \/ \E e \in UserEdges : PutEdge(e)
  \/ \E e \in edges : DeleteEdge(e)
  \/ \E s \in Source, health \in Health : Observe(s, health)

Spec == Init /\ [][Next]_vars

-----------------------------------------------------------------------------
(* Properties *)

\* A discovery that runs to its end, without a user or another check of the
\* same guard writing meanwhile, leaves exactly the edges of the definition and
\* of its snapshot, whatever earlier discoveries that died half way had left
\* and whatever the other guards discover at the same time
\* (dependency_service.py:20-39).
DiscoveryIsComplete ==
  [][\A w \in Worker :
       LET g == local[w].guard
       IN  Discovering(w) /\ pc'[w] = "idle" /\ ~disturbed[w] /\ ~Fail(w) =>
             {e \in edges' : e.discovered /\ InNamespace(e.id, g)}
               = SourceEdges(g, definitions[g]) \cup ReportEdges(g, definitions[g], local[w].reports)
    ]_vars

\* A check calls a model Healthy only if each source of its definition was
\* Healthy at some time since the check began, a source without an observation
\* not being so, although they are read one by one while the monitor writes
\* (power_bi_service.py:45-48, power_bi.py:140-215).
HealthyIsJustified ==
  \A w \in Worker :
    pc[w] = "save" /\ local[w].snapshot.health = "Healthy" =>
      local[w].upstream \subseteq wasHealthy[w]
=============================================================================

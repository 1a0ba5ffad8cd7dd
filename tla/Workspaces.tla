----------------------------- MODULE Workspaces -----------------------------
(***************************************************************************)
(* Several workspaces over one database.  The legacy backend has one key   *)
(* space for all: WorkspaceStore looks up who owns a row in one store call *)
(* and changes it in the next.  The namespaced and Postgres backends put   *)
(* the workspace into every key, and make the same calls.                  *)
(*                                                                         *)
(* A thread works for one workspace.  Its request is checked by one action *)
(* and written by another; a refused request changes nothing and is left   *)
(* out.  Rows of the legacy backend have space Shared, the others that of  *)
(* their workspace.                                                        *)
(*                                                                         *)
(* Bound: Observation, the ids there are; an id is used once, as uuid4 is. *)
(***************************************************************************)
EXTENDS Naturals, FiniteSets

CONSTANTS
  Workspace,
  SourceId,
  Observation,  \* ids of observations
  Thread,
  BoundTo,      \* thread -> the workspace it works for
  Decisions,    \* the states a candidate is given, of those there are
  Outcomes,     \* the states an attempt is given
  SerialAdds,   \* whether the deployment has one thread at a time add a given source id
  Shared,       \* the one key space of the legacy backend
  None

\* The rows of the tables.
SourceRow == [space: Workspace \cup {Shared}, id: SourceId, workspace: Workspace,
              baseline: Observation \cup {None}]
ObservationRow == [space: Workspace \cup {Shared}, id: Observation, source: SourceId,
                   values: BOOLEAN]
CandidateRow == [space: Workspace \cup {Shared}, observation: Observation, source: SourceId,
                 state: {"Pending", "Eligible", "Suppressed"}, created: Nat]
AttemptRow == [space: Workspace \cup {Shared}, candidate: Observation,
               state: {"Prepared", "Succeeded", "Failed"}, created: Nat]

\* What a thread is about to write, once its checks have passed.
Request ==
  [op: {"add"}, id: SourceId]
  \cup [op: {"save"}, id: SourceId, observation: Observation, raised: BOOLEAN, baselined: BOOLEAN]
  \cup [op: {"promote"}, id: SourceId, observation: Observation]
  \cup [op: {"prune"}, id: SourceId, keep: SUBSET Observation]
  \cup [op: {"decide"}, candidate: Observation, state: Decisions]
  \cup [op: {"claim"}, candidate: Observation]
  \cup [op: {"settle", "reconcile"}, candidate: Observation, state: Outcomes]

ASSUME WorkspacesAssumption ==
  /\ BoundTo \in [Thread -> Workspace]
  /\ Decisions \subseteq {"Eligible", "Suppressed"}
  /\ Outcomes \subseteq {"Succeeded", "Failed"}
  /\ SerialAdds \in BOOLEAN
  /\ Shared \notin Workspace
  /\ None \notin Observation \cup Request

VARIABLES
  backend,      \* "legacy" or "composite", chosen once
  sources,
  observations,
  candidates,
  attempts,
  pc,           \* thread -> the call it makes next
  request       \* thread -> what it is about to write

tables == <<sources, observations, candidates, attempts>>
vars == <<backend, sources, observations, candidates, attempts, pc, request>>

Space(w) == IF backend = "legacy" THEN Shared ELSE w

Init ==
  /\ backend \in {"legacy", "composite"}
  /\ sources = {}
  /\ observations = {}
  /\ candidates = {}
  /\ attempts = {}
  /\ pc = [t \in Thread |-> "idle"]
  /\ request = [t \in Thread |-> None]

-----------------------------------------------------------------------------
(* Who owns what.                                                          *)

\* get_source of the view of w finds the source.
Owns(w, id) == \E s \in sources : s.space = Space(w) /\ s.id = id /\ s.workspace = w

\* The row is one the view of w shows: its source is.
Shows(w, row) == row.space = Space(w) /\ Owns(w, row.source)

\* The observation o is in the view of w.
ObservationOf(w, o, id) == \E x \in observations : x.id = o /\ x.source = id /\ Shows(w, x)

\* The view of w shows candidate c (named by its observation).
CandidateOf(w, c) == \E x \in candidates : x.observation = c /\ Shows(w, x)

Unused(o) == \A x \in observations : x.id # o

\* A request passes its checks and goes on to its write.
Passes(t, q) ==
  /\ pc[t] = "idle"
  /\ pc' = [pc EXCEPT ![t] = "write"]
  /\ request' = [request EXCEPT ![t] = q]
  /\ UNCHANGED <<backend, tables>>

\* Mutant: the request is not dropped.
WrittenHeld(t) ==
  /\ pc' = [pc EXCEPT ![t] = "idle"]
  /\ UNCHANGED <<backend, request>>

Written(t) ==
  /\ pc' = [pc EXCEPT ![t] = "idle"]
  /\ request' = [request EXCEPT ![t] = None]
  /\ UNCHANGED backend

IsWriting(t, op) == pc[t] = "write" /\ request[t].op = op

\* Not in the code: what a deployment with SerialAdds sees to by itself, for the
\* key space its workspaces share.  upsert_source does not (workspace.py:69-72).
AddsApart(id) ==
  SerialAdds /\ backend = "legacy" =>
    \A u \in Thread : IsWriting(u, "add") => request[u].id # id

CheckAddSource(t, id) ==
  /\ \A s \in sources : s.space = Space(BoundTo[t]) /\ s.id = id => s.workspace = BoundTo[t]
  /\ Passes(t, [op |-> "add", id |-> id])

\* INSERT ... ON CONFLICT DO UPDATE: a row with the key takes the new
\* definition, the workspace in it included, and keeps its baseline.
AddSource(t) ==
  LET w   == BoundTo[t]
      old == {s \in sources : s.space = Space(w) /\ s.id = request[t].id}
      new == IF old = {} THEN {[space |-> Space(w), id |-> request[t].id, workspace |-> w, baseline |-> None]}
                         ELSE {[s EXCEPT !.workspace = w] : s \in old}
  IN  /\ IsWriting(t, "add")
      /\ sources' = (sources \ old) \cup new
      /\ Written(t)
      /\ UNCHANGED <<observations, candidates, attempts>>

-----------------------------------------------------------------------------
(* Observations and baselines.                                             *)

\* The service makes the first observation of a source its baseline.
CheckSaveObservation(t, id, o, raised) ==
  /\ Owns(BoundTo[t], id)
  /\ Unused(o)
  /\ \A u \in Thread : IsWriting(u, "save") => request[u].observation # o
  /\ Passes(t, [op |-> "save", id |-> id, observation |-> o, raised |-> raised,
                baselined |-> \A s \in sources :
                                s.space = Space(BoundTo[t]) /\ s.id = id => s.baseline = None])

\* Mutant: the workspace is missing from the condition of the UPDATE.
BaselinedEverywhere(w, id, o) ==
  {IF s.id = id THEN [s EXCEPT !.baseline = o] ELSE s : s \in sources}

Baselined(w, id, o) ==
  {IF s.space = Space(w) /\ s.id = id THEN [s EXCEPT !.baseline = o] ELSE s : s \in sources}

SaveObservation(t) ==
  LET q == request[t]
      w == BoundTo[t]
  IN  /\ IsWriting(t, "save")
      /\ observations' = observations \cup
           {[space |-> Space(w), id |-> q.observation, source |-> q.id, values |-> TRUE]}
      /\ candidates' = IF q.raised
                       THEN candidates \cup
                              {[space |-> Space(w), observation |-> q.observation, source |-> q.id,
                                state |-> "Pending", created |-> Cardinality(candidates) + 1]}
                       ELSE candidates
      /\ sources' = IF q.baselined THEN Baselined(w, q.id, q.observation) ELSE sources
      /\ Written(t)
      /\ UNCHANGED attempts

CheckPromoteBaseline(t, id, o) ==
  /\ Owns(BoundTo[t], id)
  /\ ObservationOf(BoundTo[t], o, id)
  /\ Passes(t, [op |-> "promote", id |-> id, observation |-> o])

PromoteBaseline(t) ==
  /\ IsWriting(t, "promote")
  /\ sources' = Baselined(BoundTo[t], request[t].id, request[t].observation)
  /\ Written(t)
  /\ UNCHANGED <<observations, candidates, attempts>>

CheckPruneValues(t, id, keep) ==
  /\ Owns(BoundTo[t], id)
  /\ \A o \in keep : ObservationOf(BoundTo[t], o, id)
  /\ Passes(t, [op |-> "prune", id |-> id, keep |-> keep])

PruneValues(t) ==
  /\ IsWriting(t, "prune")
  /\ observations' =
       {IF x.space = Space(BoundTo[t]) /\ x.source = request[t].id /\ x.id \notin request[t].keep
        THEN [x EXCEPT !.values = FALSE] ELSE x : x \in observations}
  /\ Written(t)
  /\ UNCHANGED <<sources, candidates, attempts>>

-----------------------------------------------------------------------------
(* Candidates and attempts.                                                *)

CheckDecide(t, c, st) ==
  /\ CandidateOf(BoundTo[t], c)
  /\ Passes(t, [op |-> "decide", candidate |-> c, state |-> st])

Decide(t) ==
  /\ IsWriting(t, "decide")
  /\ candidates' = {IF c.space = Space(BoundTo[t]) /\ c.observation = request[t].candidate
                    THEN [c EXCEPT !.state = request[t].state] ELSE c : c \in candidates}
  /\ Written(t)
  /\ UNCHANGED <<sources, observations, attempts>>

CheckClaim(t, c) ==
  /\ CandidateOf(BoundTo[t], c)
  /\ Passes(t, [op |-> "claim", candidate |-> c])

\* The claim itself checks state and earlier attempts, in its transaction;
\* Delivery has the whole of it.  Its idempotency key, which is unique among all
\* workspaces of the legacy table, may refuse it besides: as an abandoned one.
Claim(t) ==
  LET c == request[t].candidate
      new == [space |-> Space(BoundTo[t]), candidate |-> c, state |-> "Prepared",
              created |-> Cardinality(attempts) + 1]
      granted ==
        /\ \E x \in candidates : x.space = new.space /\ x.observation = c /\ x.state = "Eligible"
        /\ \A a \in attempts : ~(a.space = new.space /\ a.candidate = c)
  IN  /\ IsWriting(t, "claim")
      /\ attempts' = IF granted THEN attempts \cup {new} ELSE attempts
      /\ Written(t)
      /\ UNCHANGED <<sources, observations, candidates>>

\* update_delivery_attempt: the result of a delivery, over whatever is stored.
CheckSettle(t, a, st) ==
  /\ a.space = Space(BoundTo[t])
  /\ CandidateOf(BoundTo[t], a.candidate)
  /\ Passes(t, [op |-> "settle", candidate |-> a.candidate, state |-> st])

Settle(t) ==
  /\ IsWriting(t, "settle")
  /\ attempts' = {IF a.space = Space(BoundTo[t]) /\ a.candidate = request[t].candidate
                  THEN [a EXCEPT !.state = request[t].state] ELSE a : a \in attempts}
  /\ Written(t)
  /\ UNCHANGED <<sources, observations, candidates>>

CheckReconcile(t, a, st) ==
  /\ a.space = Space(BoundTo[t])
  /\ CandidateOf(BoundTo[t], a.candidate)
  /\ Passes(t, [op |-> "reconcile", candidate |-> a.candidate, state |-> st])

\* An operator's decision, on an attempt that is still Prepared.
Reconcile(t) ==
  LET mine == {a \in attempts : /\ a.space = Space(BoundTo[t])
                                /\ a.candidate = request[t].candidate
                                /\ a.state = "Prepared"}
  IN  /\ IsWriting(t, "reconcile")
      /\ attempts' = (attempts \ mine) \cup {[a EXCEPT !.state = request[t].state] : a \in mine}
      /\ Written(t)
      /\ UNCHANGED <<sources, observations, candidates>>

-----------------------------------------------------------------------------
Check(t) ==
  \/ \E id \in SourceId :
       \/ AddsApart(id) /\ CheckAddSource(t, id)
       \/ \E o \in Observation :
            \/ \E raised \in BOOLEAN : CheckSaveObservation(t, id, o, raised)
            \/ CheckPromoteBaseline(t, id, o)
       \/ CheckPruneValues(t, id, {})
       \/ \E o \in Observation : CheckPruneValues(t, id, {o})
  \/ \E c \in Observation :
       \/ \E st \in Decisions : CheckDecide(t, c, st)
       \/ CheckClaim(t, c)
  \/ \E a \in attempts, st \in Outcomes : CheckSettle(t, a, st) \/ CheckReconcile(t, a, st)

Write(t) ==
  \/ AddSource(t) \/ SaveObservation(t) \/ PromoteBaseline(t) \/ PruneValues(t)
  \/ Decide(t) \/ Claim(t) \/ Settle(t) \/ Reconcile(t)

\* The thread dies, or its next store call fails.
Abandon(t) ==
  /\ pc[t] = "write"
  /\ Written(t)
  /\ UNCHANGED tables

Next == \E t \in Thread : Check(t) \/ Write(t) \/ Abandon(t)

Spec == Init /\ [][Next]_vars

-----------------------------------------------------------------------------
(* Properties.                                                             *)

\* Rows have the columns of their tables, and the requests belong to threads.
TypeOK ==
  /\ backend \in {"legacy", "composite"}
  /\ sources \subseteq SourceRow /\ observations \subseteq ObservationRow
  /\ candidates \subseteq CandidateRow /\ attempts \subseteq AttemptRow
  /\ pc \in [Thread -> {"idle", "write"}]
  /\ request \in [Thread -> Request \cup {None}]
  /\ \A t \in Thread : (request[t] = None) = (pc[t] = "idle")

\* The tables as the workspace w sees them.
SourcesOf(w) == {[id |-> s.id, baseline |-> s.baseline] : s \in {x \in sources : x.workspace = w}}

ObservationsOf(w) ==
  {[id |-> x.id, source |-> x.source, values |-> x.values] : x \in {y \in observations : Shows(w, y)}}

OwnCandidates(w) == {c \in candidates : Shows(w, c)}

CandidatesOf(w) ==
  {[observation |-> c.observation, source |-> c.source, state |-> c.state, created |-> c.created]
     : c \in OwnCandidates(w)}

AttemptsOf(w) ==
  {[candidate |-> a.candidate, state |-> a.state]
     : a \in {b \in attempts : b.space = Space(w) /\ CandidateOf(w, b.candidate)}}

PrivateTables(w) == [sources |-> SourcesOf(w), observations |-> ObservationsOf(w),
                     candidates |-> CandidatesOf(w), attempts |-> AttemptsOf(w)]

Private == INSTANCE PrivateStores WITH store <- [w \in Workspace |-> PrivateTables(w)]

\* The workspaces behave as if each had a database of its own: no step of one
\* changes, takes over or hides what another sees, although other workspaces run
\* between the check of a request and its write (workspace.py:81-97).  So it is
\* with the workspace in the keys; with one key space it takes SerialAdds.
ImplementsPrivateStores == Private!PrivateSpec

\* A source that a workspace has added stays its own: another workspace cannot
\* reuse the id (tests/test_workspace_boundary.py:131).  Two that add it at the
\* same moment over one key space both find it free (workspace.py:69), and the
\* second takes it from the first.
SourcesKeepTheirWorkspace ==
  [][\A s \in sources : \E r \in sources' :
       r.space = s.space /\ r.id = s.id /\ r.workspace = s.workspace]_vars
=============================================================================

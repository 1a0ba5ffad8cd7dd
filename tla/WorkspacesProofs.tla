-------------------------- MODULE WorkspacesProofs --------------------------
(***************************************************************************)
(* Several workspaces over one database behave as private stores, for any  *)
(* number of workspaces, threads, sources and observations.                *)
(*                                                                         *)
(* The argument: a row refers to the source its key names, rows that are   *)
(* there stay, and a source keeps its workspace (OwnInv, the only place    *)
(* where the key scheme matters).  So what a thread has checked still      *)
(* holds when it writes, and what it writes no other workspace sees.  A    *)
(* list has looked up an owner, and that stays, too, until it returns.     *)
(***************************************************************************)
EXTENDS WorkspaceLists, FiniteSetTheorems, TLAPS

USE WorkspacesAssumption

-----------------------------------------------------------------------------
(* Types.                                                                  *)

\* What a request holds, by operation.
LEMMA RequestHolds ==
  ASSUME NEW q \in Request
  PROVE  /\ q.op \in {"add", "save", "promote", "prune", "decide", "claim", "settle", "reconcile"}
         /\ q.op \in {"add", "save", "promote", "prune"} => q.id \in SourceId
         /\ q.op = "save" => q.observation \in Observation /\ q.raised \in BOOLEAN /\ q.baselined \in BOOLEAN
         /\ q.op = "promote" => q.observation \in Observation
         /\ q.op = "prune" => q.keep \subseteq Observation
         /\ q.op \in {"decide", "claim", "settle", "reconcile"} => q.candidate \in Observation
         /\ q.op = "decide" => q.state \in Decisions
         /\ q.op \in {"settle", "reconcile"} => q.state \in Outcomes
<1>1. CASE q \in [op: {"add"}, id: SourceId]
  BY <1>1
<1>2. CASE q \in [op: {"save"}, id: SourceId, observation: Observation, raised: BOOLEAN, baselined: BOOLEAN]
  BY <1>2
<1>3. CASE q \in [op: {"promote"}, id: SourceId, observation: Observation]
  BY <1>3
<1>4. CASE q \in [op: {"prune"}, id: SourceId, keep: SUBSET Observation]
  BY <1>4
<1>5. CASE q \in [op: {"decide"}, candidate: Observation, state: Decisions]
  BY <1>5
<1>6. CASE q \in [op: {"claim"}, candidate: Observation]
  BY <1>6
<1>7. CASE q \in [op: {"settle", "reconcile"}, candidate: Observation, state: Outcomes]
  BY <1>7
<1> QED BY <1>1, <1>2, <1>3, <1>4, <1>5, <1>6, <1>7 DEF Request

LEMMA PendingIsRequest ==
  ASSUME TypeOK, NEW t \in Thread, pc[t] = "write"
  PROVE  request[t] \in Request
  BY DEF TypeOK

LEMMA SpaceType ==
  ASSUME NEW w \in Workspace PROVE Space(w) \in Workspace \cup {Shared}
  BY DEF Space

\* What the check of a request sees: what it names is the workspace's own ...
Own(w, q) ==
  /\ q.op = "add" => \A s \in sources : s.space = Space(w) /\ s.id = q.id => s.workspace = w
  /\ q.op \in {"save", "prune"} => Owns(w, q.id)
  /\ q.op = "promote" => ObservationOf(w, q.observation, q.id)
  /\ q.op \in {"decide", "claim", "settle", "reconcile"} => CandidateOf(w, q.candidate)

\* ... and what must be new is.
Fresh(t, q) ==
  /\ q.op = "save" =>
       /\ Unused(q.observation)
       /\ \A u \in Thread : IsWriting(u, "save") => request[u].observation # q.observation
  /\ q.op = "add" /\ SerialAdds /\ backend = "legacy" =>
       \A u \in Thread : IsWriting(u, "add") => request[u].id # q.id

LEMMA CheckPasses ==
  ASSUME NEW t \in Thread, Check(t), TypeOK
  PROVE  \E q \in Request : Passes(t, q) /\ Own(BoundTo[t], q) /\ Fresh(t, q)
<1>1. ASSUME NEW id \in SourceId, AddsApart(id), CheckAddSource(t, id)
      PROVE \E q \in Request : Passes(t, q) /\ Own(BoundTo[t], q) /\ Fresh(t, q)
  <2>1. PICK q : q = [op |-> "add", id |-> id]
    OBVIOUS
  <2>2. q \in Request /\ Passes(t, q) /\ q.op = "add" /\ q.id = id
    BY <1>1, <2>1 DEF CheckAddSource, Request
  <2> QED BY <1>1, <2>2 DEF CheckAddSource, AddsApart, Own, Fresh
<1>2. ASSUME NEW id \in SourceId, NEW o \in Observation, NEW raised \in BOOLEAN,
             CheckSaveObservation(t, id, o, raised)
      PROVE  \E q \in Request : Passes(t, q) /\ Own(BoundTo[t], q) /\ Fresh(t, q)
  <2>1. PICK b : b = (\A s \in sources : s.space = Space(BoundTo[t]) /\ s.id = id => s.baseline = None)
    OBVIOUS
  <2>2. b \in BOOLEAN
    BY <2>1
  <2>3. PICK q : q = [op |-> "save", id |-> id, observation |-> o, raised |-> raised, baselined |-> b]
    OBVIOUS
  <2>4. Passes(t, q)
    BY <1>2, <2>1, <2>3 DEF CheckSaveObservation
  <2>5. q \in Request /\ q.op = "save" /\ q.id = id /\ q.observation = o
    BY <2>2, <2>3 DEF Request
  <2> QED BY <1>2, <2>4, <2>5 DEF CheckSaveObservation, Own, Fresh
<1>3. ASSUME NEW id \in SourceId, NEW o \in Observation, CheckPromoteBaseline(t, id, o)
      PROVE  \E q \in Request : Passes(t, q) /\ Own(BoundTo[t], q) /\ Fresh(t, q)
  <2>1. PICK q : q = [op |-> "promote", id |-> id, observation |-> o]
    OBVIOUS
  <2>2. q \in Request /\ Passes(t, q) /\ q.op = "promote" /\ q.id = id /\ q.observation = o
    BY <1>3, <2>1 DEF CheckPromoteBaseline, Request
  <2> QED BY <1>3, <2>2 DEF CheckPromoteBaseline, Own, Fresh
<1>4. ASSUME NEW id \in SourceId, NEW keep \in SUBSET Observation, CheckPruneValues(t, id, keep)
      PROVE  \E q \in Request : Passes(t, q) /\ Own(BoundTo[t], q) /\ Fresh(t, q)
  <2>1. PICK q : q = [op |-> "prune", id |-> id, keep |-> keep]
    OBVIOUS
  <2>2. q \in Request /\ Passes(t, q) /\ q.op = "prune" /\ q.id = id
    BY <1>4, <2>1 DEF CheckPruneValues, Request
  <2> QED BY <1>4, <2>2 DEF CheckPruneValues, Own, Fresh
<1>5. ASSUME NEW c \in Observation, NEW st \in Decisions, CheckDecide(t, c, st)
      PROVE  \E q \in Request : Passes(t, q) /\ Own(BoundTo[t], q) /\ Fresh(t, q)
  <2>1. PICK q : q = [op |-> "decide", candidate |-> c, state |-> st]
    OBVIOUS
  <2>2. q \in Request /\ Passes(t, q) /\ q.op = "decide" /\ q.candidate = c
    BY <1>5, <2>1 DEF CheckDecide, Request
  <2> QED BY <1>5, <2>2 DEF CheckDecide, Own, Fresh
<1>6. ASSUME NEW c \in Observation, CheckClaim(t, c)
      PROVE  \E q \in Request : Passes(t, q) /\ Own(BoundTo[t], q) /\ Fresh(t, q)
  <2>1. PICK q : q = [op |-> "claim", candidate |-> c]
    OBVIOUS
  <2>2. q \in Request /\ Passes(t, q) /\ q.op = "claim" /\ q.candidate = c
    BY <1>6, <2>1 DEF CheckClaim, Request
  <2> QED BY <1>6, <2>2 DEF CheckClaim, Own, Fresh
<1>7. ASSUME NEW a \in attempts, NEW st \in Outcomes, CheckSettle(t, a, st) \/ CheckReconcile(t, a, st)
      PROVE  \E q \in Request : Passes(t, q) /\ Own(BoundTo[t], q) /\ Fresh(t, q)
  <2>1. a.candidate \in Observation
    BY DEF TypeOK, AttemptRow
  <2>2. CandidateOf(BoundTo[t], a.candidate)
    BY <1>7 DEF CheckSettle, CheckReconcile
  <2>3. PICK op \in {"settle", "reconcile"} : Passes(t, [op |-> op, candidate |-> a.candidate, state |-> st])
    BY <1>7 DEF CheckSettle, CheckReconcile
  <2>4. PICK q : q = [op |-> op, candidate |-> a.candidate, state |-> st]
    OBVIOUS
  <2>5. q \in Request /\ Passes(t, q) /\ q.op \in {"settle", "reconcile"} /\ q.candidate = a.candidate
    BY <2>1, <2>3, <2>4 DEF Request
  <2> QED BY <2>2, <2>5 DEF Own, Fresh
<1>8. ASSUME NEW id \in SourceId,
             CheckPruneValues(t, id, {}) \/ \E o \in Observation : CheckPruneValues(t, id, {o})
      PROVE  \E q \in Request : Passes(t, q) /\ Own(BoundTo[t], q) /\ Fresh(t, q)
  <2>1. PICK keep \in SUBSET Observation : CheckPruneValues(t, id, keep)
    BY <1>8
  <2> QED BY <1>4, <2>1
<1> QED BY <1>1, <1>2, <1>3, <1>5, <1>6, <1>7, <1>8 DEF Check

\* A write drops the request of its thread and no other.
LEMMA WrittenTypes ==
  ASSUME TypeOK, NEW t \in Thread, Written(t)
  PROVE  /\ backend' = backend /\ pc'[t] = "idle"
         /\ \A u \in Thread \ {t} : pc'[u] = pc[u] /\ request'[u] = request[u]
         /\ pc' \in [Thread -> {"idle", "write"}]
         /\ request' \in [Thread -> Request \cup {None}]
         /\ \A u \in Thread : (request'[u] = None) = (pc'[u] = "idle")
<1>1. pc' = [pc EXCEPT ![t] = "idle"] /\ request' = [request EXCEPT ![t] = None] /\ backend' = backend
  BY DEF Written
<1>2. pc \in [Thread -> {"idle", "write"}] /\ request \in [Thread -> Request \cup {None}]
  BY DEF TypeOK
<1>3. \A u \in Thread : (request[u] = None) = (pc[u] = "idle")
  BY DEF TypeOK
<1>4. /\ pc'[t] = "idle" /\ request'[t] = None
      /\ \A u \in Thread \ {t} : pc'[u] = pc[u] /\ request'[u] = request[u]
  BY <1>1, <1>2
<1> QED BY <1>1, <1>2, <1>3, <1>4

LEMMA PassesTypes ==
  ASSUME TypeOK, NEW t \in Thread, NEW q \in Request, Passes(t, q)
  PROVE  /\ TypeOK' /\ UNCHANGED <<backend, tables>>
         /\ pc[t] = "idle" /\ request'[t] = q
         /\ \A u \in Thread \ {t} : pc'[u] = pc[u] /\ request'[u] = request[u]
<1>1. /\ pc' = [pc EXCEPT ![t] = "write"] /\ request' = [request EXCEPT ![t] = q]
      /\ UNCHANGED <<backend, tables>> /\ pc[t] = "idle"
  BY DEF Passes
<1>2. pc \in [Thread -> {"idle", "write"}] /\ request \in [Thread -> Request \cup {None}]
  BY DEF TypeOK
<1>3. \A u \in Thread : (request[u] = None) = (pc[u] = "idle")
  BY DEF TypeOK
<1>4. /\ pc'[t] = "write" /\ request'[t] = q /\ q # None
      /\ \A u \in Thread \ {t} : pc'[u] = pc[u] /\ request'[u] = request[u]
  BY <1>1, <1>2
<1>5. pc' \in [Thread -> {"idle", "write"}] /\ request' \in [Thread -> Request \cup {None}]
  BY <1>1, <1>2
<1>6. \A u \in Thread : (request'[u] = None) = (pc'[u] = "idle")
  BY <1>3, <1>4
<1> QED BY <1>1, <1>4, <1>5, <1>6 DEF TypeOK, tables

\* The tables stay well formed.
TablesOK == /\ sources \subseteq SourceRow /\ observations \subseteq ObservationRow
            /\ candidates \subseteq CandidateRow /\ attempts \subseteq AttemptRow
            /\ IsFiniteSet(candidates) /\ IsFiniteSet(attempts)

LEMMA BaselinedRows ==
  ASSUME sources \subseteq SourceRow, NEW w, NEW id, NEW o \in Observation
  PROVE  Baselined(w, id, o) \subseteq SourceRow
<1>1. ASSUME NEW s \in sources PROVE [s EXCEPT !.baseline = o] \in SourceRow
  BY DEF SourceRow
<1> QED BY <1>1 DEF Baselined

LEMMA AddSourceRows ==
  ASSUME TypeOK, IsFiniteSet(candidates), IsFiniteSet(attempts), NEW t \in Thread, AddSource(t)
  PROVE  TablesOK'
<1>1. request[t] \in Request /\ request[t].op = "add" /\ BoundTo[t] \in Workspace
  BY PendingIsRequest DEF AddSource, IsWriting
<1>2. request[t].id \in SourceId
  BY <1>1, RequestHolds
<1>3. Space(BoundTo[t]) \in Workspace \cup {Shared}
  BY <1>1, SpaceType
<1>4. [space |-> Space(BoundTo[t]), id |-> request[t].id, workspace |-> BoundTo[t], baseline |-> None]
        \in SourceRow
  BY <1>1, <1>2, <1>3 DEF SourceRow
<1>5. sources \subseteq SourceRow /\ observations \subseteq ObservationRow
      /\ candidates \subseteq CandidateRow /\ attempts \subseteq AttemptRow
  BY DEF TypeOK
<1>6. ASSUME NEW s \in sources PROVE [s EXCEPT !.workspace = BoundTo[t]] \in SourceRow
  BY <1>1, <1>5 DEF SourceRow
<1>7. sources' \subseteq SourceRow
  BY <1>4, <1>5, <1>6 DEF AddSource
<1> QED BY <1>5, <1>7 DEF AddSource, TablesOK

LEMMA SaveObservationRows ==
  ASSUME TypeOK, IsFiniteSet(candidates), IsFiniteSet(attempts), NEW t \in Thread, SaveObservation(t)
  PROVE  TablesOK'
<1>1. request[t] \in Request /\ request[t].op = "save" /\ BoundTo[t] \in Workspace
  BY PendingIsRequest DEF SaveObservation, IsWriting
<1>2. request[t].id \in SourceId /\ request[t].observation \in Observation
  BY <1>1, RequestHolds
<1>3. Space(BoundTo[t]) \in Workspace \cup {Shared}
  BY <1>1, SpaceType
<1>4. sources \subseteq SourceRow /\ observations \subseteq ObservationRow
      /\ candidates \subseteq CandidateRow /\ attempts \subseteq AttemptRow
  BY DEF TypeOK
<1>5. observations' \subseteq ObservationRow
  <2>1. PICK x : x = [space |-> Space(BoundTo[t]), id |-> request[t].observation,
                      source |-> request[t].id, values |-> TRUE]
    OBVIOUS
  <2>2. x \in ObservationRow
    BY <1>2, <1>3, <2>1 DEF ObservationRow
  <2>3. observations' = observations \cup {x}
    BY <2>1 DEF SaveObservation
  <2> QED BY <1>4, <2>2, <2>3
<1>6. Cardinality(candidates) \in Nat
  BY FS_CardinalityType
<1>7. PICK c : c = [space |-> Space(BoundTo[t]), observation |-> request[t].observation,
                    source |-> request[t].id, state |-> "Pending",
                    created |-> Cardinality(candidates) + 1]
  OBVIOUS
<1>8. c \in CandidateRow
  BY <1>2, <1>3, <1>6, <1>7 DEF CandidateRow
<1>9. candidates' = candidates \/ candidates' = candidates \cup {c}
  BY <1>7 DEF SaveObservation
<1>10. candidates' \subseteq CandidateRow /\ IsFiniteSet(candidates')
  BY <1>4, <1>8, <1>9, FS_AddElement
<1>11. sources' \subseteq SourceRow
  BY <1>2, <1>4, BaselinedRows DEF SaveObservation
<1> QED BY <1>4, <1>5, <1>10, <1>11 DEF SaveObservation, TablesOK

\* What becomes of an attempt when t settles or reconciles one.
SettledAs(t, a) ==
  IF /\ a.space = Space(BoundTo[t]) /\ a.candidate = request[t].candidate
     /\ IsWriting(t, "reconcile") => a.state = "Prepared"
  THEN [a EXCEPT !.state = request[t].state] ELSE a

LEMMA Settled ==
  ASSUME TypeOK, NEW t \in Thread, Settle(t) \/ Reconcile(t)
  PROVE  /\ attempts' = {SettledAs(t, a) : a \in attempts}
         /\ \A a \in attempts : /\ SettledAs(t, a).space = a.space
                                /\ SettledAs(t, a).candidate = a.candidate
<1>1. \A a \in attempts : SettledAs(t, a).space = a.space /\ SettledAs(t, a).candidate = a.candidate
  BY DEF TypeOK, AttemptRow, SettledAs
<1>2. CASE Settle(t)
  <2>1. ~IsWriting(t, "reconcile")
    BY <1>2 DEF Settle, IsWriting
  <2>2. attempts' = {IF a.space = Space(BoundTo[t]) /\ a.candidate = request[t].candidate
                     THEN [a EXCEPT !.state = request[t].state] ELSE a : a \in attempts}
    BY <1>2 DEF Settle
  <2> QED BY <1>1, <2>1, <2>2 DEF SettledAs
<1>3. CASE Reconcile(t)
  <2>1. PICK mine : mine = {a \in attempts : /\ a.space = Space(BoundTo[t])
                                             /\ a.candidate = request[t].candidate
                                             /\ a.state = "Prepared"}
    OBVIOUS
  <2>2. /\ IsWriting(t, "reconcile")
        /\ attempts' = (attempts \ mine) \cup {[a EXCEPT !.state = request[t].state] : a \in mine}
    BY <1>3, <2>1 DEF Reconcile
  <2>3. \A a \in attempts : SettledAs(t, a) = IF a \in mine THEN [a EXCEPT !.state = request[t].state] ELSE a
    BY <2>1, <2>2 DEF SettledAs
  <2>4. mine \subseteq attempts
    BY <2>1
  <2>5. ASSUME NEW b \in attempts' PROVE \E a \in attempts : b = SettledAs(t, a)
    BY <2>2, <2>3, <2>4
  <2>6. ASSUME NEW a \in attempts PROVE SettledAs(t, a) \in attempts'
    BY <2>2, <2>3
  <2> QED BY <1>1, <2>5, <2>6
<1> QED BY <1>2, <1>3

LEMMA OtherRows ==
  ASSUME TypeOK, IsFiniteSet(candidates), IsFiniteSet(attempts), NEW t \in Thread,
         PromoteBaseline(t) \/ PruneValues(t) \/ Claim(t) \/ Settle(t) \/ Reconcile(t)
  PROVE  TablesOK'
<1>1. request[t] \in Request /\ BoundTo[t] \in Workspace
  BY PendingIsRequest DEF PromoteBaseline, PruneValues, Claim, Settle, Reconcile, IsWriting
<1>2. Space(BoundTo[t]) \in Workspace \cup {Shared}
  BY <1>1, SpaceType
<1>3. sources \subseteq SourceRow /\ observations \subseteq ObservationRow
      /\ candidates \subseteq CandidateRow /\ attempts \subseteq AttemptRow
  BY DEF TypeOK
<1>4. CASE PromoteBaseline(t)
  <2>1. request[t].observation \in Observation
    BY <1>1, <1>4, RequestHolds DEF PromoteBaseline, IsWriting
  <2>2. sources' \subseteq SourceRow
    BY <1>3, <1>4, <2>1, BaselinedRows DEF PromoteBaseline
  <2> QED BY <1>3, <1>4, <2>2 DEF PromoteBaseline, TablesOK
<1>5. CASE PruneValues(t)
  <2>1. ASSUME NEW x \in observations PROVE [x EXCEPT !.values = FALSE] \in ObservationRow
    BY <1>3 DEF ObservationRow
  <2>2. observations' \subseteq ObservationRow
    BY <1>3, <1>5, <2>1 DEF PruneValues
  <2> QED BY <1>3, <1>5, <2>2 DEF PruneValues, TablesOK
<1>6. CASE Claim(t)
  <2>1. request[t].candidate \in Observation
    BY <1>1, <1>6, RequestHolds DEF Claim, IsWriting
  <2>2. Cardinality(attempts) \in Nat
    BY FS_CardinalityType
  <2>3. PICK new : new = [space |-> Space(BoundTo[t]), candidate |-> request[t].candidate,
                          state |-> "Prepared", created |-> Cardinality(attempts) + 1]
    OBVIOUS
  <2>4. new \in AttemptRow
    BY <1>2, <2>1, <2>2, <2>3 DEF AttemptRow
  <2>5. attempts' = attempts \/ attempts' = attempts \cup {new}
    BY <1>6, <2>3 DEF Claim
  <2>6. attempts' \subseteq AttemptRow /\ IsFiniteSet(attempts')
    BY <1>3, <2>4, <2>5, FS_AddElement
  <2> QED BY <1>3, <1>6, <2>6 DEF Claim, TablesOK
<1>7. CASE Settle(t) \/ Reconcile(t)
  <2>1. request[t].state \in {"Succeeded", "Failed"}
    BY <1>1, <1>7, RequestHolds DEF Settle, Reconcile, IsWriting
  <2>2. ASSUME NEW a \in attempts PROVE [a EXCEPT !.state = request[t].state] \in AttemptRow
    BY <1>3, <2>1 DEF AttemptRow
  <2>3. attempts' \subseteq AttemptRow
    BY <1>3, <1>7, <2>2 DEF Settle, Reconcile
  <2>4. IsFiniteSet(attempts')
    <3>1. attempts' = {SettledAs(t, a) : a \in attempts}
      BY <1>7, Settled
    <3>2. PICK f : f = [a \in attempts |-> SettledAs(t, a)]
      OBVIOUS
    <3>3. f \in Surjection(attempts, attempts')
      BY <3>1, <3>2 DEF Surjection
    <3> QED BY <3>3, FS_Surjection
  <2> QED BY <1>3, <1>7, <2>3, <2>4 DEF Settle, Reconcile, TablesOK
<1> QED BY <1>4, <1>5, <1>6, <1>7

-----------------------------------------------------------------------------
(* The store, whatever the key scheme: keys are unique, rows refer to rows  *)
(* that exist, and what exists goes on to.                                  *)

HasSource(space, id) == \E s \in sources : s.space = space /\ s.id = id
HasObservation(space, id, o) == \E x \in observations : x.space = space /\ x.source = id /\ x.id = o
HasCandidate(space, o) == \E c \in candidates : c.space = space /\ c.observation = o

Keyed ==
  /\ \A s, r \in sources : s.space = r.space /\ s.id = r.id => s = r
  /\ \A x, y \in observations : x.id = y.id => x = y
  /\ \A c, d \in candidates : c.observation = d.observation => c = d
  /\ \A a, b \in attempts : a.space = b.space /\ a.candidate = b.candidate => a = b

Referring ==
  /\ \A x \in observations : HasSource(x.space, x.source)
  /\ \A c \in candidates : HasObservation(c.space, c.source, c.observation)
  /\ \A a \in attempts : HasCandidate(a.space, a.candidate)

Placed == \A s \in sources : s.space = Space(s.workspace)

Numbered ==
  /\ IsFiniteSet(candidates) /\ IsFiniteSet(attempts)
  /\ \A c \in candidates : c.created <= Cardinality(candidates)

\* What is true of a pending write in any key scheme.
Checked(t) ==
  /\ IsWriting(t, "save") =>
       /\ HasSource(Space(BoundTo[t]), request[t].id)
       /\ Unused(request[t].observation)
       /\ \A u \in Thread \ {t} : IsWriting(u, "save") => request[u].observation # request[t].observation
  /\ IsWriting(t, "claim") => HasCandidate(Space(BoundTo[t]), request[t].candidate)

StoreInv ==
  /\ TypeOK
  /\ Keyed
  /\ Referring
  /\ Placed
  /\ Numbered
  /\ \A t \in Thread : Checked(t)

\* Every key of a row stays; new observations are the writer's.
Grows(t) ==
  /\ backend' = backend
  /\ \A space, id : HasSource(space, id) => HasSource(space, id)'
  /\ \A space, id, o : HasObservation(space, id, o) => HasObservation(space, id, o)'
  /\ \A space, o : HasCandidate(space, o) => HasCandidate(space, o)'
  /\ \A o : Unused(o) /\ ~Unused(o)' => IsWriting(t, "save") /\ o = request[t].observation

LEMMA StoreInit == Init => StoreInv
<1> SUFFICES ASSUME Init PROVE StoreInv
  OBVIOUS
<1>1. /\ pc \in [Thread -> {"idle", "write"}] /\ request \in [Thread -> Request \cup {None}]
      /\ \A t \in Thread : (request[t] = None) = (pc[t] = "idle")
  BY DEF Init
<1>2. TypeOK
  BY <1>1 DEF Init, TypeOK
<1>3. Keyed /\ Referring /\ Placed
  BY DEF Init, Keyed, Referring, Placed
<1>4. Numbered
  BY FS_EmptySet DEF Init, Numbered
<1>5. \A t \in Thread : Checked(t)
  BY DEF Init, Checked, IsWriting
<1> QED BY <1>2, <1>3, <1>4, <1>5 DEF StoreInv

\* The requests of the other threads stay checked.
LEMMA WrittenChecked ==
  ASSUME StoreInv, NEW t \in Thread, Written(t), Grows(t)
  PROVE  \A u \in Thread : Checked(u)'
<1> SUFFICES ASSUME NEW u \in Thread PROVE Checked(u)'
  OBVIOUS
<1>1. /\ backend' = backend /\ pc'[t] = "idle"
      /\ \A v \in Thread \ {t} : pc'[v] = pc[v] /\ request'[v] = request[v]
  BY WrittenTypes DEF StoreInv
<1>2. CASE u = t
  BY <1>1, <1>2 DEF Checked, IsWriting
<1>3. CASE u # t
  <2>1. Checked(u) /\ pc'[u] = pc[u] /\ request'[u] = request[u] /\ Space(BoundTo[u])' = Space(BoundTo[u])
    BY <1>1, <1>3 DEF StoreInv, Space
  <2>2. \A v \in Thread : IsWriting(v, "save")' => IsWriting(v, "save") /\ request'[v] = request[v]
    BY <1>1 DEF IsWriting
  <2>3. ASSUME IsWriting(u, "save")'
        PROVE  /\ HasSource(Space(BoundTo[u]), request[u].id)'
               /\ Unused(request[u].observation)'
               /\ \A v \in Thread \ {u} : IsWriting(v, "save")' => request'[v].observation # request'[u].observation
    <3>1. IsWriting(u, "save")
      BY <2>2, <2>3
    <3>2. /\ HasSource(Space(BoundTo[u]), request[u].id)
          /\ Unused(request[u].observation)
          /\ \A v \in Thread \ {u} : IsWriting(v, "save") => request[v].observation # request[u].observation
      BY <2>1, <3>1 DEF Checked
    <3>3. HasSource(Space(BoundTo[u]), request[u].id)'
      BY <2>1, <3>2 DEF Grows
    <3>4. IsWriting(t, "save") => request[u].observation # request[t].observation
      BY <1>3, <3>2
    <3>5. Unused(request[u].observation)'
      BY <2>1, <3>2, <3>4 DEF Grows
    <3> QED BY <2>1, <2>2, <3>2, <3>3, <3>5
  <2>4. ASSUME IsWriting(u, "claim")' PROVE HasCandidate(Space(BoundTo[u]), request[u].candidate)'
    <3>1. IsWriting(u, "claim")
      BY <2>1, <2>4 DEF IsWriting
    <3> QED BY <2>1, <3>1 DEF Checked, Grows
  <2> QED BY <2>3, <2>4 DEF Checked
<1> QED BY <1>2, <1>3

LEMMA StoreParts ==
  ASSUME StoreInv, NEW t \in Thread, Written(t), Grows(t), TablesOK',
         Keyed', Referring', Placed', Numbered'
  PROVE  StoreInv'
<1>1. TypeOK'
  BY WrittenTypes DEF StoreInv, TypeOK, TablesOK
<1>2. \A u \in Thread : Checked(u)'
  BY WrittenChecked
<1> QED BY <1>1, <1>2 DEF StoreInv

\* What a step leaves of the sources: their keys, and that they are unique.
SourcesKept ==
  /\ backend' = backend
  /\ \A r \in sources' : r.space = Space(r.workspace)
  /\ \A s, r \in sources' : s.space = r.space /\ s.id = r.id => s = r
  /\ \A s \in sources : \E r \in sources' : r.space = s.space /\ r.id = s.id

LEMMA KeptUnchanged ==
  ASSUME Keyed, Placed, UNCHANGED <<sources, backend>> PROVE SourcesKept
  BY DEF Keyed, Placed, SourcesKept

\* Setting a baseline keeps every other column.
LEMMA BaselinedKept ==
  ASSUME TypeOK, Keyed, Placed, NEW w, NEW id, NEW o,
         sources' = Baselined(w, id, o), backend' = backend
  PROVE  /\ SourcesKept
         /\ \A s \in sources : \E r \in sources' : r.space = s.space /\ r.id = s.id /\ r.workspace = s.workspace
         /\ \A r \in sources' : \E s \in sources : r.space = s.space /\ r.id = s.id /\ r.workspace = s.workspace
<1> DEFINE New(s) == IF s.space = Space(w) /\ s.id = id THEN [s EXCEPT !.baseline = o] ELSE s
<1>1. sources' = {New(s) : s \in sources}
  BY DEF Baselined
<1>2. ASSUME NEW s \in sources
      PROVE  New(s).space = s.space /\ New(s).id = s.id /\ New(s).workspace = s.workspace
  BY DEF TypeOK, SourceRow
<1> HIDE DEF New
<1>3. \A s \in sources : \E r \in sources' : r.space = s.space /\ r.id = s.id /\ r.workspace = s.workspace
  BY <1>1, <1>2
<1>4. \A r \in sources' : \E s \in sources : r = New(s)
  BY <1>1
<1>5. ASSUME NEW r \in sources', NEW q \in sources', r.space = q.space, r.id = q.id PROVE r = q
  BY <1>2, <1>4, <1>5 DEF Keyed
<1>6. \A r \in sources' : r.space = Space(r.workspace)
  BY <1>2, <1>4 DEF Placed
<1> QED BY <1>2, <1>3, <1>4, <1>5, <1>6 DEF SourcesKept

LEMMA AddSourceKept ==
  ASSUME StoreInv, NEW t \in Thread, AddSource(t) PROVE SourcesKept
<1>1. TypeOK /\ Keyed /\ Placed
  BY DEF StoreInv
<1>2. PICK w, id : w = BoundTo[t] /\ id = request[t].id
  OBVIOUS
<1>3. PICK old : old = {s \in sources : s.space = Space(w) /\ s.id = id}
  OBVIOUS
<1>4. /\ sources' = (sources \ old) \cup
                      (IF old = {} THEN {[space |-> Space(w), id |-> id, workspace |-> w, baseline |-> None]}
                       ELSE {[s EXCEPT !.workspace = w] : s \in old})
      /\ backend' = backend
  BY <1>2, <1>3 DEF AddSource, Written
<1>5. CASE old = {}
  <2>1. PICK new : new = [space |-> Space(w), id |-> id, workspace |-> w, baseline |-> None]
    OBVIOUS
  <2>2. /\ sources' = sources \cup {new}
        /\ new.space = Space(w) /\ new.id = id /\ new.workspace = w
    BY <1>4, <1>5, <2>1
  <2>3. \A s \in sources : ~(s.space = Space(w) /\ s.id = id)
    BY <1>3, <1>5
  <2> QED BY <1>1, <1>4, <2>2, <2>3 DEF Keyed, Placed, SourcesKept
<1>6. CASE old # {}
  <2>1. PICK s \in sources : old = {s} /\ s.space = Space(w) /\ s.id = id
    BY <1>1, <1>3, <1>6 DEF Keyed
  <2>2. PICK new : new = [s EXCEPT !.workspace = w]
    OBVIOUS
  <2>3. new.space = Space(w) /\ new.id = id /\ new.workspace = w
    BY <1>1, <2>1, <2>2 DEF TypeOK, SourceRow
  <2>4. sources' = (sources \ {s}) \cup {new}
    BY <1>4, <2>1, <2>2
  <2>5. \A r \in sources \ {s} : ~(r.space = Space(w) /\ r.id = id)
    BY <1>1, <2>1 DEF Keyed
  <2> QED BY <1>1, <1>4, <2>1, <2>3, <2>4, <2>5 DEF Keyed, Placed, SourcesKept
<1> QED BY <1>5, <1>6

LEMMA KeptSources ==
  ASSUME StoreInv, SourcesKept
  PROVE  /\ Placed'
         /\ \A space, id : HasSource(space, id) => HasSource(space, id)'
  BY DEF SourcesKept, Placed, Space, HasSource

\* A step that changes sources only.
LEMMA StoreSources ==
  ASSUME StoreInv, NEW t \in Thread, Written(t), SourcesKept, TablesOK',
         UNCHANGED <<observations, candidates, attempts>>
  PROVE  StoreInv'
<1>1. Placed' /\ \A space, id : HasSource(space, id) => HasSource(space, id)'
  BY KeptSources
<1>2. Grows(t)
  BY <1>1 DEF Grows, HasObservation, HasCandidate, Unused, SourcesKept
<1>3. Keyed'
  BY DEF StoreInv, Keyed, SourcesKept
<1>4. Referring'
  BY <1>2 DEF StoreInv, Referring, Grows
<1>5. Numbered'
  BY DEF StoreInv, Numbered
<1> QED BY <1>1, <1>2, <1>3, <1>4, <1>5, StoreParts

LEMMA StoreAddSource ==
  ASSUME StoreInv, NEW t \in Thread, AddSource(t) PROVE StoreInv'
<1>1. TablesOK'
  BY AddSourceRows DEF StoreInv, Numbered
<1>2. SourcesKept
  BY AddSourceKept
<1> QED BY <1>1, <1>2, StoreSources DEF AddSource

LEMMA StorePromoteBaseline ==
  ASSUME StoreInv, NEW t \in Thread, PromoteBaseline(t) PROVE StoreInv'
<1>1. TablesOK'
  BY OtherRows DEF StoreInv, Numbered
<1>2. SourcesKept
  BY BaselinedKept DEF PromoteBaseline, Written, StoreInv
<1> QED BY <1>1, <1>2, StoreSources DEF PromoteBaseline

LEMMA StoreSaveObservation ==
  ASSUME StoreInv, NEW t \in Thread, SaveObservation(t) PROVE StoreInv'
<1>1. TypeOK /\ Keyed /\ Referring /\ Placed /\ Numbered /\ Written(t)
  BY DEF StoreInv, SaveObservation
<1>2. TablesOK'
  BY <1>1, SaveObservationRows DEF Numbered
<1>3. PICK w, id, o : w = Space(BoundTo[t]) /\ id = request[t].id /\ o = request[t].observation
  OBVIOUS
<1>4. HasSource(w, id) /\ Unused(o) /\ IsWriting(t, "save")
  BY <1>3 DEF StoreInv, Checked, SaveObservation
<1>5. backend' = backend
  BY DEF SaveObservation, Written
<1>6. SourcesKept
  <2>1. CASE sources' = sources
    BY <1>1, <1>5, <2>1, KeptUnchanged
  <2>2. CASE sources' = Baselined(BoundTo[t], request[t].id, request[t].observation)
    BY <1>1, <1>5, <2>2, BaselinedKept
  <2> QED BY <2>1, <2>2 DEF SaveObservation
<1>7. Placed' /\ \A space, source : HasSource(space, source) => HasSource(space, source)'
  BY <1>6, KeptSources
<1>8. PICK x : x = [space |-> w, id |-> o, source |-> id, values |-> TRUE]
  OBVIOUS
<1>9. observations' = observations \cup {x} /\ x.space = w /\ x.id = o /\ x.source = id
  BY <1>3, <1>8 DEF SaveObservation
<1>10. PICK c : c = [space |-> w, observation |-> o, source |-> id, state |-> "Pending",
                     created |-> Cardinality(candidates) + 1]
  OBVIOUS
<1>11. /\ candidates' = candidates \/ candidates' = candidates \cup {c}
       /\ c.space = w /\ c.observation = o /\ c.source = id /\ c.created = Cardinality(candidates) + 1
  BY <1>3, <1>10 DEF SaveObservation
<1>12. \A d \in candidates : d.observation # o
  BY <1>1, <1>4 DEF Referring, HasObservation, Unused
<1>13. attempts' = attempts
  BY DEF SaveObservation
<1>14. Grows(t)
  <2>1. \A space, source, a : HasObservation(space, source, a) => HasObservation(space, source, a)'
    BY <1>9 DEF HasObservation
  <2>2. \A space, a : HasCandidate(space, a) => HasCandidate(space, a)'
    BY <1>11 DEF HasCandidate
  <2>3. \A a : Unused(a) /\ ~Unused(a)' => a = o
    BY <1>9 DEF Unused
  <2> QED BY <1>3, <1>4, <1>5, <1>7, <2>1, <2>2, <2>3 DEF Grows
<1>15. Keyed'
  <2>1. \A s, r \in sources' : s.space = r.space /\ s.id = r.id => s = r
    BY <1>6 DEF SourcesKept
  <2>2. \A y, z \in observations' : y.id = z.id => y = z
    BY <1>1, <1>4, <1>9 DEF Keyed, Unused
  <2>3. \A d, e \in candidates' : d.observation = e.observation => d = e
    BY <1>1, <1>11, <1>12 DEF Keyed
  <2> QED BY <1>1, <1>13, <2>1, <2>2, <2>3 DEF Keyed
<1>16. Referring'
  <2>1. \A y \in observations' : HasSource(y.space, y.source)'
    BY <1>1, <1>4, <1>7, <1>9 DEF Referring
  <2>2. HasObservation(w, id, o)'
    BY <1>9 DEF HasObservation
  <2>3. \A d \in candidates' : HasObservation(d.space, d.source, d.observation)'
    BY <1>1, <1>11, <1>14, <2>2 DEF Referring, Grows
  <2>4. \A a \in attempts' : HasCandidate(a.space, a.candidate)'
    BY <1>1, <1>13, <1>14 DEF Referring, Grows
  <2> QED BY <2>1, <2>3, <2>4 DEF Referring
<1>17. Numbered'
  <2>1. Cardinality(candidates) \in Nat
    BY <1>1, FS_CardinalityType DEF Numbered
  <2>2. CASE candidates' = candidates
    BY <1>1, <2>2 DEF Numbered, SaveObservation
  <2>3. CASE candidates' = candidates \cup {c}
    <3>1. c \notin candidates
      BY <1>11, <1>12
    <3>2. IsFiniteSet(candidates') /\ Cardinality(candidates') = Cardinality(candidates) + 1
      BY <1>1, <2>3, <3>1, FS_AddElement DEF Numbered
    <3>3. \A d \in candidates : d.created \in Nat
      BY <1>1 DEF TypeOK, CandidateRow
    <3>4. \A d \in candidates : d.created <= Cardinality(candidates)
      BY <1>1 DEF Numbered
    <3>5. \A d \in candidates' : d.created <= Cardinality(candidates')
      BY <1>11, <2>1, <2>3, <3>2, <3>3, <3>4
    <3> QED BY <1>1, <3>2, <3>5 DEF Numbered, SaveObservation
  <2> QED BY <1>11, <2>2, <2>3
<1> QED BY <1>1, <1>2, <1>7, <1>14, <1>15, <1>16, <1>17, StoreParts

LEMMA StorePruneValues ==
  ASSUME StoreInv, NEW t \in Thread, PruneValues(t) PROVE StoreInv'
<1>1. TypeOK /\ Keyed /\ Referring /\ Placed /\ Numbered /\ Written(t) /\ backend' = backend
      /\ UNCHANGED <<sources, candidates, attempts>>
  BY DEF StoreInv, PruneValues, Written
<1>2. TablesOK'
  BY <1>1, OtherRows DEF Numbered
<1> DEFINE New(x) == IF x.space = Space(BoundTo[t]) /\ x.source = request[t].id /\ x.id \notin request[t].keep
                     THEN [x EXCEPT !.values = FALSE] ELSE x
<1>3. observations' = {New(x) : x \in observations}
  BY DEF PruneValues
<1>4. \A x \in observations : New(x).space = x.space /\ New(x).id = x.id /\ New(x).source = x.source
  BY <1>1 DEF TypeOK, ObservationRow
<1> HIDE DEF New
<1>5. \A y \in observations' : \E x \in observations : y = New(x)
  BY <1>3
<1>6. SourcesKept
  BY <1>1, KeptUnchanged
<1>7. Placed' /\ \A space, id : HasSource(space, id) => HasSource(space, id)'
  BY <1>6, KeptSources
<1>8. Grows(t)
  <2>1. \A space, id, o : HasObservation(space, id, o) => HasObservation(space, id, o)'
    BY <1>3, <1>4 DEF HasObservation
  <2>2. \A o : Unused(o) => Unused(o)'
    BY <1>4, <1>5 DEF Unused
  <2> QED BY <1>1, <1>7, <2>1, <2>2 DEF Grows, HasCandidate
<1>9. Keyed'
  <2>1. \A x, y \in observations' : x.id = y.id => x = y
    BY <1>1, <1>4, <1>5 DEF Keyed
  <2> QED BY <1>1, <2>1 DEF Keyed
<1>10. Referring'
  <2>1. \A y \in observations' : HasSource(y.space, y.source)'
    BY <1>1, <1>4, <1>5, <1>7 DEF Referring
  <2> QED BY <1>1, <1>8, <2>1 DEF Referring, Grows
<1>11. Numbered'
  BY <1>1 DEF Numbered
<1> QED BY <1>1, <1>2, <1>7, <1>8, <1>9, <1>10, <1>11, StoreParts

\* A decision changes no key and no number of a candidate.
LEMMA Decided ==
  ASSUME StoreInv, NEW t \in Thread, Decide(t)
  PROVE  /\ TablesOK' /\ Numbered'
         /\ \A c, d \in candidates' : c.observation = d.observation => c = d
         /\ \A c \in candidates : \E d \in candidates' :
               d.space = c.space /\ d.source = c.source /\ d.observation = c.observation
         /\ \A d \in candidates' : \E c \in candidates :
               d.space = c.space /\ d.source = c.source /\ d.observation = c.observation
<1>1. TypeOK /\ Keyed /\ Numbered
  BY DEF StoreInv
<1>2. request[t].state \in Decisions
  BY <1>1, PendingIsRequest, RequestHolds DEF Decide, IsWriting
<1> DEFINE New(c) == IF c.space = Space(BoundTo[t]) /\ c.observation = request[t].candidate
                     THEN [c EXCEPT !.state = request[t].state] ELSE c
           f == [c \in candidates |-> New(c)]
<1>3. candidates' = {New(c) : c \in candidates}
  BY DEF Decide
<1>4. ASSUME NEW c \in candidates
      PROVE  /\ New(c) \in CandidateRow
             /\ New(c).space = c.space /\ New(c).source = c.source
             /\ New(c).observation = c.observation /\ New(c).created = c.created
  BY <1>1, <1>2 DEF TypeOK, CandidateRow
<1> HIDE DEF New
<1>5. \A d \in candidates' : \E c \in candidates : d = New(c)
  BY <1>3
<1>6. \A c, d \in candidates : New(c) = New(d) => c = d
  BY <1>1, <1>4 DEF Keyed
<1>7. f \in Bijection(candidates, candidates')
  <2>1. f \in [candidates -> candidates']
    BY <1>3
  <2>2. \A d \in candidates' : \E c \in candidates : f[c] = d
    BY <1>5
  <2>3. \A c, d \in candidates : f[c] = f[d] => c = d
    BY <1>6
  <2>4. f \in Injection(candidates, candidates')
    BY <2>1, <2>3 DEF Injection, IsInjective
  <2>5. f \in Surjection(candidates, candidates')
    BY <2>1, <2>2 DEF Surjection
  <2> QED BY <2>4, <2>5 DEF Bijection
<1>8. IsFiniteSet(candidates') /\ Cardinality(candidates') = Cardinality(candidates)
  BY <1>1, <1>7, FS_Bijection DEF Numbered, ExistsBijection
<1>9. Numbered'
  BY <1>1, <1>4, <1>5, <1>8 DEF Numbered, Decide
<1>10. TablesOK'
  BY <1>1, <1>4, <1>5, <1>8 DEF TypeOK, TablesOK, Numbered, Decide
<1>11. \A c \in candidates : \E d \in candidates' :
         d.space = c.space /\ d.source = c.source /\ d.observation = c.observation
  BY <1>3, <1>4
<1>12. \A c, d \in candidates' : c.observation = d.observation => c = d
  BY <1>1, <1>4, <1>5 DEF Keyed
<1> QED BY <1>4, <1>5, <1>9, <1>10, <1>11, <1>12

LEMMA StoreDecide ==
  ASSUME StoreInv, NEW t \in Thread, Decide(t) PROVE StoreInv'
<1>1. TypeOK /\ Keyed /\ Referring /\ Placed /\ Written(t) /\ backend' = backend
      /\ UNCHANGED <<sources, observations, attempts>>
  BY DEF StoreInv, Decide, Written
<1>2. SourcesKept
  BY <1>1, KeptUnchanged
<1>3. Placed'
  BY <1>2, KeptSources
<1>4. Grows(t)
  <2>1. \A space, o : HasCandidate(space, o) => HasCandidate(space, o)'
    BY Decided DEF HasCandidate
  <2> QED BY <1>1, <2>1 DEF Grows, HasSource, HasObservation, Unused
<1>5. Keyed'
  BY <1>1, Decided DEF Keyed
<1>6. Referring'
  <2>1. \A d \in candidates' : HasObservation(d.space, d.source, d.observation)'
    BY <1>1, <1>4, Decided DEF Referring, Grows
  <2>2. \A x \in observations' : HasSource(x.space, x.source)'
    BY <1>1, <1>4 DEF Referring, Grows
  <2>3. \A a \in attempts' : HasCandidate(a.space, a.candidate)'
    BY <1>1, <1>4 DEF Referring, Grows
  <2> QED BY <2>1, <2>2, <2>3 DEF Referring
<1> QED BY <1>1, <1>3, <1>4, <1>5, <1>6, Decided, StoreParts

\* A step that changes attempts only.
LEMMA StoreAttempts ==
  ASSUME StoreInv, NEW t \in Thread, Written(t), TablesOK',
         UNCHANGED <<sources, observations, candidates>>,
         \A a, b \in attempts' : a.space = b.space /\ a.candidate = b.candidate => a = b,
         \A a \in attempts' : HasCandidate(a.space, a.candidate)
  PROVE  StoreInv'
<1>1. TypeOK /\ Keyed /\ Referring /\ Placed /\ Numbered /\ backend' = backend
  BY DEF StoreInv, Written
<1>2. SourcesKept
  BY <1>1, KeptUnchanged
<1>3. Placed'
  BY <1>2, KeptSources
<1>4. Grows(t)
  BY <1>1 DEF Grows, HasSource, HasObservation, HasCandidate, Unused
<1>5. Keyed'
  BY <1>1 DEF Keyed
<1>6. Referring'
  BY <1>1, <1>4 DEF Referring, Grows
<1>7. Numbered'
  BY <1>1 DEF Numbered, TablesOK
<1> QED BY <1>3, <1>4, <1>5, <1>6, <1>7, StoreParts

LEMMA StoreClaim ==
  ASSUME StoreInv, NEW t \in Thread, Claim(t) PROVE StoreInv'
<1>1. TypeOK /\ Keyed /\ Referring /\ Numbered /\ Written(t)
      /\ UNCHANGED <<sources, observations, candidates>>
  BY DEF StoreInv, Claim
<1>2. TablesOK'
  BY <1>1, OtherRows DEF Numbered
<1>3. HasCandidate(Space(BoundTo[t]), request[t].candidate)
  BY DEF StoreInv, Checked, Claim
<1>4. PICK new : new = [space |-> Space(BoundTo[t]), candidate |-> request[t].candidate,
                        state |-> "Prepared", created |-> Cardinality(attempts) + 1]
  OBVIOUS
<1>5. /\ new.space = Space(BoundTo[t]) /\ new.candidate = request[t].candidate
      /\ \/ attempts' = attempts
         \/ /\ attempts' = attempts \cup {new}
            /\ \A a \in attempts : ~(a.space = new.space /\ a.candidate = new.candidate)
  BY <1>4 DEF Claim
<1>6. \A a, b \in attempts' : a.space = b.space /\ a.candidate = b.candidate => a = b
  BY <1>1, <1>5 DEF Keyed
<1>7. \A a \in attempts' : HasCandidate(a.space, a.candidate)
  BY <1>1, <1>3, <1>5 DEF Referring
<1> QED BY <1>1, <1>2, <1>6, <1>7, StoreAttempts

LEMMA StoreSettle ==
  ASSUME StoreInv, NEW t \in Thread, Settle(t) \/ Reconcile(t) PROVE StoreInv'
<1>1. TypeOK /\ Keyed /\ Referring /\ Numbered /\ Written(t)
      /\ UNCHANGED <<sources, observations, candidates>>
  BY DEF StoreInv, Settle, Reconcile
<1>2. TablesOK'
  BY <1>1, OtherRows DEF Numbered
<1>3. /\ \A b \in attempts' : \E a \in attempts : b = SettledAs(t, a)
      /\ \A a \in attempts : /\ SettledAs(t, a).space = a.space
                             /\ SettledAs(t, a).candidate = a.candidate
  BY <1>1, Settled
<1>4. \A a, b \in attempts' : a.space = b.space /\ a.candidate = b.candidate => a = b
  BY <1>1, <1>3 DEF Keyed
<1>5. \A a \in attempts' : HasCandidate(a.space, a.candidate)
  BY <1>1, <1>3 DEF Referring
<1> QED BY <1>1, <1>2, <1>4, <1>5, StoreAttempts

\* What is checked is so, when the tables and the other requests stay.
LEMMA StoreCheck ==
  ASSUME StoreInv, NEW t \in Thread, Check(t) PROVE StoreInv'
<1>1. PICK q \in Request : Passes(t, q) /\ Own(BoundTo[t], q) /\ Fresh(t, q)
  BY CheckPasses DEF StoreInv
<1>2. /\ TypeOK' /\ UNCHANGED <<backend, tables>> /\ pc[t] = "idle" /\ request'[t] = q
      /\ \A u \in Thread \ {t} : pc'[u] = pc[u] /\ request'[u] = request[u]
  BY <1>1, PassesTypes DEF StoreInv
<1>3. Keyed' /\ Referring' /\ Placed' /\ Numbered'
  BY <1>2 DEF StoreInv, tables, Keyed, Referring, Placed, Numbered, HasSource, HasObservation,
     HasCandidate, Space
<1>4. /\ \A w : Space(w)' = Space(w)
      /\ \A o : Unused(o)' = Unused(o)
      /\ \A space, id : HasSource(space, id)' = HasSource(space, id)
      /\ \A space, o : HasCandidate(space, o)' = HasCandidate(space, o)
  BY <1>2 DEF tables, Space, Unused, HasSource, HasCandidate
<1>5. q.op = "save" => /\ HasSource(Space(BoundTo[t]), q.id) /\ Unused(q.observation)
                       /\ \A u \in Thread : IsWriting(u, "save") => request[u].observation # q.observation
  BY <1>1 DEF Own, Fresh, Owns, HasSource
<1>6. q.op = "claim" => HasCandidate(Space(BoundTo[t]), q.candidate)
  BY <1>1 DEF Own, CandidateOf, Shows, HasCandidate
<1>7. Checked(t)'
  BY <1>2, <1>4, <1>5, <1>6 DEF Checked, IsWriting
<1>8. ASSUME NEW u \in Thread \ {t} PROVE Checked(u)'
  <2>1. Checked(u)
    BY DEF StoreInv
  <2>2. q.op = "save" /\ IsWriting(u, "save") => q.observation # request[u].observation
    BY <1>5
  <2> QED BY <1>2, <1>4, <2>1, <2>2 DEF Checked, IsWriting
<1> QED BY <1>2, <1>3, <1>7, <1>8 DEF StoreInv

LEMMA StoreStep == StoreInv /\ [Next]_vars => StoreInv'
<1> SUFFICES ASSUME StoreInv, [Next]_vars PROVE StoreInv'
  OBVIOUS
<1>1. CASE UNCHANGED vars
  <2>1. Keyed' /\ Referring' /\ Placed' /\ Numbered'
    BY <1>1 DEF StoreInv, vars, tables, Keyed, Referring, Placed, Numbered, HasSource,
       HasObservation, HasCandidate, Space
  <2>2. TypeOK'
    BY <1>1 DEF StoreInv, vars, tables, TypeOK
  <2>3. \A t \in Thread : Checked(t)'
    BY <1>1 DEF StoreInv, vars, tables, Checked, IsWriting, HasSource, HasCandidate, Unused, Space
  <2> QED BY <2>1, <2>2, <2>3 DEF StoreInv
<1>2. ASSUME NEW t \in Thread, Check(t) PROVE StoreInv'
  BY <1>2, StoreCheck
<1>3. ASSUME NEW t \in Thread, Write(t) PROVE StoreInv'
  BY <1>3, StoreAddSource, StoreSaveObservation, StorePromoteBaseline, StorePruneValues, StoreDecide,
     StoreClaim, StoreSettle DEF Write
<1>4. ASSUME NEW t \in Thread, Abandon(t) PROVE StoreInv'
  <2>1. TypeOK /\ Keyed /\ Placed /\ Written(t) /\ UNCHANGED tables /\ Numbered
    BY <1>4 DEF StoreInv, Abandon
  <2>2. SourcesKept
    BY <2>1, KeptUnchanged DEF Written, tables
  <2>3. TablesOK'
    BY <2>1 DEF TypeOK, TablesOK, tables, Numbered
  <2> QED BY <2>1, <2>2, <2>3, StoreSources DEF tables
<1> QED BY <1>1, <1>2, <1>3, <1>4 DEF Next

LEMMA StoreAlways == Spec => []StoreInv
  BY StoreInit, StoreStep, PTL DEF Spec

\* The rows of every table, the pending requests and the threads are typed.
THEOREM TypeCorrect == Spec => []TypeOK
<1>1. StoreInv => TypeOK
  BY DEF StoreInv
<1> QED BY <1>1, StoreAlways, PTL

-----------------------------------------------------------------------------
(* Who owns what: a source keeps its workspace where the workspace is in    *)
(* the key, or where one thread at a time adds a given id.                  *)

OwnInv ==
  /\ SerialAdds \/ backend = "composite"
  /\ \A t \in Thread : pc[t] = "write" => Own(BoundTo[t], request[t])
  /\ \A t, u \in Thread : t # u /\ backend = "legacy" /\ IsWriting(t, "add") /\ IsWriting(u, "add") =>
       request[t].id # request[u].id

\* Where an id is not taken over, adding a source that is there changes nothing.
LEMMA AddSourceOwn ==
  ASSUME StoreInv, OwnInv, NEW t \in Thread, AddSource(t)
  PROVE  \/ sources' = sources
         \/ /\ \A s \in sources : ~(s.space = Space(BoundTo[t]) /\ s.id = request[t].id)
            /\ sources' = sources \cup {[space |-> Space(BoundTo[t]), id |-> request[t].id,
                                         workspace |-> BoundTo[t], baseline |-> None]}
<1>1. PICK w, id : w = BoundTo[t] /\ id = request[t].id
  OBVIOUS
<1>2. PICK old : old = {s \in sources : s.space = Space(w) /\ s.id = id}
  OBVIOUS
<1>3. sources' = (sources \ old) \cup
                 (IF old = {} THEN {[space |-> Space(w), id |-> id, workspace |-> w, baseline |-> None]}
                  ELSE {[s EXCEPT !.workspace = w] : s \in old})
  BY <1>1, <1>2 DEF AddSource
<1>4. \A s \in old : s \in sources /\ s.workspace = w
  BY <1>1, <1>2 DEF OwnInv, AddSource, IsWriting, Own
<1>5. \A s \in old : [s EXCEPT !.workspace = w] = s
  BY <1>4 DEF StoreInv, TypeOK, SourceRow
<1>6. CASE old = {}
  BY <1>1, <1>2, <1>3, <1>6
<1>7. CASE old # {}
  BY <1>3, <1>4, <1>5, <1>7
<1> QED BY <1>6, <1>7

\* Every source stays with its workspace; one that is new is the thread's.
OwnersKept(t) ==
  /\ backend' = backend
  /\ \A s \in sources : \E r \in sources' : r.space = s.space /\ r.id = s.id /\ r.workspace = s.workspace
  /\ \A r \in sources' :
       \/ \E s \in sources : r.space = s.space /\ r.id = s.id /\ r.workspace = s.workspace
       \/ /\ IsWriting(t, "add") /\ r.space = Space(BoundTo[t]) /\ r.id = request[t].id
          /\ r.workspace = BoundTo[t]
          /\ \A s \in sources : ~(s.space = r.space /\ s.id = r.id)

LEMMA OwnersStep ==
  ASSUME StoreInv, OwnInv, NEW t \in Thread, Write(t) \/ Abandon(t)
  PROVE  OwnersKept(t)
<1>1. TypeOK /\ Keyed /\ Placed
  BY DEF StoreInv
<1>2. ASSUME sources' = sources, backend' = backend PROVE OwnersKept(t)
  BY <1>2 DEF OwnersKept
<1>3. ASSUME NEW w, NEW id, NEW o, sources' = Baselined(w, id, o), backend' = backend
      PROVE  OwnersKept(t)
  BY <1>1, <1>3, BaselinedKept DEF OwnersKept
<1>4. ASSUME AddSource(t) PROVE OwnersKept(t)
  <2>1. PICK new : new = [space |-> Space(BoundTo[t]), id |-> request[t].id,
                          workspace |-> BoundTo[t], baseline |-> None]
    OBVIOUS
  <2>2. \/ sources' = sources
        \/ /\ \A s \in sources : ~(s.space = new.space /\ s.id = new.id)
           /\ sources' = sources \cup {new}
    BY <1>4, <2>1, AddSourceOwn
  <2>3. /\ new.space = Space(BoundTo[t]) /\ new.id = request[t].id /\ new.workspace = BoundTo[t]
        /\ backend' = backend /\ IsWriting(t, "add")
    BY <1>4, <2>1 DEF AddSource, Written
  <2> QED BY <2>2, <2>3 DEF OwnersKept
<1>5. ASSUME SaveObservation(t) PROVE OwnersKept(t)
  BY <1>2, <1>3, <1>5 DEF SaveObservation, Written
<1>6. ASSUME PromoteBaseline(t) PROVE OwnersKept(t)
  BY <1>3, <1>6 DEF PromoteBaseline, Written
<1>7. ASSUME PruneValues(t) \/ Decide(t) \/ Claim(t) \/ Settle(t) \/ Reconcile(t) \/ Abandon(t)
      PROVE  OwnersKept(t)
  BY <1>2, <1>7 DEF PruneValues, Decide, Claim, Settle, Reconcile, Abandon, Written, tables
<1> QED BY <1>4, <1>5, <1>6, <1>7 DEF Write

\* Observations and candidates stay, with their keys and their source.
LEMMA RowsStay ==
  ASSUME StoreInv, NEW t \in Thread, Write(t) \/ Abandon(t)
  PROVE  /\ \A x \in observations : \E y \in observations' :
              y.space = x.space /\ y.id = x.id /\ y.source = x.source
         /\ \A c \in candidates : \E d \in candidates' :
              d.space = c.space /\ d.source = c.source /\ d.observation = c.observation
<1>1. CASE AddSource(t) \/ PromoteBaseline(t) \/ Claim(t) \/ Settle(t) \/ Reconcile(t) \/ Abandon(t)
  BY <1>1 DEF AddSource, PromoteBaseline, Claim, Settle, Reconcile, Abandon, tables
<1>2. CASE SaveObservation(t)
  <2>1. observations \subseteq observations'
    BY <1>2 DEF SaveObservation
  <2>2. candidates \subseteq candidates'
    BY <1>2 DEF SaveObservation
  <2> QED BY <2>1, <2>2
<1>3. CASE PruneValues(t)
  <2>1. \A x \in observations : [x EXCEPT !.values = FALSE].space = x.space
          /\ [x EXCEPT !.values = FALSE].id = x.id /\ [x EXCEPT !.values = FALSE].source = x.source
    BY DEF StoreInv, TypeOK, ObservationRow
  <2>2. \A x \in observations : x \in observations' \/ [x EXCEPT !.values = FALSE] \in observations'
    BY <1>3 DEF PruneValues
  <2> QED BY <1>3, <2>1, <2>2 DEF PruneValues
<1>4. CASE Decide(t)
  BY <1>4, Decided DEF Decide
<1> QED BY <1>1, <1>2, <1>3, <1>4 DEF Write

LEMMA OwnWritten ==
  ASSUME StoreInv, OwnInv, NEW t \in Thread, Write(t) \/ Abandon(t) PROVE OwnInv'
<1>1. OwnersKept(t)
  BY OwnersStep
<1>2. Written(t)
  BY DEF Write, Abandon, AddSource, SaveObservation, PromoteBaseline, PruneValues, Decide, Claim,
     Settle, Reconcile
<1>3. /\ backend' = backend /\ pc'[t] = "idle" /\ \A w : Space(w)' = Space(w)
      /\ \A u \in Thread \ {t} : pc'[u] = pc[u] /\ request'[u] = request[u]
  BY <1>2, WrittenTypes DEF StoreInv, Space
<1>4. \A w, id : Owns(w, id) => Owns(w, id)'
  BY <1>1, <1>3 DEF OwnersKept, Owns
<1>5. \A w, o, id : ObservationOf(w, o, id) => ObservationOf(w, o, id)'
  BY <1>3, <1>4, RowsStay DEF ObservationOf, Shows
<1>6. \A w, c : CandidateOf(w, c) => CandidateOf(w, c)'
  BY <1>3, <1>4, RowsStay DEF CandidateOf, Shows
<1>7. ASSUME NEW u \in Thread, pc'[u] = "write" PROVE Own(BoundTo[u], request[u])'
  <2>1. u # t /\ pc[u] = "write" /\ request'[u] = request[u]
    BY <1>3, <1>7
  <2>2. Own(BoundTo[u], request[u])
    BY <2>1 DEF OwnInv
  <2>3. ASSUME request[u].op = "add", NEW r \in sources', r.space = Space(BoundTo[u]), r.id = request[u].id
        PROVE  r.workspace = BoundTo[u]
    <3>1. CASE \E s \in sources : r.space = s.space /\ r.id = s.id /\ r.workspace = s.workspace
      BY <2>2, <2>3, <3>1 DEF Own
    <3>2. CASE /\ IsWriting(t, "add") /\ r.space = Space(BoundTo[t]) /\ r.id = request[t].id
               /\ r.workspace = BoundTo[t]
      <4>1. backend # "legacy"
        BY <2>1, <2>3, <3>2 DEF OwnInv, IsWriting
      <4> QED BY <2>3, <3>2, <4>1 DEF Space
    <3> QED BY <1>1, <3>1, <3>2 DEF OwnersKept
  <2> QED BY <1>3, <1>4, <1>5, <1>6, <2>1, <2>2, <2>3 DEF Own
<1>8. \A u \in Thread : IsWriting(u, "add")' => IsWriting(u, "add") /\ request'[u] = request[u]
  BY <1>3 DEF IsWriting
<1> QED BY <1>3, <1>7, <1>8 DEF OwnInv

LEMMA OwnCheck ==
  ASSUME StoreInv, OwnInv, NEW t \in Thread, Check(t) PROVE OwnInv'
<1>1. PICK q \in Request : Passes(t, q) /\ Own(BoundTo[t], q) /\ Fresh(t, q)
  BY CheckPasses DEF StoreInv
<1>2. /\ UNCHANGED <<backend, tables>> /\ request'[t] = q
      /\ \A u \in Thread \ {t} : pc'[u] = pc[u] /\ request'[u] = request[u]
  BY <1>1, PassesTypes DEF StoreInv
<1>3. /\ \A w, id : Owns(w, id)' = Owns(w, id)
      /\ \A w, o, id : ObservationOf(w, o, id)' = ObservationOf(w, o, id)
      /\ \A w, c : CandidateOf(w, c)' = CandidateOf(w, c)
      /\ \A w : Space(w)' = Space(w)
      /\ sources' = sources /\ backend' = backend
  BY <1>2 DEF tables, Owns, Space, ObservationOf, CandidateOf, Shows
<1>4. \A w, p : Own(w, p) => Own(w, p)'
  BY <1>3 DEF Own
<1>5. ASSUME NEW u \in Thread, pc'[u] = "write" PROVE Own(BoundTo[u], request[u])'
  <2>1. Own(BoundTo[u], request'[u])
    BY <1>1, <1>2, <1>5 DEF OwnInv
  <2> QED BY <1>3, <2>1 DEF Own
<1>6. ASSUME NEW u \in Thread, NEW v \in Thread, u # v, backend = "legacy", IsWriting(u, "add")', IsWriting(v, "add")'
      PROVE  request'[u].id # request'[v].id
  <2>1. SerialAdds
    BY <1>6 DEF OwnInv
  <2> QED BY <1>1, <1>2, <1>6, <2>1 DEF OwnInv, IsWriting, Fresh
<1> QED BY <1>3, <1>5, <1>6 DEF OwnInv

LEMMA OwnStep == StoreInv /\ OwnInv /\ [Next]_vars => OwnInv'
<1> SUFFICES ASSUME StoreInv, OwnInv, [Next]_vars PROVE OwnInv'
  OBVIOUS
<1>1. CASE UNCHANGED vars
  <2>1. /\ UNCHANGED <<pc, request, backend, sources, observations, candidates>>
    BY <1>1 DEF vars
  <2> QED BY <2>1 DEF OwnInv, Own, IsWriting, Owns, Space, ObservationOf, CandidateOf, Shows
<1> QED BY <1>1, OwnWritten, OwnCheck DEF Next

LEMMA OwnInit == Init /\ (SerialAdds \/ backend = "composite") => OwnInv
  BY DEF Init, OwnInv, IsWriting

-----------------------------------------------------------------------------
(* What a workspace sees.                                                  *)

SeenSource(s) == [id |-> s.id, baseline |-> s.baseline]
SeenObservation(x) == [id |-> x.id, source |-> x.source, values |-> x.values]
SeenCandidate(c) == [observation |-> c.observation, source |-> c.source, state |-> c.state,
                     created |-> c.created]
SeenAttempt(a) == [candidate |-> a.candidate, state |-> a.state]

LEMMA Seen ==
  /\ \A w : SourcesOf(w) = {SeenSource(s) : s \in {x \in sources : x.workspace = w}}
  /\ \A w : ObservationsOf(w) = {SeenObservation(x) : x \in {y \in observations : Shows(w, y)}}
  /\ \A w : CandidatesOf(w) = {SeenCandidate(c) : c \in {d \in candidates : Shows(w, d)}}
  /\ \A w : AttemptsOf(w) = {SeenAttempt(a) : a \in {b \in attempts : b.space = Space(w)
                                                                      /\ CandidateOf(w, b.candidate)}}
  BY DEF SourcesOf, ObservationsOf, CandidatesOf, AttemptsOf, OwnCandidates, SeenSource,
     SeenObservation, SeenCandidate, SeenAttempt

LEMMA SeenNext ==
  /\ \A w : SourcesOf(w)' = {SeenSource(s) : s \in {x \in sources' : x.workspace = w}}
  /\ \A w : ObservationsOf(w)' = {SeenObservation(x) : x \in {y \in observations' : Shows(w, y)'}}
  /\ \A w : CandidatesOf(w)' = {SeenCandidate(c) : c \in {d \in candidates' : Shows(w, d)'}}
  /\ \A w : AttemptsOf(w)' = {SeenAttempt(a) : a \in {b \in attempts' : b.space = Space(w)'
                                                                        /\ CandidateOf(w, b.candidate)'}}
  BY DEF SourcesOf, ObservationsOf, CandidatesOf, AttemptsOf, OwnCandidates, SeenSource,
     SeenObservation, SeenCandidate, SeenAttempt

\* A row the store has is seen by the same workspaces after a step.
LEMMA ShowsSame ==
  ASSUME StoreInv, NEW t \in Thread, OwnersKept(t)
  PROVE  \A v, row : HasSource(row.space, row.source) => Shows(v, row)' = Shows(v, row)
<1> SUFFICES ASSUME NEW v, NEW row, HasSource(row.space, row.source)
             PROVE  Shows(v, row)' = Shows(v, row)
  OBVIOUS
<1>1. Space(v)' = Space(v)
  BY DEF OwnersKept, Space
<1>2. Shows(v, row) => Shows(v, row)'
  BY <1>1 DEF OwnersKept, Shows, Owns
<1>3. ASSUME Shows(v, row)' PROVE Shows(v, row)
  <2>1. row.space = Space(v)
    BY <1>1, <1>3 DEF Shows
  <2>2. PICK r \in sources' : r.space = Space(v) /\ r.id = row.source /\ r.workspace = v
    BY <1>1, <1>3 DEF Shows, Owns
  <2>3. PICK s \in sources : s.space = r.space /\ s.id = r.id
    BY <2>1, <2>2 DEF HasSource
  <2> QED BY <2>1, <2>2, <2>3 DEF OwnersKept, Shows, Owns
<1>4. Shows(v, row) \in BOOLEAN /\ Shows(v, row)' \in BOOLEAN
  BY DEF Shows
<1> QED BY <1>2, <1>3, <1>4

\* A row of a source is seen by the owner of the source and by no other.
LEMMA OneViewer ==
  ASSUME StoreInv, NEW w, NEW id, Owns(w, id)
  PROVE  \A v, row : row.space = Space(w) /\ row.source = id => (Shows(v, row) <=> v = w)
  BY DEF StoreInv, Keyed, Shows, Owns

\* Attempts stay in sight.
LEMMA CandidateSeen ==
  ASSUME StoreInv, NEW t \in Thread, OwnersKept(t),
         \A c \in candidates : \E d \in candidates' :
            d.space = c.space /\ d.source = c.source /\ d.observation = c.observation,
         \A d \in candidates' : (\E a \in attempts : a.candidate = d.observation) =>
            \E c \in candidates : d.space = c.space /\ d.source = c.source /\ d.observation = c.observation
  PROVE  \A v : \A a \in attempts : CandidateOf(v, a.candidate)' = CandidateOf(v, a.candidate)
<1> SUFFICES ASSUME NEW v, NEW a \in attempts
             PROVE  CandidateOf(v, a.candidate)' = CandidateOf(v, a.candidate)
  OBVIOUS
<1>1. \A c \in candidates : HasSource(c.space, c.source)
  BY DEF StoreInv, Referring, HasObservation, HasSource
<1>2. \A row : HasSource(row.space, row.source) => Shows(v, row)' = Shows(v, row)
  BY ShowsSame
<1>3. \A row, r : row.space = r.space /\ row.source = r.source => Shows(v, row) = Shows(v, r)
  BY DEF Shows
<1>4. CandidateOf(v, a.candidate) => CandidateOf(v, a.candidate)'
  <2>1. SUFFICES ASSUME NEW c \in candidates, c.observation = a.candidate, Shows(v, c)
                 PROVE  CandidateOf(v, a.candidate)'
    BY DEF CandidateOf
  <2>2. PICK d \in candidates' : d.space = c.space /\ d.source = c.source /\ d.observation = c.observation
    OBVIOUS
  <2>3. Shows(v, d) /\ Shows(v, d)' = Shows(v, d)
    BY <1>1, <1>2, <1>3, <2>1, <2>2
  <2> QED BY <2>1, <2>2, <2>3 DEF CandidateOf
<1>5. CandidateOf(v, a.candidate)' => CandidateOf(v, a.candidate)
  <2>1. SUFFICES ASSUME NEW d \in candidates', d.observation = a.candidate, Shows(v, d)'
                 PROVE  CandidateOf(v, a.candidate)
    BY DEF CandidateOf
  <2>2. PICK c \in candidates : d.space = c.space /\ d.source = c.source /\ d.observation = c.observation
    BY <2>1
  <2>3. Shows(v, c) /\ Shows(v, d)' = Shows(v, d)
    BY <1>1, <1>2, <1>3, <2>1, <2>2
  <2> QED BY <2>1, <2>2, <2>3 DEF CandidateOf
<1>6. CandidateOf(v, a.candidate) \in BOOLEAN /\ CandidateOf(v, a.candidate)' \in BOOLEAN
  BY DEF CandidateOf
<1> QED BY <1>4, <1>5, <1>6

\* A step that leaves a table leaves what every workspace sees of it.
LEMMA SeenSame ==
  ASSUME StoreInv, NEW t \in Thread, OwnersKept(t), NEW v
  PROVE  /\ sources' = sources => SourcesOf(v)' = SourcesOf(v)
         /\ observations' = observations => ObservationsOf(v)' = ObservationsOf(v)
         /\ candidates' = candidates => CandidatesOf(v)' = CandidatesOf(v)
         /\ candidates' = candidates /\ attempts' = attempts => AttemptsOf(v)' = AttemptsOf(v)
<1>1. /\ \A x \in observations : Shows(v, x)' = Shows(v, x)
      /\ \A c \in candidates : Shows(v, c)' = Shows(v, c)
  BY ShowsSame DEF StoreInv, Referring, HasObservation, HasSource
<1>2. Space(v)' = Space(v)
  BY DEF OwnersKept, Space
<1>3. sources' = sources => SourcesOf(v)' = SourcesOf(v)
  BY Seen, SeenNext
<1>4. observations' = observations => ObservationsOf(v)' = ObservationsOf(v)
  BY <1>1, Seen, SeenNext
<1>5. candidates' = candidates => CandidatesOf(v)' = CandidatesOf(v)
  BY <1>1, Seen, SeenNext
<1>6. ASSUME candidates' = candidates, attempts' = attempts PROVE AttemptsOf(v)' = AttemptsOf(v)
  <2>1. \A a \in attempts : CandidateOf(v, a.candidate)' = CandidateOf(v, a.candidate)
    BY <1>6, CandidateSeen
  <2> QED BY <1>2, <1>6, <2>1, Seen, SeenNext
<1> QED BY <1>3, <1>4, <1>5, <1>6

-----------------------------------------------------------------------------
(* Every step is a step of one private store, or a stutter.                *)

PrivateStep == Private!PrivateNext \/ \A v \in Workspace : PrivateTables(v)' = PrivateTables(v)

LEMMA PutIs ==
  ASSUME NEW w \in Workspace, NEW S, NEW O, NEW C, NEW A,
         \A v \in Workspace \ {w} : PrivateTables(v)' = PrivateTables(v),
         PrivateTables(w)' = [sources |-> S, observations |-> O, candidates |-> C, attempts |-> A]
  PROVE  Private!Put(w, [sources |-> S, observations |-> O, candidates |-> C, attempts |-> A])
<1>1. [v \in Workspace |-> PrivateTables(v)]' =
        [[v \in Workspace |-> PrivateTables(v)] EXCEPT
           ![w] = [sources |-> S, observations |-> O, candidates |-> C, attempts |-> A]]
  OBVIOUS
<1> QED BY <1>1 DEF Private!Put

LEMMA OthersSame ==
  ASSUME NEW v, SourcesOf(v)' = SourcesOf(v), ObservationsOf(v)' = ObservationsOf(v),
         CandidatesOf(v)' = CandidatesOf(v), AttemptsOf(v)' = AttemptsOf(v)
  PROVE  PrivateTables(v)' = PrivateTables(v)
  BY DEF PrivateTables

StoreOf == [w \in Workspace |-> PrivateTables(w)]

LEMMA StoreFields ==
  ASSUME NEW w \in Workspace
  PROVE  /\ StoreOf[w].sources = SourcesOf(w) /\ StoreOf[w].observations = ObservationsOf(w)
         /\ StoreOf[w].candidates = CandidatesOf(w) /\ StoreOf[w].attempts = AttemptsOf(w)
         /\ \A S : [StoreOf[w] EXCEPT !.sources = S] =
              [sources |-> S, observations |-> ObservationsOf(w), candidates |-> CandidatesOf(w),
               attempts |-> AttemptsOf(w)]
         /\ \A O : [StoreOf[w] EXCEPT !.observations = O] =
              [sources |-> SourcesOf(w), observations |-> O, candidates |-> CandidatesOf(w),
               attempts |-> AttemptsOf(w)]
         /\ \A C : [StoreOf[w] EXCEPT !.candidates = C] =
              [sources |-> SourcesOf(w), observations |-> ObservationsOf(w), candidates |-> C,
               attempts |-> AttemptsOf(w)]
         /\ \A A : [StoreOf[w] EXCEPT !.attempts = A] =
              [sources |-> SourcesOf(w), observations |-> ObservationsOf(w),
               candidates |-> CandidatesOf(w), attempts |-> A]
  BY DEF StoreOf, PrivateTables

\* The operations of the private store of w.
Acts(w) ==
  \/ \E id \in SourceId :
       \/ Private!AddSource(w, id)
       \/ \E o \in Observation, baselined \in BOOLEAN,
             raised \in {{}} \cup {{c.created} : c \in CandidatesOf(w)'} :
            Private!SaveObservation(w, id, o, raised, baselined)
       \/ \E o \in Observation : Private!PromoteBaseline(w, id, o)
       \/ \E keep \in SUBSET Observation : Private!PruneValues(w, id, keep)
  \/ \E c \in CandidatesOf(w) :
       \/ \E st \in {"Eligible", "Suppressed"} : Private!Decide(w, c, st)
       \/ Private!Claim(w, c)
  \/ \E a \in AttemptsOf(w), st \in {"Succeeded", "Failed"} : Private!Settle(w, a, st)

\* What happens in the store of w is a step, or it leaves that store too.
LEMMA ActsStep ==
  ASSUME NEW w \in Workspace, Acts(w), \A v \in Workspace \ {w} : PrivateTables(v)' = PrivateTables(v)
  PROVE  PrivateStep
<1>1. CASE PrivateTables(w)' = PrivateTables(w)
  BY <1>1 DEF PrivateStep
<1>2. CASE PrivateTables(w)' # PrivateTables(w)
  <2>1. /\ [v \in Workspace |-> PrivateTables(v)]'[w] = PrivateTables(w)'
        /\ [v \in Workspace |-> PrivateTables(v)][w] = PrivateTables(w)
        /\ PrivateTables(w)'.candidates = CandidatesOf(w)'
        /\ PrivateTables(w).candidates = CandidatesOf(w)
        /\ PrivateTables(w).attempts = AttemptsOf(w)
    BY DEF PrivateTables
  <2>2. w \in {v \in Workspace : [x \in Workspace |-> PrivateTables(x)]'[v]
                                   # [x \in Workspace |-> PrivateTables(x)][v]}
    BY <1>2, <2>1
  <2>3. Private!PrivateNext
    BY <2>1, <2>2 DEF Private!PrivateNext, Acts
  <2> QED BY <2>3 DEF PrivateStep
<1> QED BY <1>1, <1>2

LEMMA AddSourceStep ==
  ASSUME StoreInv, OwnInv, NEW t \in Thread, AddSource(t) PROVE PrivateStep
<1>1. TypeOK /\ OwnersKept(t) /\ UNCHANGED <<observations, candidates, attempts>>
  BY OwnersStep DEF StoreInv, AddSource, Write
<1>2. PICK w, id : w = BoundTo[t] /\ id = request[t].id
  OBVIOUS
<1>3. w \in Workspace /\ id \in SourceId
  BY <1>1, <1>2, PendingIsRequest, RequestHolds DEF AddSource, IsWriting
<1>4. PICK new : new = [space |-> Space(w), id |-> id, workspace |-> w, baseline |-> None]
  OBVIOUS
<1>5. \/ sources' = sources
      \/ /\ \A s \in sources : ~(s.space = Space(w) /\ s.id = id)
         /\ sources' = sources \cup {new}
  BY <1>2, <1>4, AddSourceOwn
<1>6. CASE sources' = sources
  BY <1>1, <1>6, SeenSame, OthersSame DEF PrivateStep
<1>7. CASE /\ \A s \in sources : ~(s.space = Space(w) /\ s.id = id)
           /\ sources' = sources \cup {new}
  <2>1. ASSUME NEW v \in Workspace
        PROVE  /\ ObservationsOf(v)' = ObservationsOf(v) /\ CandidatesOf(v)' = CandidatesOf(v)
               /\ AttemptsOf(v)' = AttemptsOf(v)
    BY <1>1, SeenSame
  <2>2. new.workspace = w /\ SeenSource(new) = [id |-> id, baseline |-> None]
    BY <1>4 DEF SeenSource
  <2>3. SourcesOf(w)' = SourcesOf(w) \cup {[id |-> id, baseline |-> None]}
    BY <1>7, <2>2, Seen, SeenNext
  <2>4. ASSUME NEW v \in Workspace \ {w} PROVE PrivateTables(v)' = PrivateTables(v)
    <3>1. SourcesOf(v)' = SourcesOf(v)
      BY <1>7, <2>2, <2>4, Seen, SeenNext
    <3> QED BY <2>1, <3>1, OthersSame
  <2>5. \A s \in SourcesOf(w) : s.id # id
    BY <1>7 DEF StoreInv, Placed, SourcesOf
  <2>6. PrivateTables(w)' = [sources |-> SourcesOf(w) \cup {[id |-> id, baseline |-> None]},
                             observations |-> ObservationsOf(w), candidates |-> CandidatesOf(w),
                             attempts |-> AttemptsOf(w)]
    BY <1>3, <2>1, <2>3 DEF PrivateTables
  <2>7. Private!Put(w, [sources |-> SourcesOf(w) \cup {[id |-> id, baseline |-> None]},
                        observations |-> ObservationsOf(w), candidates |-> CandidatesOf(w),
                        attempts |-> AttemptsOf(w)])
    BY <1>3, <2>4, <2>6, PutIs
  <2>8. Private!AddSource(w, id)
    BY <1>3, <2>5, <2>7 DEF Private!AddSource, PrivateTables
  <2> QED BY <1>3, <2>4, <2>8, ActsStep DEF Acts
<1> QED BY <1>5, <1>6, <1>7

\* A baseline is set in the eyes of the source's workspace only.
LEMMA BaselinedSeen ==
  ASSUME StoreInv, NEW w \in Workspace, NEW id, NEW o, Owns(w, id), sources' = Baselined(w, id, o)
  PROVE  /\ SourcesOf(w)' = {IF s.id = id THEN [s EXCEPT !.baseline = o] ELSE s : s \in SourcesOf(w)}
         /\ \A v \in Workspace \ {w} : SourcesOf(v)' = SourcesOf(v)
<1> DEFINE New(s) == IF s.space = Space(w) /\ s.id = id THEN [s EXCEPT !.baseline = o] ELSE s
           View(s) == IF s.id = id THEN [s EXCEPT !.baseline = o] ELSE s
<1>1. sources' = {New(s) : s \in sources}
  BY DEF Baselined
<1>2. ASSUME NEW s \in sources, s.space = Space(w), s.id = id PROVE s.workspace = w
  BY <1>2 DEF StoreInv, Keyed, Owns
<1>3. \A s \in sources : s.workspace = w => s.space = Space(w)
  BY DEF StoreInv, Placed
<1>4. ASSUME NEW s \in sources PROVE New(s).workspace = s.workspace
  BY DEF StoreInv, TypeOK, SourceRow
<1>5. ASSUME NEW s \in sources, s.workspace = w PROVE SeenSource(New(s)) = View(SeenSource(s))
  BY <1>3, <1>5 DEF SeenSource, StoreInv, TypeOK, SourceRow
<1>6. ASSUME NEW s \in sources, s.workspace # w PROVE New(s) = s
  BY <1>2, <1>6
<1> HIDE DEF New
<1>7. SourcesOf(w)' = {View(s) : s \in SourcesOf(w)}
  <2> HIDE DEF View
  <2>1. ASSUME NEW s \in sources, s.workspace = w
        PROVE  View(SeenSource(s)) \in SourcesOf(w)'
    BY <1>1, <1>4, <1>5, <2>1, SeenNext
  <2>2. ASSUME NEW r \in sources', r.workspace = w
        PROVE  \E s \in sources : s.workspace = w /\ SeenSource(r) = View(SeenSource(s))
    BY <1>1, <1>4, <1>5, <2>2
  <2> QED BY <2>1, <2>2, Seen, SeenNext
<1>8. ASSUME NEW v \in Workspace \ {w} PROVE SourcesOf(v)' = SourcesOf(v)
  <2>1. {s \in sources' : s.workspace = v} = {s \in sources : s.workspace = v}
    BY <1>1, <1>4, <1>6
  <2> QED BY <2>1, Seen, SeenNext
<1> QED BY <1>7, <1>8

LEMMA PromoteBaselineStep ==
  ASSUME StoreInv, OwnInv, NEW t \in Thread, PromoteBaseline(t) PROVE PrivateStep
<1>1. TypeOK /\ OwnersKept(t) /\ UNCHANGED <<observations, candidates, attempts>>
  BY OwnersStep DEF StoreInv, PromoteBaseline, Write
<1>2. PICK w, id, o : w = BoundTo[t] /\ id = request[t].id /\ o = request[t].observation
  OBVIOUS
<1>3. w \in Workspace /\ id \in SourceId /\ o \in Observation
  BY <1>1, <1>2, PendingIsRequest, RequestHolds DEF PromoteBaseline, IsWriting
<1>4. ObservationOf(w, o, id) /\ sources' = Baselined(w, id, o)
  BY <1>2 DEF OwnInv, Own, PromoteBaseline, IsWriting
<1>5. Owns(w, id)
  BY <1>4 DEF ObservationOf, Shows
<1>6. ASSUME NEW v \in Workspace
      PROVE  /\ ObservationsOf(v)' = ObservationsOf(v) /\ CandidatesOf(v)' = CandidatesOf(v)
             /\ AttemptsOf(v)' = AttemptsOf(v)
  BY <1>1, SeenSame
<1>7. PICK S : S = {IF s.id = id THEN [s EXCEPT !.baseline = o] ELSE s : s \in SourcesOf(w)}
  OBVIOUS
<1>8. SourcesOf(w)' = S /\ \A v \in Workspace \ {w} : SourcesOf(v)' = SourcesOf(v)
  BY <1>3, <1>4, <1>5, <1>7, BaselinedSeen
<1>9. \A v \in Workspace \ {w} : PrivateTables(v)' = PrivateTables(v)
  BY <1>6, <1>8, OthersSame
<1>10. PrivateTables(w)' = [sources |-> S, observations |-> ObservationsOf(w),
                            candidates |-> CandidatesOf(w), attempts |-> AttemptsOf(w)]
  BY <1>3, <1>6, <1>8 DEF PrivateTables
<1>11. Private!Put(w, [sources |-> S, observations |-> ObservationsOf(w),
                       candidates |-> CandidatesOf(w), attempts |-> AttemptsOf(w)])
  BY <1>3, <1>9, <1>10, PutIs
<1>12. \E x \in ObservationsOf(w) : x.id = o /\ x.source = id
  <2>1. PICK x \in observations : x.id = o /\ x.source = id /\ Shows(w, x)
    BY <1>4 DEF ObservationOf
  <2>2. SeenObservation(x) \in ObservationsOf(w)
    BY <2>1, Seen
  <2> QED BY <2>1, <2>2 DEF SeenObservation
<1>13. Private!PromoteBaseline(w, id, o)
  <2>1. /\ StoreOf[w].sources = SourcesOf(w) /\ StoreOf[w].observations = ObservationsOf(w)
        /\ [StoreOf[w] EXCEPT !.sources = S] = [sources |-> S, observations |-> ObservationsOf(w),
              candidates |-> CandidatesOf(w), attempts |-> AttemptsOf(w)]
    BY <1>3, StoreFields
  <2>2. S = {IF s.id = id THEN [s EXCEPT !.baseline = o] ELSE s : s \in StoreOf[w].sources}
    BY <1>7, <2>1
  <2> QED BY <1>11, <1>12, <2>1, <2>2 DEF Private!PromoteBaseline, StoreOf
<1> QED BY <1>3, <1>9, <1>13, ActsStep DEF Acts

LEMMA PruneValuesStep ==
  ASSUME StoreInv, OwnInv, NEW t \in Thread, PruneValues(t) PROVE PrivateStep
<1>1. TypeOK /\ OwnersKept(t) /\ UNCHANGED <<sources, candidates, attempts>>
  BY OwnersStep DEF StoreInv, PruneValues, Write
<1>2. PICK w, space, id, keep : /\ w = BoundTo[t] /\ space = Space(w)
                                /\ id = request[t].id /\ keep = request[t].keep
  OBVIOUS
<1>3. w \in Workspace /\ id \in SourceId /\ keep \in SUBSET Observation
  BY <1>1, <1>2, PendingIsRequest, RequestHolds DEF PruneValues, IsWriting
<1>4. Owns(w, id)
  BY <1>2 DEF OwnInv, Own, PruneValues, IsWriting
<1> DEFINE New(x) == IF x.space = space /\ x.source = id /\ x.id \notin keep
                     THEN [x EXCEPT !.values = FALSE] ELSE x
           View(x) == IF x.source = id /\ x.id \notin keep THEN [x EXCEPT !.values = FALSE] ELSE x
<1>5. observations' = {New(x) : x \in observations}
  BY <1>2 DEF PruneValues
<1>6. ASSUME NEW x \in observations
      PROVE  New(x).space = x.space /\ New(x).source = x.source
  BY <1>1 DEF TypeOK, ObservationRow
<1>7. \A v : \A x \in observations : Shows(v, New(x))' = Shows(v, x)
  <2>1. \A x \in observations : HasSource(x.space, x.source) /\ HasSource(New(x).space, New(x).source)
    BY <1>6 DEF StoreInv, Referring
  <2>2. \A v : \A x \in observations : Shows(v, New(x)) = Shows(v, x)
    BY <1>6 DEF Shows
  <2> HIDE DEF New
  <2>3. ASSUME NEW v, NEW x \in observations PROVE Shows(v, New(x))' = Shows(v, x)
    <3>1. Shows(v, New(x))' = Shows(v, New(x))
      BY <1>1, <2>1, ShowsSame
    <3> QED BY <2>2, <3>1
  <2> QED BY <2>3
<1>8. ASSUME NEW x \in observations, Shows(w, x) PROVE SeenObservation(New(x)) = View(SeenObservation(x))
  BY <1>1, <1>2, <1>8 DEF SeenObservation, Shows, TypeOK, ObservationRow
<1>9. ASSUME NEW v \in Workspace \ {w}, NEW x \in observations, Shows(v, x) PROVE New(x) = x
  BY <1>2, <1>4, <1>9, OneViewer
<1> HIDE DEF New
<1>10. PICK O : O = {View(x) : x \in ObservationsOf(w)}
  OBVIOUS
<1>11. ObservationsOf(w)' = O
  <2> HIDE DEF View
  <2>1. ASSUME NEW x \in observations, Shows(w, x) PROVE View(SeenObservation(x)) \in ObservationsOf(w)'
    BY <1>5, <1>7, <1>8, <2>1, SeenNext
  <2>2. ASSUME NEW y \in observations', Shows(w, y)'
        PROVE  \E x \in observations : Shows(w, x) /\ SeenObservation(y) = View(SeenObservation(x))
    BY <1>5, <1>7, <1>8, <2>2
  <2> QED BY <1>10, <2>1, <2>2, Seen, SeenNext
<1>12. ASSUME NEW v \in Workspace \ {w} PROVE ObservationsOf(v)' = ObservationsOf(v)
  <2>1. ASSUME NEW x \in observations, Shows(v, x) PROVE x \in observations' /\ Shows(v, x)'
    BY <1>5, <1>7, <1>9, <2>1
  <2>2. ASSUME NEW y \in observations', Shows(v, y)' PROVE y \in observations /\ Shows(v, y)
    BY <1>5, <1>7, <1>9, <2>2
  <2>3. {y \in observations' : Shows(v, y)'} = {x \in observations : Shows(v, x)}
    BY <2>1, <2>2
  <2> QED BY <2>3, Seen, SeenNext
<1>13. ASSUME NEW v \in Workspace
       PROVE  /\ SourcesOf(v)' = SourcesOf(v) /\ CandidatesOf(v)' = CandidatesOf(v)
              /\ AttemptsOf(v)' = AttemptsOf(v)
  BY <1>1, SeenSame
<1>14. \A v \in Workspace \ {w} : PrivateTables(v)' = PrivateTables(v)
  BY <1>12, <1>13, OthersSame
<1>15. PrivateTables(w)' = [sources |-> SourcesOf(w), observations |-> O,
                            candidates |-> CandidatesOf(w), attempts |-> AttemptsOf(w)]
  BY <1>3, <1>11, <1>13 DEF PrivateTables
<1>16. Private!Put(w, [sources |-> SourcesOf(w), observations |-> O,
                       candidates |-> CandidatesOf(w), attempts |-> AttemptsOf(w)])
  BY <1>3, <1>14, <1>15, PutIs
<1>17. Private!PruneValues(w, id, keep)
  <2>1. /\ StoreOf[w].observations = ObservationsOf(w)
        /\ [StoreOf[w] EXCEPT !.observations = O] = [sources |-> SourcesOf(w), observations |-> O,
              candidates |-> CandidatesOf(w), attempts |-> AttemptsOf(w)]
    BY <1>3, StoreFields
  <2>2. O = {IF x.source = id /\ x.id \notin keep THEN [x EXCEPT !.values = FALSE] ELSE x
               : x \in StoreOf[w].observations}
    BY <1>10, <2>1
  <2> QED BY <1>16, <2>1, <2>2 DEF Private!PruneValues, StoreOf
<1> QED BY <1>3, <1>14, <1>17, ActsStep DEF Acts

LEMMA SaveObservationStep ==
  ASSUME StoreInv, OwnInv, NEW t \in Thread, SaveObservation(t) PROVE PrivateStep
<1>1. TypeOK /\ Referring /\ Numbered /\ OwnersKept(t) /\ UNCHANGED attempts
  BY OwnersStep DEF StoreInv, SaveObservation, Write
<1>2. PICK w, space, id, o, b : /\ w = BoundTo[t] /\ space = Space(w) /\ id = request[t].id
                                /\ o = request[t].observation /\ b = request[t].baselined
  OBVIOUS
<1>3. w \in Workspace /\ id \in SourceId /\ o \in Observation /\ b \in BOOLEAN
  BY <1>1, <1>2, PendingIsRequest, RequestHolds DEF SaveObservation, IsWriting
<1>4. Owns(w, id) /\ Unused(o)
  BY <1>2 DEF OwnInv, Own, StoreInv, Checked, SaveObservation, IsWriting
<1>5. PICK x : x = [space |-> space, id |-> o, source |-> id, values |-> TRUE]
  OBVIOUS
<1>6. PICK c : c = [space |-> space, observation |-> o, source |-> id, state |-> "Pending",
                    created |-> Cardinality(candidates) + 1]
  OBVIOUS
<1>7. /\ observations' = observations \cup {x}
      /\ candidates' = candidates \/ candidates' = candidates \cup {c}
      /\ sources' = IF b THEN Baselined(w, id, o) ELSE sources
  BY <1>2, <1>5, <1>6 DEF SaveObservation
<1>8. /\ x.space = space /\ x.source = id
      /\ SeenObservation(x) = [id |-> o, source |-> id, values |-> TRUE]
      /\ c.space = space /\ c.source = id /\ c.observation = o
      /\ SeenCandidate(c) = [observation |-> o, source |-> id, state |-> "Pending",
                             created |-> Cardinality(candidates) + 1]
  BY <1>5, <1>6 DEF SeenObservation, SeenCandidate
<1>9. ASSUME NEW v \in Workspace
      PROVE  /\ Shows(v, x)' <=> v = w
             /\ Shows(v, c)' <=> v = w
             /\ \A y \in observations : Shows(v, y)' = Shows(v, y)
             /\ \A d \in candidates : Shows(v, d)' = Shows(v, d)
  <2>1. HasSource(x.space, x.source) /\ HasSource(c.space, c.source)
    BY <1>2, <1>4, <1>8 DEF Owns, HasSource
  <2>2. (Shows(v, x) <=> v = w) /\ (Shows(v, c) <=> v = w)
    BY <1>2, <1>4, <1>8, OneViewer
  <2>3. Shows(v, x)' = Shows(v, x) /\ Shows(v, c)' = Shows(v, c)
    BY <1>1, <2>1, ShowsSame
  <2>4. /\ \A y \in observations : HasSource(y.space, y.source)
        /\ \A d \in candidates : HasSource(d.space, d.source)
    BY <1>1 DEF Referring, HasObservation, HasSource
  <2> QED BY <1>1, <2>2, <2>3, <2>4, ShowsSame
<1>10. PICK S : S = {IF s.id = id /\ b THEN [s EXCEPT !.baseline = o] ELSE s : s \in SourcesOf(w)}
  OBVIOUS
<1>11. SourcesOf(w)' = S /\ \A v \in Workspace \ {w} : SourcesOf(v)' = SourcesOf(v)
  <2>1. CASE b
    BY <1>3, <1>4, <1>7, <1>10, <2>1, BaselinedSeen
  <2>2. CASE ~b
    <3>1. S = SourcesOf(w)
      BY <1>10, <2>2
    <3> QED BY <1>1, <1>7, <2>2, <3>1, SeenSame
  <2> QED BY <1>3, <2>1, <2>2
<1>12. PICK O : O = ObservationsOf(w) \cup {[id |-> o, source |-> id, values |-> TRUE]}
  OBVIOUS
<1>13. ObservationsOf(w)' = O /\ \A v \in Workspace \ {w} : ObservationsOf(v)' = ObservationsOf(v)
  <2>1. observations' = observations \cup {x} /\ O = ObservationsOf(w) \cup {SeenObservation(x)}
    BY <1>7, <1>8, <1>12
  <2>2. ObservationsOf(w)' = O
    BY <1>3, <1>9, <2>1, Seen, SeenNext
  <2>3. ASSUME NEW v \in Workspace \ {w} PROVE ObservationsOf(v)' = ObservationsOf(v)
    BY <1>9, <2>1, Seen, SeenNext
  <2> QED BY <2>2, <2>3
<1>14. PICK raised : /\ raised \in {{}, {Cardinality(candidates) + 1}}
                     /\ candidates' = IF raised = {} THEN candidates ELSE candidates \cup {c}
  BY <1>7
<1>15. PICK C : C = CandidatesOf(w) \cup {[observation |-> o, source |-> id, state |-> "Pending",
                                           created |-> created] : created \in raised}
  OBVIOUS
<1>16. CandidatesOf(w)' = C /\ \A v \in Workspace \ {w} : CandidatesOf(v)' = CandidatesOf(v)
  <2>1. CASE raised = {}
    BY <1>1, <1>3, <1>14, <1>15, <2>1, SeenSame
  <2>2. CASE raised = {Cardinality(candidates) + 1}
    <3>1. candidates' = candidates \cup {c} /\ C = CandidatesOf(w) \cup {SeenCandidate(c)}
      BY <1>8, <1>14, <1>15, <2>2
    <3> QED BY <1>3, <1>9, <3>1, Seen, SeenNext
  <2> QED BY <1>14, <2>1, <2>2
<1>17. ASSUME NEW v \in Workspace PROVE AttemptsOf(v)' = AttemptsOf(v)
  <2>1. \A d \in candidates : d.observation # o
    BY <1>1, <1>4 DEF Referring, HasObservation, Unused
  <2>2. \A a \in attempts : a.candidate # o
    BY <1>1, <2>1 DEF Referring, HasCandidate
  <2>3. \A a \in attempts : CandidateOf(v, a.candidate)' = CandidateOf(v, a.candidate)
    BY <1>1, <1>7, <1>8, <2>2, CandidateSeen
  <2>4. Space(v)' = Space(v)
    BY <1>1 DEF OwnersKept, Space
  <2> QED BY <1>1, <2>3, <2>4, Seen, SeenNext
<1>18. \A v \in Workspace \ {w} : PrivateTables(v)' = PrivateTables(v)
  BY <1>11, <1>13, <1>16, <1>17, OthersSame
<1>19. PrivateTables(w)' = [sources |-> S, observations |-> O, candidates |-> C,
                            attempts |-> AttemptsOf(w)]
  BY <1>3, <1>11, <1>13, <1>16, <1>17 DEF PrivateTables
<1>20. Private!Put(w, [sources |-> S, observations |-> O, candidates |-> C, attempts |-> AttemptsOf(w)])
  BY <1>3, <1>18, <1>19, PutIs
<1>21. /\ \E s \in SourcesOf(w) : s.id = id
       /\ \A y \in ObservationsOf(w) : y.id # o
       /\ \A created \in raised : \A d \in CandidatesOf(w) : d.created < created
  <2>1. \E s \in SourcesOf(w) : s.id = id
    <3>1. PICK s \in sources : s.id = id /\ s.workspace = w
      BY <1>4 DEF Owns
    <3>2. SeenSource(s) \in SourcesOf(w)
      BY <3>1, Seen
    <3> QED BY <3>1, <3>2 DEF SeenSource
  <2>2. \A y \in ObservationsOf(w) : y.id # o
    BY <1>4 DEF Unused, ObservationsOf
  <2>3. /\ \A d \in candidates : d.created \in Nat /\ d.created <= Cardinality(candidates)
        /\ Cardinality(candidates) \in Nat
    BY <1>1, FS_CardinalityType DEF Numbered, TypeOK, CandidateRow
  <2>4. ASSUME NEW d \in CandidatesOf(w) PROVE d.created < Cardinality(candidates) + 1
    <3>1. PICK e \in candidates : d = SeenCandidate(e)
      BY Seen
    <3> QED BY <2>3, <3>1 DEF SeenCandidate
  <2> QED BY <1>14, <2>1, <2>2, <2>4
<1>22. Private!SaveObservation(w, id, o, raised, b)
  <2>1. /\ StoreOf[w].sources = SourcesOf(w) /\ StoreOf[w].observations = ObservationsOf(w)
        /\ StoreOf[w].candidates = CandidatesOf(w)
    BY <1>3, StoreFields
  <2>2. /\ S = {IF s.id = id /\ b THEN [s EXCEPT !.baseline = o] ELSE s : s \in StoreOf[w].sources}
        /\ O = StoreOf[w].observations \cup {[id |-> o, source |-> id, values |-> TRUE]}
        /\ C = StoreOf[w].candidates \cup {[observation |-> o, source |-> id, state |-> "Pending",
                                            created |-> created] : created \in raised}
    BY <1>10, <1>12, <1>15, <2>1
  <2>3. [StoreOf[w] EXCEPT !.observations = O, !.candidates = C, !.sources = S] =
          [sources |-> S, observations |-> O, candidates |-> C, attempts |-> AttemptsOf(w)]
    <3>1. StoreOf[w] = [sources |-> SourcesOf(w), observations |-> ObservationsOf(w),
                        candidates |-> CandidatesOf(w), attempts |-> AttemptsOf(w)]
      BY <1>3 DEF StoreOf, PrivateTables
    <3>2. PICK r : r = [StoreOf[w] EXCEPT !.observations = O, !.candidates = C, !.sources = S]
      OBVIOUS
    <3>3. /\ DOMAIN r = {"sources", "observations", "candidates", "attempts"}
          /\ r = [f \in DOMAIN r |-> r[f]]
      BY <3>1, <3>2
    <3>4. r.sources = S /\ r.observations = O /\ r.candidates = C /\ r.attempts = AttemptsOf(w)
      BY <3>1, <3>2
    <3> QED BY <3>2, <3>3, <3>4
  <2>4. /\ \E s \in StoreOf[w].sources : s.id = id
        /\ \A y \in StoreOf[w].observations : y.id # o
        /\ \A created \in raised : \A d \in StoreOf[w].candidates : d.created < created
    BY <1>21, <2>1
  <2>5. Private!Put(w, [StoreOf[w] EXCEPT !.observations = O, !.candidates = C, !.sources = S])
    BY <1>20, <2>3
  <2> QED BY <2>2, <2>4, <2>5 DEF Private!SaveObservation, StoreOf
<1>23. raised \in {{}} \cup {{d.created} : d \in CandidatesOf(w)'}
  <2>1. CASE raised = {Cardinality(candidates) + 1}
    <3>1. SeenCandidate(c) \in CandidatesOf(w)' /\ SeenCandidate(c).created = Cardinality(candidates) + 1
      BY <1>8, <1>15, <1>16, <2>1
    <3> QED BY <2>1, <3>1
  <2> QED BY <1>14, <2>1
<1> QED BY <1>3, <1>18, <1>22, <1>23, ActsStep DEF Acts

LEMMA DecideStep ==
  ASSUME StoreInv, OwnInv, NEW t \in Thread, Decide(t) PROVE PrivateStep
<1>1. TypeOK /\ Keyed /\ Referring /\ OwnersKept(t) /\ UNCHANGED <<sources, observations, attempts>>
  BY OwnersStep DEF StoreInv, Decide, Write
<1>2. PICK w, space, k, st : /\ w = BoundTo[t] /\ space = Space(w)
                             /\ k = request[t].candidate /\ st = request[t].state
  OBVIOUS
<1>3. w \in Workspace /\ st \in {"Eligible", "Suppressed"}
  BY <1>1, <1>2, PendingIsRequest, RequestHolds DEF Decide, IsWriting
<1>4. CandidateOf(w, k)
  BY <1>2 DEF OwnInv, Own, Decide, IsWriting
<1>5. PICK c \in candidates : c.observation = k /\ Shows(w, c)
  BY <1>4 DEF CandidateOf
<1>6. c.space = space /\ \A d \in candidates : d.observation = k => d = c
  BY <1>1, <1>2, <1>5 DEF Shows, Keyed
<1>7. PICK n : n = [c EXCEPT !.state = st]
  OBVIOUS
<1>8. candidates' = (candidates \ {c}) \cup {n}
  <2>1. candidates' = {IF d.space = space /\ d.observation = k THEN [d EXCEPT !.state = st] ELSE d
                         : d \in candidates}
    BY <1>2 DEF Decide
  <2>2. \A d \in candidates : (d.space = space /\ d.observation = k) = (d = c)
    BY <1>5, <1>6
  <2>3. candidates' = {IF d = c THEN n ELSE d : d \in candidates}
    BY <1>7, <2>1, <2>2
  <2> QED BY <2>3
<1>9. /\ n.space = c.space /\ n.source = c.source /\ n.observation = c.observation
      /\ SeenCandidate(n) = [SeenCandidate(c) EXCEPT !.state = st]
  BY <1>1, <1>7 DEF TypeOK, CandidateRow, SeenCandidate
<1>10. ASSUME NEW v \in Workspace
       PROVE  /\ Shows(v, n)' <=> v = w
              /\ Shows(v, c) <=> v = w
              /\ \A d \in candidates : Shows(v, d)' = Shows(v, d)
  <2>1. Owns(w, c.source) /\ c.space = Space(w)
    BY <1>5 DEF Shows
  <2>2. (Shows(v, n) <=> v = w) /\ (Shows(v, c) <=> v = w)
    BY <1>9, <2>1, OneViewer
  <2>3. \A d \in candidates : HasSource(d.space, d.source)
    BY <1>1 DEF Referring, HasObservation, HasSource
  <2>4. Shows(v, n)' = Shows(v, n)
    BY <1>1, <1>5, <1>9, <2>3, ShowsSame
  <2> QED BY <1>1, <2>2, <2>3, <2>4, ShowsSame
<1>11. \A d \in candidates : SeenCandidate(d) = SeenCandidate(c) => d = c
  BY <1>5, <1>6 DEF SeenCandidate
<1>12. PICK C : C = (CandidatesOf(w) \ {SeenCandidate(c)}) \cup {[SeenCandidate(c) EXCEPT !.state = st]}
  OBVIOUS
<1>13. CandidatesOf(w)' = C
  <2>1. C = (CandidatesOf(w) \ {SeenCandidate(c)}) \cup {SeenCandidate(n)}
    BY <1>9, <1>12
  <2>2. {d \in candidates' : Shows(w, d)'} = ({d \in candidates : Shows(w, d)} \ {c}) \cup {n}
    BY <1>3, <1>8, <1>10
  <2>3. {SeenCandidate(d) : d \in {e \in candidates : Shows(w, e)} \ {c}} =
          CandidatesOf(w) \ {SeenCandidate(c)}
    BY <1>11, Seen
  <2> QED BY <2>1, <2>2, <2>3, SeenNext
<1>14. ASSUME NEW v \in Workspace \ {w} PROVE CandidatesOf(v)' = CandidatesOf(v)
  <2>1. {d \in candidates' : Shows(v, d)'} = {d \in candidates : Shows(v, d)}
    BY <1>8, <1>10
  <2> QED BY <2>1, Seen, SeenNext
<1>15. ASSUME NEW v \in Workspace
       PROVE  /\ SourcesOf(v)' = SourcesOf(v) /\ ObservationsOf(v)' = ObservationsOf(v)
              /\ AttemptsOf(v)' = AttemptsOf(v)
  <2>1. \A a \in attempts : CandidateOf(v, a.candidate)' = CandidateOf(v, a.candidate)
    <3>1. /\ \A d \in candidates : \E e \in candidates' :
               e.space = d.space /\ e.source = d.source /\ e.observation = d.observation
          /\ \A e \in candidates' : \E d \in candidates :
               e.space = d.space /\ e.source = d.source /\ e.observation = d.observation
      BY <1>5, <1>8, <1>9
    <3> QED BY <1>1, <3>1, CandidateSeen
  <2>2. Space(v)' = Space(v)
    BY <1>1 DEF OwnersKept, Space
  <2>3. AttemptsOf(v)' = AttemptsOf(v)
    BY <1>1, <2>1, <2>2, Seen, SeenNext
  <2> QED BY <1>1, <2>3, SeenSame
<1>16. \A v \in Workspace \ {w} : PrivateTables(v)' = PrivateTables(v)
  BY <1>14, <1>15, OthersSame
<1>17. PrivateTables(w)' = [sources |-> SourcesOf(w), observations |-> ObservationsOf(w),
                            candidates |-> C, attempts |-> AttemptsOf(w)]
  BY <1>3, <1>13, <1>15 DEF PrivateTables
<1>18. Private!Put(w, [sources |-> SourcesOf(w), observations |-> ObservationsOf(w),
                       candidates |-> C, attempts |-> AttemptsOf(w)])
  BY <1>3, <1>16, <1>17, PutIs
<1>19. SeenCandidate(c) \in CandidatesOf(w)
  BY <1>5, Seen
<1>20. Private!Decide(w, SeenCandidate(c), st)
  <2>1. /\ StoreOf[w].candidates = CandidatesOf(w)
        /\ [StoreOf[w] EXCEPT !.candidates = C] = [sources |-> SourcesOf(w), observations |-> ObservationsOf(w),
              candidates |-> C, attempts |-> AttemptsOf(w)]
    BY <1>3, StoreFields
  <2>2. C = (StoreOf[w].candidates \ {SeenCandidate(c)}) \cup {[SeenCandidate(c) EXCEPT !.state = st]}
    BY <1>12, <2>1
  <2> QED BY <1>18, <1>19, <2>1, <2>2 DEF Private!Decide, StoreOf
<1> QED BY <1>3, <1>16, <1>19, <1>20, ActsStep DEF Acts

\* A step that changes only the attempts of one candidate of w.
LEMMA AttemptsSeen ==
  ASSUME StoreInv, OwnInv, NEW t \in Thread, OwnersKept(t), UNCHANGED <<sources, observations, candidates>>
  PROVE  /\ \A v : SourcesOf(v)' = SourcesOf(v) /\ ObservationsOf(v)' = ObservationsOf(v)
                   /\ CandidatesOf(v)' = CandidatesOf(v)
         /\ \A v, k : CandidateOf(v, k)' = CandidateOf(v, k)
         /\ \A v : Space(v)' = Space(v)
<1>1. \A v : Space(v)' = Space(v)
  BY DEF OwnersKept, Space
<1>2. \A v, k : CandidateOf(v, k)' = CandidateOf(v, k)
  BY <1>1 DEF CandidateOf, Shows, Owns
<1> QED BY <1>1, <1>2, SeenSame

\* A candidate is in the view of one workspace.
LEMMA OneCandidateViewer ==
  ASSUME StoreInv, NEW w, NEW k, CandidateOf(w, k) PROVE \A v : CandidateOf(v, k) => v = w
<1>1. PICK c \in candidates : c.observation = k /\ Shows(w, c)
  BY DEF CandidateOf
<1>2. c.space = Space(w) /\ Owns(w, c.source)
  BY <1>1 DEF Shows
<1>3. \A v : Shows(v, c) => v = w
  BY <1>2, OneViewer
<1> QED BY <1>1, <1>3 DEF CandidateOf, StoreInv, Keyed

LEMMA ClaimStep ==
  ASSUME StoreInv, OwnInv, NEW t \in Thread, Claim(t) PROVE PrivateStep
<1>1. TypeOK /\ Keyed /\ OwnersKept(t) /\ UNCHANGED <<sources, observations, candidates>>
  BY OwnersStep DEF StoreInv, Claim, Write
<1>2. PICK w, k : w = BoundTo[t] /\ k = request[t].candidate
  OBVIOUS
<1>3. w \in Workspace
  BY <1>2
<1>4. CandidateOf(w, k)
  BY <1>2 DEF OwnInv, Own, Claim, IsWriting
<1>5. PICK new : new = [space |-> Space(w), candidate |-> k, state |-> "Prepared",
                        created |-> Cardinality(attempts) + 1]
  OBVIOUS
<1>6. new.space = Space(w) /\ new.candidate = k /\ SeenAttempt(new) = [candidate |-> k, state |-> "Prepared"]
  BY <1>5 DEF SeenAttempt
<1>7. \/ attempts' = attempts
      \/ /\ attempts' = attempts \cup {new}
         /\ \E x \in candidates : x.observation = k /\ x.state = "Eligible"
         /\ \A a \in attempts : ~(a.space = Space(w) /\ a.candidate = k)
  BY <1>2, <1>5 DEF Claim
<1>8. CASE attempts' = attempts
  BY <1>1, <1>8, SeenSame, OthersSame DEF PrivateStep
<1>9. CASE /\ attempts' = attempts \cup {new}
           /\ \E x \in candidates : x.observation = k /\ x.state = "Eligible"
           /\ \A a \in attempts : ~(a.space = Space(w) /\ a.candidate = k)
  <2>1. PICK c \in candidates : c.observation = k /\ Shows(w, c) /\ c.state = "Eligible"
    BY <1>1, <1>4, <1>9 DEF CandidateOf, Keyed
  <2>2. SeenCandidate(c) \in CandidatesOf(w)
    BY <2>1, Seen
  <2>3. SeenCandidate(c).state = "Eligible" /\ SeenCandidate(c).observation = k
    BY <2>1 DEF SeenCandidate
  <2>4. ASSUME NEW v PROVE /\ SourcesOf(v)' = SourcesOf(v) /\ ObservationsOf(v)' = ObservationsOf(v)
                           /\ CandidatesOf(v)' = CandidatesOf(v)
    BY <1>1, AttemptsSeen
  <2>5. /\ \A v, o : CandidateOf(v, o)' = CandidateOf(v, o)
        /\ \A v : Space(v)' = Space(v)
    BY <1>1, AttemptsSeen
  <2>6. PICK A : A = AttemptsOf(w) \cup {[candidate |-> k, state |-> "Prepared"]}
    OBVIOUS
  <2>7. AttemptsOf(w)' = A
    <3>1. {b \in attempts' : b.space = Space(w)' /\ CandidateOf(w, b.candidate)'} =
            {b \in attempts : b.space = Space(w) /\ CandidateOf(w, b.candidate)} \cup {new}
      BY <1>4, <1>6, <1>9, <2>5
    <3> QED BY <1>6, <2>6, <3>1, Seen, SeenNext
  <2>8. ASSUME NEW v \in Workspace \ {w} PROVE AttemptsOf(v)' = AttemptsOf(v)
    <3>1. ~CandidateOf(v, k)
      BY <1>4, <2>8, OneCandidateViewer
    <3>2. {b \in attempts' : b.space = Space(v)' /\ CandidateOf(v, b.candidate)'} =
            {b \in attempts : b.space = Space(v) /\ CandidateOf(v, b.candidate)}
      BY <1>6, <1>9, <2>5, <3>1
    <3> QED BY <3>2, Seen, SeenNext
  <2>9. \A v \in Workspace \ {w} : PrivateTables(v)' = PrivateTables(v)
    BY <2>4, <2>8, OthersSame
  <2>10. PrivateTables(w)' = [sources |-> SourcesOf(w), observations |-> ObservationsOf(w),
                              candidates |-> CandidatesOf(w), attempts |-> A]
    BY <1>3, <2>4, <2>7 DEF PrivateTables
  <2>11. Private!Put(w, [sources |-> SourcesOf(w), observations |-> ObservationsOf(w),
                         candidates |-> CandidatesOf(w), attempts |-> A])
    BY <1>3, <2>9, <2>10, PutIs
  <2>12. \A a \in AttemptsOf(w) : a.candidate # k
    BY <1>9 DEF AttemptsOf
  <2>13. Private!Claim(w, SeenCandidate(c))
    <3>1. /\ StoreOf[w].candidates = CandidatesOf(w) /\ StoreOf[w].attempts = AttemptsOf(w)
          /\ [StoreOf[w] EXCEPT !.attempts = A] = [sources |-> SourcesOf(w),
                observations |-> ObservationsOf(w), candidates |-> CandidatesOf(w), attempts |-> A]
      BY <1>3, StoreFields
    <3> QED BY <2>2, <2>3, <2>6, <2>11, <2>12, <3>1 DEF Private!Claim, StoreOf
  <2> QED BY <1>3, <2>2, <2>9, <2>13, ActsStep DEF Acts
<1> QED BY <1>7, <1>8, <1>9

LEMMA SettleStep ==
  ASSUME StoreInv, OwnInv, NEW t \in Thread, Settle(t) \/ Reconcile(t) PROVE PrivateStep
<1>1. TypeOK /\ Keyed /\ OwnersKept(t) /\ UNCHANGED <<sources, observations, candidates>>
  BY OwnersStep DEF StoreInv, Settle, Reconcile, Write
<1>2. PICK w, k, st : w = BoundTo[t] /\ k = request[t].candidate /\ st = request[t].state
  OBVIOUS
<1>3. w \in Workspace /\ st \in {"Succeeded", "Failed"}
  BY <1>1, <1>2, PendingIsRequest, RequestHolds DEF Settle, Reconcile, IsWriting
<1>4. CandidateOf(w, k)
  BY <1>2 DEF OwnInv, Own, Settle, Reconcile, IsWriting
<1>5. attempts' = {SettledAs(t, a) : a \in attempts}
  BY <1>1, Settled
<1>6. CASE \A a \in attempts : SettledAs(t, a) = a
  <2>1. attempts' = attempts
    BY <1>5, <1>6
  <2> QED BY <1>1, <2>1, SeenSame, OthersSame DEF PrivateStep
<1>7. ASSUME NEW a \in attempts, SettledAs(t, a) # a PROVE PrivateStep
  <2>1. a.space = Space(w) /\ a.candidate = k /\ SettledAs(t, a) = [a EXCEPT !.state = st]
    BY <1>2, <1>7 DEF SettledAs
  <2>2. PICK n : n = [a EXCEPT !.state = st]
    OBVIOUS
  <2>3. \A b \in attempts \ {a} : SettledAs(t, b) = b
    BY <1>1, <1>2, <2>1 DEF SettledAs, Keyed
  <2>4. attempts' = (attempts \ {a}) \cup {n}
    <3>1. attempts' = {IF b = a THEN n ELSE b : b \in attempts}
      BY <1>5, <2>1, <2>2, <2>3
    <3> QED BY <3>1
  <2>5. /\ n.space = Space(w) /\ n.candidate = k
        /\ SeenAttempt(n) = [SeenAttempt(a) EXCEPT !.state = st]
    BY <1>1, <2>1, <2>2 DEF TypeOK, AttemptRow, SeenAttempt
  <2>6. ASSUME NEW v PROVE /\ SourcesOf(v)' = SourcesOf(v) /\ ObservationsOf(v)' = ObservationsOf(v)
                           /\ CandidatesOf(v)' = CandidatesOf(v)
    BY <1>1, AttemptsSeen
  <2>7. /\ \A v, o : CandidateOf(v, o)' = CandidateOf(v, o)
        /\ \A v : Space(v)' = Space(v)
    BY <1>1, AttemptsSeen
  <2>8. PICK A : A = (AttemptsOf(w) \ {SeenAttempt(a)}) \cup {[SeenAttempt(a) EXCEPT !.state = st]}
    OBVIOUS
  <2>9. AttemptsOf(w)' = A
    <3>1. {b \in attempts' : b.space = Space(w)' /\ CandidateOf(w, b.candidate)'} =
            ({b \in attempts : b.space = Space(w) /\ CandidateOf(w, b.candidate)} \ {a}) \cup {n}
      BY <1>4, <2>4, <2>5, <2>7
    <3>2. \A b \in attempts : b.space = Space(w) /\ SeenAttempt(b) = SeenAttempt(a) => b = a
      BY <1>1, <2>1 DEF Keyed, SeenAttempt
    <3>3. {SeenAttempt(b) : b \in {e \in attempts : e.space = Space(w) /\ CandidateOf(w, e.candidate)} \ {a}} =
            AttemptsOf(w) \ {SeenAttempt(a)}
      BY <3>2, Seen
    <3>4. A = (AttemptsOf(w) \ {SeenAttempt(a)}) \cup {SeenAttempt(n)}
      BY <2>5, <2>8
    <3> QED BY <3>1, <3>3, <3>4, SeenNext
  <2>10. ASSUME NEW v \in Workspace \ {w} PROVE AttemptsOf(v)' = AttemptsOf(v)
    <3>1. ~CandidateOf(v, k)
      BY <1>4, <2>10, OneCandidateViewer
    <3>2. {b \in attempts' : b.space = Space(v)' /\ CandidateOf(v, b.candidate)'} =
            {b \in attempts : b.space = Space(v) /\ CandidateOf(v, b.candidate)}
      BY <2>1, <2>4, <2>5, <2>7, <3>1
    <3> QED BY <3>2, Seen, SeenNext
  <2>11. \A v \in Workspace \ {w} : PrivateTables(v)' = PrivateTables(v)
    BY <2>6, <2>10, OthersSame
  <2>12. PrivateTables(w)' = [sources |-> SourcesOf(w), observations |-> ObservationsOf(w),
                              candidates |-> CandidatesOf(w), attempts |-> A]
    BY <1>3, <2>6, <2>9 DEF PrivateTables
  <2>13. Private!Put(w, [sources |-> SourcesOf(w), observations |-> ObservationsOf(w),
                         candidates |-> CandidatesOf(w), attempts |-> A])
    BY <1>3, <2>11, <2>12, PutIs
  <2>14. SeenAttempt(a) \in AttemptsOf(w)
    BY <1>4, <2>1, Seen
  <2>15. Private!Settle(w, SeenAttempt(a), st)
    <3>1. /\ StoreOf[w].attempts = AttemptsOf(w)
          /\ [StoreOf[w] EXCEPT !.attempts = A] = [sources |-> SourcesOf(w),
                observations |-> ObservationsOf(w), candidates |-> CandidatesOf(w), attempts |-> A]
      BY <1>3, StoreFields
    <3>2. A = (StoreOf[w].attempts \ {SeenAttempt(a)}) \cup {[SeenAttempt(a) EXCEPT !.state = st]}
      BY <2>8, <3>1
    <3> QED BY <2>13, <2>14, <3>1, <3>2 DEF Private!Settle, StoreOf
  <2> QED BY <1>3, <2>11, <2>14, <2>15, ActsStep DEF Acts
<1> QED BY <1>6, <1>7

\* A check, an abandoned request and a stutter change no store.
LEMMA NoWriteStep ==
  ASSUME UNCHANGED <<backend, tables>> PROVE PrivateStep
<1>1. \A v : PrivateTables(v)' = PrivateTables(v)
  BY DEF tables, PrivateTables, SourcesOf, ObservationsOf, CandidatesOf, AttemptsOf, OwnCandidates,
     Shows, Owns, CandidateOf, Space
<1> QED BY <1>1 DEF PrivateStep

\* The workspaces of one database behave as private stores (workspace.py:54-275):
\* with the workspace in every key, or with one key space where at most one
\* thread at a time adds a source of a given id.
THEOREM StoresArePrivate ==
  Spec /\ (SerialAdds \/ backend = "composite") => ImplementsPrivateStores
<1>1. Init => Private!PrivateInit
  <2> SUFFICES ASSUME Init PROVE Private!PrivateInit
    OBVIOUS
  <2>1. ASSUME NEW w \in Workspace PROVE PrivateTables(w) = Private!EmptyStore
    BY DEF Init, PrivateTables, SourcesOf, ObservationsOf, CandidatesOf, AttemptsOf, OwnCandidates,
       Private!EmptyStore
  <2> QED BY <2>1 DEF Private!PrivateInit
<1>2. StoreInv /\ OwnInv /\ [Next]_vars => [Private!PrivateNext]_StoreOf
  <2> SUFFICES ASSUME StoreInv, OwnInv, [Next]_vars PROVE [Private!PrivateNext]_StoreOf
    OBVIOUS
  <2>1. ASSUME UNCHANGED vars PROVE PrivateStep
    <3>1. UNCHANGED <<backend, tables>>
      BY <2>1 DEF vars, tables
    <3> QED BY <3>1, NoWriteStep
  <2>2. ASSUME NEW t \in Thread, Check(t) PROVE PrivateStep
    <3>1. UNCHANGED <<backend, tables>>
      BY <2>2, CheckPasses DEF StoreInv, Passes
    <3> QED BY <3>1, NoWriteStep
  <2>3. ASSUME NEW t \in Thread, Abandon(t) PROVE PrivateStep
    BY <2>3, NoWriteStep DEF Abandon, Written
  <2>4. ASSUME NEW t \in Thread, Write(t) PROVE PrivateStep
    BY <2>4, AddSourceStep, SaveObservationStep, PromoteBaselineStep, PruneValuesStep, DecideStep,
       ClaimStep, SettleStep DEF Write
  <2>5. PrivateStep
    BY <2>1, <2>2, <2>3, <2>4 DEF Next
  <2>6. ASSUME \A v \in Workspace : PrivateTables(v)' = PrivateTables(v) PROVE UNCHANGED StoreOf
    BY <2>6 DEF StoreOf
  <2> QED BY <2>5, <2>6 DEF PrivateStep
<1>3. Init /\ (SerialAdds \/ backend = "composite") => OwnInv
  BY OwnInit
<1>4. Spec /\ OwnInv => [][Private!PrivateNext]_StoreOf
  BY <1>2, StoreInit, StoreStep, OwnStep, PTL DEF Spec
<1> QED BY <1>1, <1>3, <1>4, PTL DEF Spec, ImplementsPrivateStores, Private!PrivateSpec, StoreOf

-----------------------------------------------------------------------------
(* Lists.  Ownership of a row is decided: a row that is somebody's stays    *)
(* his, so it does not matter when the source of a row is looked up.        *)

OwnOrOther(w, r, own) == r \in own \/ \E v \in Workspace \ {w} : CandidateOf(v, r.observation)

Counted(l) == IF backend = "legacy" THEN l.stored ELSE l.own

\* A list on its way.
Sound(w, l) ==
  /\ l = [table |-> l.table, left |-> l.left, kept |-> l.kept, own |-> l.own, stored |-> l.stored]
  /\ \A r \in l.own : IsOwn(w, r)
  /\ l.kept \subseteq l.own
  /\ \A r \in l.left : OwnOrOther(w, r, l.own)
  /\ \A r \in l.own : \/ r \in l.kept \cup l.left
                      \/ Cardinality(Newer(Counted(l), r)) >= ListLimit

ListInv ==
  /\ StoreInv
  /\ OwnInv
  /\ listing = [w \in Viewer |-> listing[w]]
  /\ \A w \in Viewer : listing[w] # None => Sound(w, listing[w])

\* What is owned stays so.
LEMMA OwnStays ==
  ASSUME StoreInv, OwnInv, [Next]_vars
  PROVE  /\ backend' = backend
         /\ \A w, c : CandidateOf(w, c) => CandidateOf(w, c)'
         /\ \A w, r : IsOwn(w, r) => IsOwn(w, r)'
<1>1. backend' = backend /\ \A w, c : CandidateOf(w, c) => CandidateOf(w, c)'
  <2>1. CASE UNCHANGED <<backend, tables>>
    BY <2>1 DEF tables, CandidateOf, Shows, Owns, Space
  <2>2. ASSUME NEW t \in Thread, Check(t) PROVE UNCHANGED <<backend, tables>>
    BY <2>2, CheckPasses DEF StoreInv, Passes
  <2>3. ASSUME NEW t \in Thread, Write(t) \/ Abandon(t)
        PROVE  backend' = backend /\ \A w, c : CandidateOf(w, c) => CandidateOf(w, c)'
    <3>1. OwnersKept(t)
      BY <2>3, OwnersStep
    <3>2. backend' = backend /\ \A w : Space(w)' = Space(w)
      BY <3>1 DEF OwnersKept, Space
    <3>3. \A w, id : Owns(w, id) => Owns(w, id)'
      BY <3>1, <3>2 DEF OwnersKept, Owns
    <3> QED BY <2>3, <3>2, <3>3, RowsStay DEF CandidateOf, Shows
  <2>4. CASE UNCHANGED vars
    BY <2>1, <2>4 DEF vars, tables
  <2> QED BY <2>1, <2>2, <2>3, <2>4 DEF Next
<1>2. \A w : Space(w)' = Space(w)
  BY <1>1 DEF Space
<1> QED BY <1>1, <1>2 DEF IsOwn

\* Every row is somebody's, in the key space of its owner.
LEMMA RowOwned ==
  ASSUME StoreInv, NEW table, NEW r \in Rows(table)
  PROVE  \E v \in Workspace : CandidateOf(v, r.observation) /\ r.space = Space(v)
<1>1. HasCandidate(r.space, r.observation)
  BY DEF Rows, StoreInv, Referring, HasCandidate
<1>2. PICK c \in candidates : c.space = r.space /\ c.observation = r.observation
  BY <1>1 DEF HasCandidate
<1>3. PICK x \in observations : x.space = c.space /\ x.source = c.source
  BY <1>2 DEF StoreInv, Referring, HasObservation
<1>4. PICK s \in sources : s.space = c.space /\ s.id = c.source
  BY <1>3 DEF StoreInv, Referring, HasSource
<1>5. s.workspace \in Workspace /\ s.space = Space(s.workspace)
  BY DEF StoreInv, Placed, TypeOK, SourceRow
<1>6. Shows(s.workspace, c)
  BY <1>4, <1>5 DEF Shows, Owns
<1> QED BY <1>2, <1>4, <1>5, <1>6 DEF CandidateOf

LEMMA RowsFinite ==
  ASSUME StoreInv, NEW table PROVE IsFiniteSet(Rows(table))
<1>1. IsFiniteSet(candidates) /\ IsFiniteSet(attempts)
  BY DEF StoreInv, Numbered
<1>2. CASE table = "candidates"
  <2>1. PICK f : f = [c \in candidates |-> [space |-> c.space, observation |-> c.observation,
                                            created |-> c.created]]
    OBVIOUS
  <2>2. f \in Surjection(candidates, Rows(table))
    BY <1>2, <2>1 DEF Surjection, Rows
  <2> QED BY <1>1, <2>2, FS_Surjection
<1>3. CASE table # "candidates"
  <2>1. PICK f : f = [a \in attempts |-> [space |-> a.space, observation |-> a.candidate,
                                          created |-> a.created]]
    OBVIOUS
  <2>2. f \in Surjection(attempts, Rows(table))
    BY <1>3, <2>1 DEF Surjection, Rows
  <2> QED BY <1>1, <2>2, FS_Surjection
<1> QED BY <1>2, <1>3

\* The rows of the key space of w are its own where the workspace is in the keys,
\* and all rows where it is not.
LEMMA SpaceRows ==
  ASSUME StoreInv, NEW w \in Workspace, NEW table
  PROVE  {r \in Rows(table) : r.space = Space(w)} =
           IF backend = "legacy" THEN Rows(table) ELSE {r \in Rows(table) : IsOwn(w, r)}
<1>1. CASE backend = "legacy"
  <2>1. \A r \in Rows(table) : r.space = Space(w)
    BY <1>1, RowOwned DEF Space
  <2> QED BY <1>1, <2>1
<1>2. CASE backend # "legacy"
  <2>1. ASSUME NEW r \in Rows(table), r.space = Space(w) PROVE CandidateOf(w, r.observation)
    BY <1>2, <2>1, RowOwned DEF Space
  <2> QED BY <1>2, <2>1 DEF IsOwn
<1> QED BY <1>1, <1>2

\* The store does not change while one is asked.
LEMMA ListStepInv ==
  ASSUME ListInv, UNCHANGED vars, NEW w \in Viewer, NEW l, l # None => Sound(w, l),
         listing' = [listing EXCEPT ![w] = l]
  PROVE  ListInv'
<1>1. StoreInv' /\ OwnInv'
  BY StoreStep, OwnStep DEF ListInv
<1>2. \A v, k : Sound(v, k) => Sound(v, k)'
  BY DEF Sound, OwnOrOther, Counted, IsOwn, CandidateOf, Shows, Owns, Space, vars
<1>3. listing'[w] = l /\ \A v \in Viewer \ {w} : listing'[v] = listing[v]
  BY DEF ListInv
<1>4. listing' = [v \in Viewer |-> listing'[v]]
  BY DEF ListInv
<1> QED BY <1>1, <1>2, <1>3, <1>4 DEF ListInv

LEMMA AskStoreList ==
  ASSUME ListInv, NEW w \in Viewer, NEW table, AskStore(w, table) PROVE ListInv'
<1>1. StoreInv /\ UNCHANGED vars /\ w \in Workspace /\ ListLimit \in Nat
  BY ListsAssumption DEF ListInv, AskStore
<1>2. PICK own : own = {r \in Rows(table) : IsOwn(w, r)}
  OBVIOUS
<1>3. PICK counted : counted = IF backend = "legacy" THEN Rows(table) ELSE own
  OBVIOUS
<1>4. PICK answer : answer = Newest(counted, ListLimit)
  OBVIOUS
<1>5. PICK l : l = [table  |-> table,
                    left   |-> IF backend = "legacy" THEN answer ELSE {},
                    kept   |-> IF backend = "legacy" THEN {} ELSE answer,
                    own    |-> own,
                    stored |-> Rows(table)]
  OBVIOUS
<1>6. StoreAnswer(w, table) = answer
  BY <1>1, <1>2, <1>3, <1>4, SpaceRows DEF StoreAnswer
<1>7. listing' = [listing EXCEPT ![w] = l]
  BY <1>2, <1>5, <1>6 DEF AskStore
<1>8. answer \subseteq counted /\ own \subseteq counted /\ counted \subseteq Rows(table)
  BY <1>2, <1>3, <1>4 DEF Newest
<1>9. ASSUME NEW r \in counted, r \notin answer PROVE Cardinality(Newer(counted, r)) >= ListLimit
  <2>1. IsFiniteSet(Rows(table)) /\ Newer(counted, r) \subseteq Rows(table)
    BY <1>1, <1>8, RowsFinite DEF Newer
  <2>2. Cardinality(Newer(counted, r)) \in Nat
    BY <2>1, FS_Subset, FS_CardinalityType
  <2> QED BY <1>1, <1>4, <1>9, <2>2 DEF Newest
<1>10. ASSUME NEW r \in Rows(table) PROVE OwnOrOther(w, r, own)
  <2>1. PICK v \in Workspace : CandidateOf(v, r.observation) /\ r.space = Space(v)
    BY <1>1, <1>10, RowOwned
  <2>2. CASE v = w
    BY <1>2, <2>1, <2>2 DEF OwnOrOther, IsOwn
  <2>3. CASE v # w
    BY <2>1, <2>3 DEF OwnOrOther
  <2> QED BY <2>2, <2>3
<1>11. Sound(w, l)
  <2>1. /\ l.table = table /\ l.own = own /\ l.stored = Rows(table)
        /\ l.left = IF backend = "legacy" THEN answer ELSE {}
        /\ l.kept = IF backend = "legacy" THEN {} ELSE answer
    BY <1>5
  <2>2. l = [table |-> l.table, left |-> l.left, kept |-> l.kept, own |-> l.own, stored |-> l.stored]
    BY <1>5, <2>1
  <2>3. Counted(l) = counted
    BY <1>3, <2>1 DEF Counted
  <2>4. \A r \in own : IsOwn(w, r)
    BY <1>2
  <2>5. l.kept \subseteq own
    BY <1>3, <1>8, <2>1
  <2>6. \A r \in l.left : OwnOrOther(w, r, own)
    BY <1>8, <1>10, <2>1
  <2>7. \A r \in own : r \in l.kept \cup l.left \/ Cardinality(Newer(counted, r)) >= ListLimit
    BY <1>8, <1>9, <2>1
  <2> QED BY <2>1, <2>2, <2>3, <2>4, <2>5, <2>6, <2>7 DEF Sound
<1> QED BY <1>1, <1>7, <1>11, ListStepInv

LEMMA CheckRowList ==
  ASSUME ListInv, NEW w \in Viewer, CheckRow(w) PROVE ListInv'
<1>1. StoreInv /\ UNCHANGED vars /\ w \in Workspace /\ Sound(w, listing[w])
  BY ListsAssumption DEF ListInv, CheckRow
<1>2. PICK l : l = listing[w]
  OBVIOUS
<1>3. PICK r \in l.left :
        listing' = [listing EXCEPT ![w] =
          [l EXCEPT !.left = l.left \ {r}, !.kept = IF IsOwn(w, r) THEN l.kept \cup {r} ELSE l.kept]]
  BY <1>2 DEF CheckRow
<1>4. PICK k : k = [table |-> l.table, left |-> l.left \ {r},
                    kept |-> IF IsOwn(w, r) THEN l.kept \cup {r} ELSE l.kept,
                    own |-> l.own, stored |-> l.stored]
  OBVIOUS
<1>5. listing' = [listing EXCEPT ![w] = k]
  <2>1. l = [table |-> l.table, left |-> l.left, kept |-> l.kept, own |-> l.own, stored |-> l.stored]
    BY <1>1, <1>2 DEF Sound
  <2>2. \A x, y : [l EXCEPT !.left = x, !.kept = y] =
                 [table |-> l.table, left |-> x, kept |-> y, own |-> l.own, stored |-> l.stored]
    <3>1. PICK a, b, c, d, e : /\ l.table = a /\ l.own = d /\ l.stored = e
                               /\ l = [table |-> a, left |-> b, kept |-> c, own |-> d, stored |-> e]
      BY <2>1, Zenon
    <3>2. ASSUME NEW x, NEW y
          PROVE  [l EXCEPT !.left = x, !.kept = y] =
                   [table |-> a, left |-> x, kept |-> y, own |-> d, stored |-> e]
      <4>1. PICK m : m = [l EXCEPT !.left = x]
        OBVIOUS
      <4>2. m = [table |-> a, left |-> x, kept |-> c, own |-> d, stored |-> e]
        BY <3>1, <4>1
      <4>3. [m EXCEPT !.kept = y] = [table |-> a, left |-> x, kept |-> y, own |-> d, stored |-> e]
        BY <4>2
      <4>4. [l EXCEPT !.left = x, !.kept = y] = [m EXCEPT !.kept = y]
        BY <4>1
      <4> QED BY <4>3, <4>4
    <3> QED BY <3>1, <3>2
  <2>3. [l EXCEPT !.left = l.left \ {r}, !.kept = IF IsOwn(w, r) THEN l.kept \cup {r} ELSE l.kept] = k
    BY <1>4, <2>2, Zenon
  <2> QED BY <1>3, <2>3
<1>6. IsOwn(w, r) => r \in l.own
  <2>1. OwnOrOther(w, r, l.own)
    BY <1>1, <1>2 DEF Sound
  <2>2. ASSUME IsOwn(w, r) PROVE ~\E v \in Workspace \ {w} : CandidateOf(v, r.observation)
    BY <1>1, <2>2, OneCandidateViewer DEF IsOwn
  <2> QED BY <2>1, <2>2 DEF OwnOrOther
<1>7. Sound(w, k)
  <2>1. /\ k.table = l.table /\ k.left = l.left \ {r} /\ k.own = l.own /\ k.stored = l.stored
        /\ k.kept = IF IsOwn(w, r) THEN l.kept \cup {r} ELSE l.kept
    BY <1>4
  <2>2. k = [table |-> k.table, left |-> k.left, kept |-> k.kept, own |-> k.own, stored |-> k.stored]
    BY <1>4, <2>1
  <2>3. /\ \A x \in l.own : IsOwn(w, x)
        /\ l.kept \subseteq l.own
        /\ \A x \in l.left : OwnOrOther(w, x, l.own)
        /\ \A x \in l.own : x \in l.kept \cup l.left \/ Cardinality(Newer(Counted(l), x)) >= ListLimit
    BY <1>1, <1>2 DEF Sound
  <2>4. Counted(k) = Counted(l)
    BY <2>1 DEF Counted
  <2>5. k.kept \subseteq k.own
    BY <1>6, <2>1, <2>3
  <2>6. \A x \in k.own : x \in k.kept \cup k.left \/ Cardinality(Newer(Counted(k), x)) >= ListLimit
    <3>1. ASSUME NEW x \in l.own, x \in l.kept \cup l.left PROVE x \in k.kept \cup k.left
      BY <2>1, <2>3, <3>1
    <3> QED BY <2>1, <2>3, <2>4, <3>1
  <2> QED BY <2>1, <2>2, <2>3, <2>5, <2>6 DEF Sound
<1> QED BY <1>1, <1>5, <1>7, ListStepInv

\* A step of a thread in the middle of a list.
LEMMA WhileListing ==
  ASSUME ListInv, [Next]_vars, UNCHANGED listing PROVE ListInv'
<1>1. StoreInv' /\ OwnInv'
  BY StoreStep, OwnStep DEF ListInv
<1>2. /\ backend' = backend
      /\ \A w, c : CandidateOf(w, c) => CandidateOf(w, c)'
      /\ \A w, r : IsOwn(w, r) => IsOwn(w, r)'
  BY OwnStays DEF ListInv
<1>3. \A w, l : Sound(w, l) => Sound(w, l)'
  BY <1>2 DEF Sound, OwnOrOther, Counted
<1> QED BY <1>1, <1>3 DEF ListInv

\* What a list returns was the workspace's own when the store was asked and is
\* still; what it leaves out has ListLimit newer rows before it, of the workspace
\* if that is in the keys.  With shared keys this takes adding ids one at a time:
\* otherwise a row may change hands between the two store calls of a list.
THEOREM ListsAreOwn ==
  LSpec /\ (SerialAdds \/ backend = "composite") => []ListsTellOwn
<1>1. LInit /\ (SerialAdds \/ backend = "composite") => ListInv
  BY StoreInit, OwnInit DEF LInit, ListInv
<1>2. ListInv /\ [LNext]_allVars => ListInv'
  <2> SUFFICES ASSUME ListInv, [LNext]_allVars PROVE ListInv'
    OBVIOUS
  <2>1. CASE UNCHANGED allVars
    BY <2>1, WhileListing DEF allVars
  <2>2. CASE Next /\ UNCHANGED listing
    BY <2>2, WhileListing
  <2>3. ASSUME NEW w \in Viewer, ReturnList(w) PROVE ListInv'
    BY <2>3, ListStepInv DEF ReturnList
  <2> QED BY <2>1, <2>2, <2>3, AskStoreList, CheckRowList DEF LNext, ListStep
<1>3. ListInv => ListsTellOwn
  <2> SUFFICES ASSUME ListInv, NEW w \in Viewer, IsReturned(w), NEW l, l = listing[w]
               PROVE  /\ \A r \in l.kept : r \in l.own /\ IsOwn(w, r)
                      /\ \A r \in l.own \ l.kept : Cardinality(Newer(Counted(l), r)) >= ListLimit
    BY DEF ListsTellOwn, Counted
  <2>1. Sound(w, l) /\ l.left = {}
    BY DEF ListInv, IsReturned
  <2> QED BY <2>1 DEF Sound
<1> QED BY <1>1, <1>2, <1>3, PTL DEF LSpec
=============================================================================

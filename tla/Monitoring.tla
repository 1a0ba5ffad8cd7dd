----------------------------- MODULE Monitoring -----------------------------
(***************************************************************************)
(* One monitored source: its definition, the observations checks leave,    *)
(* its baseline, the notification candidates incidents raise, and the raw  *)
(* row values kept for comparison.  Sources share no rows, so one is       *)
(* enough.                                                                 *)
(*                                                                         *)
(* The service methods take no lock.  Each is a sequence of store calls,   *)
(* every call one transaction and one action here, and request threads,    *)
(* scheduled runs and command line runs interleave between them.  What a   *)
(* thread has read is its work[t].                                         *)
(*                                                                         *)
(* Left out: the dataset, profile and findings (a check may come to any    *)
(* result in Results), wording, the Acknowledged/Reviewed marks.           *)
(* Bounds: MaxObservations, MaxTime.                                       *)
(***************************************************************************)
EXTENDS Naturals, FiniteSets, Sequences

CONSTANTS
  Checker,         \* threads that check on request
  Scheduler,       \* threads that run due checks
  Reviewer,        \* threads that promote a reviewed observation
  Evaluator,       \* threads that evaluate pending candidates
  Editor,          \* threads that add, onboard and edit the source
  Definitions,     \* source definitions callers supply
  Results,         \* results a check may come to
  Interval,        \* monitor_interval_minutes
  Retention,       \* row_diff_snapshot_retention
  PruneLimit,      \* observations pruning lists: max(50, 5 * Retention)
  IncidentLimit,   \* observations incident() lists: 200
  MaxObservations, \* bound of the history
  MaxTime,         \* bound of the clock
  Null             \* Python's None

Healths     == {"Healthy", "Warning", "Critical"}
Transitions == {"Opened", "Escalated", "Recovered"}

Definition == [enabled: BOOLEAN, transitions: SUBSET Transitions, unique_keys: BOOLEAN]

\* usable: available and profiled; raw: row values are stored with it.  What
\* cannot be read is a Critical finding.
Result ==
  {r \in [health: Healths, usable: BOOLEAN, raw: BOOLEAN] :
     ~r.usable => r.health = "Critical" /\ ~r.raw}

ASSUME MonitoringAssumption ==
  /\ Definitions \subseteq Definition
  /\ Results \subseteq Result
  /\ {Interval, Retention, PruneLimit, IncidentLimit} \subseteq Nat \ {0}
  /\ {MaxObservations, MaxTime} \subseteq Nat
  /\ Null \notin Definition \cup Healths \cup Transitions

VARIABLES
  source,       \* its definition, or Null
  observations, \* in the order saved; the index is the rowid
  baseline,     \* index of the active baseline, 0 if none
  candidates,   \* the rows of notification_candidates
  now,          \* minutes
  pc,           \* thread -> the call it makes next
  work,         \* thread -> what it has read
  \* History, never read by the guards of actions:
  scheduled,    \* observations made because a check was due
  unpruned      \* a check ended between its save and its pruning

sourceVars == <<source, observations, baseline, candidates>>
vars == <<source, observations, baseline, candidates, now, pc, work, scheduled, unpruned>>

Thread == Checker \cup Scheduler \cup Reviewer \cup Evaluator \cup Editor

-----------------------------------------------------------------------------
Observation == [at: Nat, health: Healths, usable: BOOLEAN, raw: BOOLEAN]

CandidateRow ==
  [observation: Nat \ {0}, transition: Transitions, previous_health: Healths \cup {Null},
   state: {"Pending", "Eligible", "Suppressed"}, policy: (SUBSET Transitions) \cup {Null}]

Step ==
  {"idle", "decide", "check", "previous", "baseline", "save",
   "pruneBaseline", "pruneList", "pruneWrite",
   "promoteCheck", "promoteReview", "promoteWrite", "promoteSource",
   "evaluateList", "evaluateWrite", "onboardWrite"}

Work ==
  [source: Definition \cup {Null}, due: BOOLEAN, at: Nat, previous: Nat, baseline: Nat,
   keep: SUBSET Nat, expected: Nat, target: Nat, todo: SUBSET CandidateRow]

NoWork ==
  [source |-> Null, due |-> FALSE, at |-> 0, previous |-> 0, baseline |-> 0,
   keep |-> {}, expected |-> 0, target |-> 0, todo |-> {}]

Ids == DOMAIN observations

\* ORDER BY observed_at DESC, rowid DESC.
Newer(i, j) ==
  \/ observations[i].at > observations[j].at
  \/ observations[i].at = observations[j].at /\ i > j

\* The newest n of the observations ids.
NewestOf(ids, n) == {i \in ids : Cardinality({j \in ids : Newer(j, i)}) < n}

\* 0 when there is none.
Latest == IF Ids = {} THEN 0 ELSE CHOOSE i \in Ids : \A j \in Ids \ {i} : Newer(i, j)

HealthOf(i) == IF i = 0 THEN Null ELSE observations[i].health

Raw == {i \in Ids : observations[i].raw}

-----------------------------------------------------------------------------
(* Incidents and notification policy.                                      *)

\* Mutant: a Warning that clears is not a recovery.
IncidentTransitionFromCritical(before, health) ==
  CASE health = "Healthy" /\ before = "Critical"         -> "Recovered"
    [] health # "Healthy" /\ before \in {Null, "Healthy"} -> "Opened"
    [] health = "Critical" /\ before = "Warning"          -> "Escalated"
    [] OTHER                                              -> Null

IncidentTransition(before, health) ==
  CASE health = "Healthy" /\ before \in {"Warning", "Critical"} -> "Recovered"
    [] health # "Healthy" /\ before \in {Null, "Healthy"}       -> "Opened"
    [] health = "Critical" /\ before = "Warning"                -> "Escalated"
    [] OTHER                                                    -> Null

Evaluate(c, enabled) ==
  [c EXCEPT !.state  = IF c.transition \in enabled THEN "Eligible" ELSE "Suppressed",
            !.policy = enabled]

\* Mutant: every check raises a candidate.
NotificationCandidateAlways(before, id, health) ==
  {[observation |-> id, transition |-> IncidentTransition(before, health),
    previous_health |-> before, state |-> "Pending", policy |-> Null]}

\* The candidate, if any, that observation id of that health raises after before.
NotificationCandidate(before, id, health) ==
  {[observation |-> id, transition |-> t, previous_health |-> before,
    state |-> "Pending", policy |-> Null] :
      t \in {IncidentTransition(before, health)} \ {Null}}

\* What incident() reports.
LatestIncident ==
  LET window    == NewestOf(Ids, IncidentLimit)
      unhealthy == {i \in window : observations[i].health # "Healthy"}
      newest    == CHOOSE i \in unhealthy : \A j \in unhealthy \ {i} : Newer(i, j)
      block     == {i \in unhealthy : \A j \in window \ unhealthy :
                                        Newer(j, i) => Newer(j, newest)}
      after     == {j \in window : Newer(j, newest)}
  IN  IF unhealthy = {} THEN Null
      ELSE [opened    |-> CHOOSE i \in block : \A j \in block \ {i} : Newer(j, i),
            block     |-> block,
            peak      |-> IF \E i \in block : observations[i].health = "Critical"
                          THEN "Critical" ELSE "Warning",
            recovered |-> IF after = {} THEN 0
                          ELSE CHOOSE j \in after : \A k \in after \ {j} : Newer(k, j)]

-----------------------------------------------------------------------------
(* Threads.                                                                *)

Goto(t, step, w) ==
  /\ pc' = [pc EXCEPT ![t] = step]
  /\ work' = [work EXCEPT ![t] = w]

Finish(t) == Goto(t, "idle", NoWork)

ReadOnly == UNCHANGED <<sourceVars, now, scheduled, unpruned>>

\* A new workspace, or one an early release left with an open incident whose
\* candidate no policy has seen.
Init ==
  /\ \/ /\ source = Null
        /\ observations = <<>>
        /\ baseline = 0
        /\ candidates = {}
     \/ /\ source \in Definitions
        /\ observations = <<[at |-> 0, health |-> "Warning", usable |-> TRUE, raw |-> FALSE]>>
        /\ baseline = 1
        /\ candidates = NotificationCandidate(Null, 1, "Warning")
  /\ now = 0
  /\ pc = [t \in Thread |-> "idle"]
  /\ work = [t \in Thread |-> NoWork]
  /\ scheduled = {}
  /\ unpruned = FALSE

\* The process dies, or the call raises.
Abandon(t) ==
  /\ pc[t] # "idle"
  /\ Finish(t)
  /\ unpruned' = (unpruned \/ pc[t] \in {"pruneBaseline", "pruneList", "pruneWrite"})
  /\ UNCHANGED <<sourceVars, now, scheduled>>

Tick ==
  /\ now < MaxTime
  /\ now' = now + 1
  /\ UNCHANGED <<sourceVars, pc, work, scheduled, unpruned>>

-----------------------------------------------------------------------------
(* Editing the source.                                                     *)

UpsertSource(d) ==
  /\ source' = d
  /\ UNCHANGED <<observations, baseline, candidates, now, scheduled, unpruned>>

AddSource(t, d) ==
  /\ pc[t] = "idle"
  /\ UpsertSource(d)
  /\ UNCHANGED <<pc, work>>

\* Preflight, which may refuse, reads nothing of the store.
UpdateSource(t, d) ==
  /\ pc[t] = "idle"
  /\ source # Null
  /\ UpsertSource(d)
  /\ UNCHANGED <<pc, work>>

\* The id is looked up, preflight runs, and only then is the source written.
Onboard(t, d) ==
  /\ pc[t] = "idle"
  /\ source = Null
  /\ Goto(t, "onboardWrite", [NoWork EXCEPT !.source = d])
  /\ ReadOnly

OnboardWrite(t) ==
  /\ pc[t] = "onboardWrite"
  /\ UpsertSource(work[t].source)
  /\ Finish(t)

-----------------------------------------------------------------------------
(* A check.                                                                *)

\* A disabled source is refused.
CheckSource(t) ==
  /\ pc[t] = "idle"
  /\ source # Null
  /\ source.enabled
  /\ Goto(t, "previous", [NoWork EXCEPT !.source = source, !.at = now])
  /\ ReadOnly

\* check_due_sources lists the sources ...
ListDue(t) ==
  /\ pc[t] = "idle"
  /\ source # Null
  /\ Goto(t, "decide", [NoWork EXCEPT !.source = source, !.due = TRUE])
  /\ ReadOnly

\* Mutant: the interval is ignored.
NeverTooEarly == TRUE

\* The monitoring interval has elapsed since the latest observation.
IntervalElapsed == Latest = 0 \/ now >= observations[Latest].at + Interval

\* ... asks run_decision of each ...
Decide(t) ==
  /\ pc[t] = "decide"
  /\ IF work[t].source.enabled /\ IntervalElapsed
     THEN Goto(t, "check", work[t])
     ELSE Finish(t)
  /\ ReadOnly

\* ... and check_source reads the source again.
CheckDue(t) ==
  /\ pc[t] = "check"
  /\ IF source.enabled
     THEN Goto(t, "previous", [work[t] EXCEPT !.source = source, !.at = now])
     ELSE Finish(t)
  /\ ReadOnly

\* Mutant: previous is the newest usable observation.
ReadPreviousUsable(t) ==
  /\ pc[t] = "previous"
  /\ \E i \in Ids \cup {0} :
       /\ IF \E j \in Ids : observations[j].usable
          THEN /\ i # 0
               /\ observations[i].usable
               /\ \A j \in Ids \ {i} : observations[j].usable => Newer(i, j)
          ELSE i = 0
       /\ Goto(t, "baseline", [work[t] EXCEPT !.previous = i])
  /\ ReadOnly

ReadPrevious(t) ==
  /\ pc[t] = "previous"
  /\ Goto(t, "baseline", [work[t] EXCEPT !.previous = Latest])
  /\ ReadOnly

ReadBaseline(t) ==
  /\ pc[t] = "baseline"
  /\ Goto(t, "save", [work[t] EXCEPT !.baseline = baseline])
  /\ ReadOnly

BecomesBaseline(w, r) == w.baseline = 0 /\ r.usable

\* The dataset is read and judged, then one transaction inserts the
\* observation and its candidate and, if no baseline was read, moves the
\* baseline to it.
Save(t) ==
  /\ pc[t] = "save"
  /\ Len(observations) < MaxObservations
  /\ \E r \in Results :
       LET w  == work[t]
           id == Len(observations) + 1
       IN  /\ r.raw => w.source.unique_keys
           /\ observations' = Append(observations,
                [at |-> w.at, health |-> r.health, usable |-> r.usable, raw |-> r.raw])
           /\ candidates' = candidates \cup
                {Evaluate(c, w.source.transitions) :
                   c \in NotificationCandidate(HealthOf(w.previous), id, r.health)}
           /\ baseline' = IF BecomesBaseline(w, r) THEN id ELSE baseline
           /\ scheduled' = IF w.due THEN scheduled \cup {id} ELSE scheduled
           /\ IF w.source.unique_keys
              THEN Goto(t, "pruneBaseline", [NoWork EXCEPT !.source = w.source])
              ELSE Finish(t)
  /\ UNCHANGED <<source, now, unpruned>>

\* Mutant: only the newest observations are kept.
PruneReadNothing(t) ==
  /\ pc[t] = "pruneBaseline"
  /\ Goto(t, "pruneList", work[t])
  /\ ReadOnly

PruneReadBaseline(t) ==
  /\ pc[t] = "pruneBaseline"
  /\ Goto(t, "pruneList", [work[t] EXCEPT !.keep = {baseline} \cap Raw])
  /\ ReadOnly

\* Mutant: one snapshot too many is kept.
KeptSnapshotsPlusOne == NewestOf(NewestOf(Ids, PruneLimit) \cap Raw, Retention + 1)

KeptSnapshots == NewestOf(NewestOf(Ids, PruneLimit) \cap Raw, Retention)

PruneList(t) ==
  /\ pc[t] = "pruneList"
  /\ Goto(t, "pruneWrite", [work[t] EXCEPT !.keep = @ \cup KeptSnapshots])
  /\ ReadOnly

\* Every other row of the source loses its row values.
PruneWrite(t) ==
  /\ pc[t] = "pruneWrite"
  /\ observations' =
       [i \in Ids |-> [observations[i] EXCEPT !.raw = @ /\ i \in work[t].keep]]
  /\ unpruned' = FALSE
  /\ Finish(t)
  /\ UNCHANGED <<source, baseline, candidates, now, scheduled>>

-----------------------------------------------------------------------------
(* Promotion of a reviewed observation.                                    *)

\* The caller names the baseline it saw and the observation it chose.
RequestPromotion(t, expected, target) ==
  /\ pc[t] = "idle"
  /\ source # Null
  /\ Goto(t, "promoteCheck", [NoWork EXCEPT !.expected = expected, !.target = target])
  /\ ReadOnly

\* Mutant: the baseline the caller saw is not compared.
PromoteUnchecked(t) ==
  /\ pc[t] = "promoteCheck"
  /\ IF baseline # 0
     THEN Goto(t, "promoteReview", work[t])
     ELSE Finish(t)
  /\ ReadOnly

\* "Baseline changed since review; refresh the candidate before promoting."
PromoteCheck(t) ==
  /\ pc[t] = "promoteCheck"
  /\ IF baseline # 0 /\ baseline = work[t].expected
     THEN Goto(t, "promoteReview", work[t])
     ELSE Finish(t)
  /\ ReadOnly

\* baseline_review: its reads of the observation see what never changes.
PromoteReview(t) ==
  /\ pc[t] = "promoteReview"
  /\ LET target == work[t].target
     IN  IF /\ baseline # 0
            /\ observations[target].usable
            /\ observations[target].health = "Healthy"
            /\ target # baseline
         THEN Goto(t, "promoteWrite", work[t])
         ELSE Finish(t)
  /\ ReadOnly

\* The store moves the baseline wherever it is now.
PromoteWrite(t) ==
  /\ pc[t] = "promoteWrite"
  /\ baseline' = work[t].target
  /\ Goto(t, "promoteSource", NoWork)
  /\ UNCHANGED <<source, observations, candidates, now, scheduled, unpruned>>

PromoteReadSource(t) ==
  /\ pc[t] = "promoteSource"
  /\ IF source.unique_keys
     THEN Goto(t, "pruneBaseline", [NoWork EXCEPT !.source = source])
     ELSE Finish(t)
  /\ ReadOnly

-----------------------------------------------------------------------------
(* Evaluation of candidates no policy has seen.                            *)

EvaluatePending(t) ==
  /\ pc[t] = "idle"
  /\ source # Null
  /\ Goto(t, "evaluateList", [NoWork EXCEPT !.source = source])
  /\ ReadOnly

\* Mutant: candidates already decided are evaluated again.
ListAllCandidates == candidates

PendingCandidates == {c \in candidates : c.state = "Pending"}

EvaluateList(t) ==
  /\ pc[t] = "evaluateList"
  /\ IF PendingCandidates # {}
     THEN Goto(t, "evaluateWrite", [work[t] EXCEPT !.todo = PendingCandidates])
     ELSE Finish(t)
  /\ ReadOnly

\* Newest first; the row is overwritten whatever it has become.
EvaluateWrite(t) ==
  /\ pc[t] = "evaluateWrite"
  /\ \E c \in work[t].todo :
       /\ \A d \in work[t].todo \ {c} : Newer(c.observation, d.observation)
       /\ candidates' = {d \in candidates : d.observation # c.observation}
                          \cup {Evaluate(c, work[t].source.transitions)}
       /\ IF work[t].todo = {c}
          THEN Finish(t)
          ELSE Goto(t, "evaluateWrite", [work[t] EXCEPT !.todo = @ \ {c}])
  /\ UNCHANGED <<source, observations, baseline, now, scheduled, unpruned>>

-----------------------------------------------------------------------------
CheckStep(t) ==
  \/ ReadPrevious(t)
  \/ ReadBaseline(t)
  \/ Save(t)
  \/ PruneReadBaseline(t)
  \/ PruneList(t)
  \/ PruneWrite(t)

PromoteStep(t) ==
  \/ \E expected, target \in Ids : RequestPromotion(t, expected, target)
  \/ PromoteCheck(t)
  \/ PromoteReview(t)
  \/ PromoteWrite(t)
  \/ PromoteReadSource(t)

EvaluateStep(t) == EvaluatePending(t) \/ EvaluateList(t) \/ EvaluateWrite(t)

EditStep(t) ==
  \/ \E d \in Definitions : AddSource(t, d) \/ UpdateSource(t, d) \/ Onboard(t, d)
  \/ OnboardWrite(t)

Next ==
  \/ \E t \in Checker : CheckSource(t)
  \/ \E t \in Scheduler : ListDue(t) \/ Decide(t) \/ CheckDue(t)
  \/ \E t \in Reviewer : PromoteStep(t)
  \/ \E t \in Evaluator : EvaluateStep(t)
  \/ \E t \in Editor : EditStep(t)
  \/ \E t \in Thread : CheckStep(t) \/ Abandon(t)
  \/ Tick

Spec == Init /\ [][Next]_vars

-----------------------------------------------------------------------------
\* Every variable keeps its type, and indices point at saved observations.
TypeOK ==
  /\ source \in Definitions \cup {Null}
  /\ observations \in Seq(Observation)
  /\ baseline \in Ids \cup {0}
  /\ candidates \subseteq CandidateRow
  /\ \A c \in candidates : c.observation \in Ids
  /\ now \in Nat
  /\ pc \in [Thread -> Step]
  /\ work \in [Thread -> Work]
  /\ \A t \in Thread :
       /\ work[t].source \in Definitions \cup {Null}
       /\ {work[t].previous, work[t].baseline, work[t].expected, work[t].target}
            \subseteq Ids \cup {0}
       /\ work[t].keep \subseteq Ids
  /\ scheduled \subseteq Ids
  /\ unpruned \in BOOLEAN

Between(i, j) == {k \in Ids : Newer(k, i) /\ Newer(j, k)}

\* The observation before i in time, 0 if i is the oldest.
Before(i) ==
  LET older == {j \in Ids : Newer(i, j)}
  IN  IF older = {} THEN 0 ELSE CHOOSE j \in older : \A k \in older \ {j} : Newer(j, k)

\* An incident is announced once (tests/test_incident_transitions.py:38): between
\* two Opened candidates there is a Healthy observation.
OneOpenedPerIncident ==
  \A c, d \in candidates :
    /\ c.transition = "Opened"
    /\ d.transition = "Opened"
    /\ Newer(d.observation, c.observation)
    => \E i \in Between(c.observation, d.observation) : observations[i].health = "Healthy"

\* What incident() shows agrees with what was announced: the observation it
\* says opened the incident raised the Opened candidate, unless the incident
\* is older than the observations listed; a Critical peak and a recovery have
\* candidates too (service.py, incident).
IncidentWasAnnounced ==
  LET incident  == LatestIncident
      truncated == Cardinality(NewestOf(Ids, IncidentLimit)) = IncidentLimit
      Announced(ids, t, healths) ==
        \E c \in candidates : /\ c.observation \in ids
                              /\ c.transition = t
                              /\ observations[c.observation].health \in healths
  IN  incident # Null =>
        /\ \/ Announced({incident.opened}, "Opened", Healths)
           \/ truncated /\ \A i \in NewestOf(Ids, IncidentLimit) \ {incident.opened} :
                              Newer(i, incident.opened)
        /\ incident.recovered # 0 => Announced({incident.recovered}, "Recovered", {"Healthy"})
        /\ incident.peak = "Critical" =>
             \/ Announced(incident.block, "Opened", {"Critical"})
             \/ Announced(incident.block, "Escalated", {"Critical"})
             \/ truncated

\* A promotion replaces the baseline its reviewer saw: "Baseline changed since
\* review; refresh the candidate before promoting" (service.py:449).
PromotesFromReviewed ==
  [][\A t \in Reviewer :
       pc[t] = "promoteWrite" /\ pc'[t] = "promoteSource" => work[t].expected = baseline]_vars

\* A policy decision is immutable (docs/MILESTONES.md:29).
PolicyDecisionImmutable ==
  [][\A c \in candidates : c.state # "Pending" => c \in candidates']_vars

\* A policy decision outlives every evaluation but those already under way when
\* it was made: what was decided is never Pending again, and changes only
\* when an evaluation that had listed the very candidate as Pending decides it
\* once more by the policy it had read; no later edit, check or evaluation
\* touches it (service.py:172-194).
DecisionRevisedInFlight ==
  [][\A c \in candidates : c.state # "Pending" /\ c \notin candidates' =>
       \E t \in Evaluator : \E d \in work[t].todo :
         /\ pc[t] = "evaluateWrite"
         /\ d = [c EXCEPT !.state = "Pending", !.policy = Null]
         /\ Evaluate(d, work[t].source.transitions) \in candidates']_vars

\* The row values kept are those of the Retention "recent successful snapshots
\* plus active baseline" (templates/source.html:186): no others are dropped.
WindowKept ==
  [][\A i \in Raw : ~observations'[i].raw =>
       i # baseline /\ i \notin NewestOf(Raw, Retention)]_vars

\* Once every check has run to its end, row values are kept for the window
\* and the baseline and for nothing else, in whatever order checks and
\* promotions overlapped (service.py, _prune_row_diff_payloads).
RetentionBound ==
  (\A t \in Thread : pc[t] = "idle") /\ ~unpruned => Cardinality(Raw) <= Retention + 1
=============================================================================

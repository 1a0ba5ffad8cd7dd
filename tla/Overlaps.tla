------------------------------- MODULE Overlaps -------------------------------
(***************************************************************************)
(* The threads of Monitoring, however many overlap, with a record of what  *)
(* each of them no longer knows.  The service compares what it read in one *)
(* store call and writes in a later one, so what it promises holds for     *)
(* threads that were not overtaken in between; the properties here say by  *)
(* what, and what holds of the others too.                                 *)
(*                                                                         *)
(* missed and raced are history: no action of Monitoring reads them.       *)
(***************************************************************************)
EXTENDS Monitoring

VARIABLES
  missed, \* thread -> what others have changed since it read it
  raced   \* observations saved by a check that another had overtaken

overlapVars == <<missed, raced>>
allVars == <<vars, overlapVars>>

\* "history": the observations there are; "rows": also their row values.
Readable == {"history", "rows", "baseline"}

Changed ==
  {x \in Readable : \/ x = "history" /\ Len(observations') # Len(observations)
                    \/ x = "rows" /\ observations' # observations
                    \/ x = "baseline" /\ baseline' # baseline}

\* What a thread has just read when step is the next it takes.
JustRead(step) ==
  {x \in Readable : \/ x = "history" /\ step = "check"
                    \/ x = "rows" /\ step = "pruneWrite"
                    \/ x = "baseline" /\ step \in {"save", "promoteReview", "pruneList"}}

Moves(t) == pc'[t] # pc[t] \/ work'[t] # work[t]

\* A check reads the history and takes its time when it begins, and one that
\* is made because it is due when that is decided.
Overtake ==
  /\ missed' = [t \in Thread |-> CASE pc'[t] = "idle" -> {}
                                   [] pc'[t] # "idle" /\ Moves(t)  -> missed[t] \ JustRead(pc'[t])
                                   [] pc'[t] # "idle" /\ ~Moves(t) -> missed[t] \cup Changed]
  /\ raced' = raced \cup
       {i \in DOMAIN observations' \ DOMAIN observations :
          \E t \in Thread : Moves(t) /\ pc[t] = "save" /\ "history" \in missed[t]}

OInit ==
  /\ Init
  /\ missed = [t \in Thread |-> {}]
  /\ raced = {}

ONext == Next /\ Overtake

OSpec == OInit /\ [][ONext]_allVars

-----------------------------------------------------------------------------
(* Properties.                                                             *)

\* The candidates raised one check at a time are those the reliability
\* scorecard derives later from the whole history (scorecards.py,
\* _incident_events), although a check knows one observation only and reads it
\* well before it saves.  Checks may overlap: a check that was overtaken may
\* tell a wrong transition, and so may one that another, begun earlier, was
\* saved after; nobody else's candidate is affected (service.py:503).
CandidatesMatchHistory ==
  \A i \in Ids \ raced : Before(i) < i =>
    {<<c.transition, c.previous_health>> : c \in {d \in candidates : d.observation = i}} =
    {<<c.transition, c.previous_health>> :
       c \in NotificationCandidate(HealthOf(Before(i)), i, observations[i].health)}

\* A check that ran because it was due comes at least the interval after the
\* observation before it, unless another was saved between the decision and
\* its own save: two scheduled runs may both find a source due, and only
\* then is it checked too soon (scheduler.py:32, service.py:475).
DueChecksSpaced ==
  \A i \in scheduled \ raced : Before(i) < i /\ Before(i) # 0 =>
    observations[i].at >= observations[Before(i)].at + Interval

\* An established baseline moves only to a Healthy observation a reviewer asked
\* for, from the baseline that reviewer saw, or by a thread that was overtaken:
\* somebody else moved the baseline after it had compared it.  A check can
\* move it only so, and whoever moves it, what was promoted is usable
\* (service.py:440-454, 592).
GuardedPromotion ==
  [][baseline # 0 /\ baseline' # baseline =>
       /\ observations'[baseline'].usable
       /\ \E t \in Thread :
            /\ Moves(t)
            /\ \/ /\ pc[t] = "promoteWrite"
                  /\ baseline' = work[t].target
                  /\ observations[baseline'].health = "Healthy"
                  /\ work[t].expected = baseline \/ "baseline" \in missed[t]
               \/ /\ pc[t] = "save"
                  /\ "baseline" \in missed[t]]_allVars

\* Pruning spares the row values of the active baseline and of the newest
\* Retention snapshots among the newest PruneLimit observations; those of a
\* baseline or of a snapshot that came after it had read them it may drop,
\* and nothing but a pruning drops any (service.py:420-438).
PruneKeepsWindow ==
  [][\A i \in Raw : ~observations'[i].raw =>
       \E t \in Thread :
         /\ Moves(t)
         /\ pc[t] = "pruneWrite"
         /\ i # baseline \/ "baseline" \in missed[t]
         /\ \/ Cardinality({j \in Raw : Newer(j, i)}) >= Retention
            \/ Cardinality({j \in Ids : Newer(j, i)}) >= PruneLimit
            \/ "rows" \in missed[t]]_allVars
=============================================================================

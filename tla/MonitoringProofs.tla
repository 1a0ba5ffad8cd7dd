--------------------------- MODULE MonitoringProofs ---------------------------
(***************************************************************************)
(* What holds of a monitored source however many threads work on it, and   *)
(* what holds of the incidents shown when one thread checks: the           *)
(* counterexample of MonitoringDoubleOpened.cfg has two.                   *)
(***************************************************************************)
EXTENDS Scorecards, Overlaps, FiniteSetTheorems, SequenceTheorems, WellFoundedInduction, TLAPS

USE MonitoringAssumption

-----------------------------------------------------------------------------
(* Numbers.                                                                *)

LEMMA LeastOf ==
  ASSUME NEW T \in SUBSET Nat, T # {} PROVE \E m \in T : \A n \in T : m <= n
<1>1. PICK R : R = {p \in Nat \X Nat : p[1] < p[2]}
  OBVIOUS
<1>2. IsWellFoundedOn(R, Nat)
  BY <1>1, NatLessThanWellFounded DEF OpToRel
<1>3. \E m \in T : \A n \in T : <<n, m>> \notin R
  BY <1>2, WFMin
<1>4. \A m, n \in Nat : <<n, m>> \in R <=> n < m
  BY <1>1
<1>5. \A m, n \in Nat : ~(n < m) => m <= n
  OBVIOUS
<1> QED BY <1>3, <1>4, <1>5

-----------------------------------------------------------------------------
(* Types.  The step a thread is at says what it has read, and who it is.   *)

Pruning   == {"pruneBaseline", "pruneList", "pruneWrite"}
Reviewing == {"promoteCheck", "promoteReview", "promoteWrite"}

\* A thread of which the next step is step and which holds w.
TypedThread(t, step, w) ==
  /\ step \in Step /\ w \in Work
  /\ w.source \in Definitions \cup {Null}
  /\ {w.previous, w.baseline, w.expected, w.target} \subseteq Ids \cup {0}
  /\ w.keep \subseteq Ids
  /\ \A c \in w.todo : c.observation \in Ids
  /\ step \in {"decide", "check", "previous", "baseline", "save", "evaluateList",
               "evaluateWrite", "onboardWrite"} => w.source \in Definitions
  /\ step \notin {"idle", "onboardWrite"} => source \in Definitions
  /\ step \in Reviewing => w.target \in Ids
  /\ step \in {"decide", "check"} => t \in Scheduler
  /\ step \in {"previous", "baseline", "save"} => t \in Checker \cup Scheduler
  /\ step \in Reviewing \cup {"promoteSource"} => t \in Reviewer
  /\ step \in Pruning => t \in Checker \cup Scheduler \cup Reviewer
  /\ step \in {"evaluateList", "evaluateWrite"} => t \in Evaluator

TypedSource ==
  /\ source \in Definitions \cup {Null}
  /\ observations \in Seq(Observation)
  /\ baseline \in Ids \cup {0}
  /\ candidates \subseteq CandidateRow
  /\ \A c \in candidates : c.observation \in Ids
  /\ now \in Nat
  /\ scheduled \subseteq Ids
  /\ unpruned \in BOOLEAN

TypeInv ==
  /\ TypedSource
  /\ pc \in [Thread -> Step] /\ work \in [Thread -> Work]
  /\ \A t \in Thread : TypedThread(t, pc[t], work[t])

LEMMA TypeInvTypes == TypeInv => TypeOK
  BY DEF TypeInv, TypedSource, TypedThread, TypeOK

LEMMA NullIsNone ==
  /\ Null \notin Definitions /\ Null \notin Healths /\ Null \notin Transitions
  /\ \A d \in Definitions : d.transitions \in SUBSET Transitions /\ d.enabled \in BOOLEAN
                              /\ d.unique_keys \in BOOLEAN
  BY DEF Definition

LEMMA IdsAre ==
  ASSUME TypeInv
  PROVE  /\ Len(observations) \in Nat /\ Ids = 1..Len(observations)
         /\ \A i \in Ids : observations[i] \in Observation
  BY DEF TypeInv, TypedSource, Ids

\* A step that only moves a thread.
LEMMA QuietTyped ==
  ASSUME TypeInv, NEW t \in Thread, NEW step, NEW w, Goto(t, step, w), ReadOnly,
         TypedThread(t, step, w)
  PROVE  TypeInv'
<1>1. UNCHANGED <<source, observations, baseline, candidates, now, scheduled, unpruned>>
  BY DEF ReadOnly, sourceVars
<1>2. Ids' = Ids
  BY <1>1 DEF Ids
<1>3. TypedSource'
  BY <1>1, <1>2 DEF TypeInv, TypedSource
<1>4. step \in Step /\ w \in Work
  BY DEF TypedThread
<1>5. /\ pc' \in [Thread -> Step] /\ work' \in [Thread -> Work]
      /\ pc'[t] = step /\ work'[t] = w
      /\ \A s \in Thread \ {t} : pc'[s] = pc[s] /\ work'[s] = work[s]
  BY <1>4 DEF Goto, TypeInv
<1>6. ASSUME NEW s \in Thread PROVE TypedThread(s, pc[s], work[s])' 
  <2>1. TypedThread(s, pc'[s], work'[s])
    BY <1>5 DEF TypeInv
  <2> QED BY <1>1, <1>2, <2>1 DEF TypedThread
<1> QED BY <1>3, <1>5, <1>6 DEF TypeInv

\* A step that writes: the history may grow, and the source be defined.
LEMMA WriteTyped ==
  ASSUME TypeInv, NEW t \in Thread, NEW step, NEW w, Goto(t, step, w), TypedSource',
         Ids \subseteq Ids', source' = source \/ source' \in Definitions,
         TypedThread(t, step, w)
  PROVE  TypeInv'
<1>1. step \in Step /\ w \in Work
  BY DEF TypedThread
<1>2. /\ pc' \in [Thread -> Step] /\ work' \in [Thread -> Work]
      /\ pc'[t] = step /\ work'[t] = w
      /\ \A s \in Thread \ {t} : pc'[s] = pc[s] /\ work'[s] = work[s]
  BY <1>1 DEF Goto, TypeInv
<1>3. ASSUME NEW s \in Thread PROVE TypedThread(s, pc[s], work[s])'
  <2>1. TypedThread(s, pc'[s], work'[s])
    BY <1>2 DEF TypeInv
  <2> QED BY <2>1 DEF TypedThread
<1> QED BY <1>2, <1>3 DEF TypeInv

LEMMA NoWorkTyped ==
  /\ NoWork \in Work
  /\ \A t, step : step = "idle" => TypedThread(t, step, NoWork)
<1>1. NoWork \in Work
  BY DEF NoWork, Work
<1> QED BY <1>1 DEF TypedThread, NoWork, Step, Reviewing, Pruning

LEMMA FinishTyped ==
  ASSUME TypeInv, NEW t \in Thread, Finish(t), ReadOnly PROVE TypeInv'
  BY NoWorkTyped, QuietTyped DEF Finish

-----------------------------------------------------------------------------
(* Each step keeps the types.                                              *)

\* The steps of a thread that write nothing.
QuietSteps(t) ==
  \/ t \in Checker /\ CheckSource(t)
  \/ t \in Scheduler /\ (ListDue(t) \/ Decide(t) \/ CheckDue(t))
  \/ t \in Reviewer /\ \E expected, target \in Ids : RequestPromotion(t, expected, target)
  \/ t \in Reviewer /\ (PromoteCheck(t) \/ PromoteReview(t) \/ PromoteReadSource(t))
  \/ t \in Evaluator /\ (EvaluatePending(t) \/ EvaluateList(t))
  \/ t \in Editor /\ \E d \in Definitions : Onboard(t, d)
  \/ ReadPrevious(t) \/ ReadBaseline(t) \/ PruneReadBaseline(t) \/ PruneList(t)

\* Newer orders the observations.
LEMMA NewerOrders ==
  ASSUME TypeInv, NEW i \in Ids, NEW j \in Ids
  PROVE  /\ ~Newer(i, i) /\ (i # j => Newer(i, j) \/ Newer(j, i)) /\ ~(Newer(i, j) /\ Newer(j, i))
         /\ \A k \in Ids : Newer(i, j) /\ Newer(j, k) => Newer(i, k)
<1>1. \A k \in Ids : k \in Nat /\ observations[k].at \in Nat
  BY IdsAre DEF Observation
<1> QED BY <1>1 DEF Newer

\* How many of the observations ids are newer than i.
Rank(i, ids) == Cardinality({j \in ids : Newer(j, i)})

LEMMA RankOrders ==
  ASSUME TypeInv, NEW ids \in SUBSET Ids, NEW i \in ids
  PROVE  /\ Rank(i, ids) \in Nat
         /\ \A k \in ids : Newer(i, k) => Rank(i, ids) < Rank(k, ids)
<1>1. IsFiniteSet(ids)
  <2>1. Ids = 1..Len(observations) /\ 1 \in Int /\ Len(observations) \in Int
    BY IdsAre
  <2>2. IsFiniteSet(Ids)
    BY <2>1, FS_Interval
  <2> QED BY <2>2, FS_Subset
<1>2. \A k \in ids : IsFiniteSet({j \in ids : Newer(j, k)}) /\ Rank(k, ids) \in Nat
  BY <1>1, FS_Subset, FS_CardinalityType DEF Rank
<1>3. ASSUME NEW k \in ids, Newer(i, k) PROVE Rank(i, ids) < Rank(k, ids)
  <2>1. PICK mine, others : mine = {j \in ids : Newer(j, i)} /\ others = {j \in ids : Newer(j, k)}
    OBVIOUS
  <2>2. mine \in SUBSET others /\ mine # others
    BY <1>3, <2>1, NewerOrders
  <2>3. IsFiniteSet(others)
    BY <1>2, <2>1
  <2>4. Cardinality(mine) <= Cardinality(others) /\ Cardinality(mine) # Cardinality(others)
    BY <2>2, <2>3, FS_Subset
  <2> QED BY <1>2, <2>1, <2>4 DEF Rank
<1> QED BY <1>2, <1>3

\* Of any observations, one is newer than the others.
LEMMA NewestExists ==
  ASSUME TypeInv, NEW ids \in SUBSET Ids, ids # {}
  PROVE  \E i \in ids : \A j \in ids \ {i} : Newer(i, j)
<1>1. PICK ranks : ranks = {Rank(i, ids) : i \in ids}
  OBVIOUS
<1>2. ranks \in SUBSET Nat /\ ranks # {}
  BY <1>1, RankOrders
<1>3. PICK m \in ranks : \A n \in ranks : m <= n
  BY <1>2, LeastOf
<1>4. PICK i \in ids : Rank(i, ids) = m
  BY <1>1
<1>5. ASSUME NEW j \in ids \ {i} PROVE Newer(i, j)
  <2>1. ~(Rank(j, ids) < Rank(i, ids))
    BY <1>1, <1>2, <1>3, <1>4
  <2> QED BY <2>1, RankOrders, NewerOrders
<1> QED BY <1>5

LEMMA LatestIsNewest ==
  ASSUME TypeInv
  PROVE  /\ Latest \in Ids \cup {0} /\ (Latest = 0 <=> Ids = {})
         /\ Ids # {} => Latest \in Ids /\ \A j \in Ids \ {Latest} : Newer(Latest, j)
<1>1. 0 \notin Ids
  BY IdsAre
<1> QED BY <1>1, NewestExists DEF Latest

LEMMA NewWork ==
  ASSUME NEW d \in Definitions
  PROVE  /\ [NoWork EXCEPT !.source = d] \in Work
         /\ [NoWork EXCEPT !.source = d].source = d
         /\ \A n \in Nat : [NoWork EXCEPT !.source = d, !.at = n] \in Work
  BY DEF NoWork, Work

LEMMA QuietStepTyped ==
  ASSUME TypeInv, NEW t \in Thread, QuietSteps(t) PROVE TypeInv'
<1> USE DEF Thread
<1>0. /\ TypedThread(t, pc[t], work[t]) /\ TypedSource /\ work[t] \in Work
      /\ pc \in [Thread -> Step]
  BY DEF TypeInv
<1>1. CASE t \in Checker /\ CheckSource(t)
  <2>1. PICK w : w = [NoWork EXCEPT !.source = source, !.at = now]
    OBVIOUS
  <2>2. Goto(t, "previous", w) /\ ReadOnly /\ source \in Definitions
    BY <1>0, <1>1, <2>1 DEF CheckSource, TypedSource
  <2>3. w \in Work /\ TypedThread(t, "previous", w)
    BY <1>0, <1>1, <2>1, <2>2 DEF TypedThread, TypedSource, NoWork, Work, Step, Reviewing, Pruning
  <2> QED BY <2>2, <2>3, QuietTyped
<1>2. CASE t \in Scheduler /\ ListDue(t)
  <2>1. PICK w : w = [NoWork EXCEPT !.source = source, !.due = TRUE]
    OBVIOUS
  <2>2. Goto(t, "decide", w) /\ ReadOnly /\ source \in Definitions
    BY <1>0, <1>2, <2>1 DEF ListDue, TypedSource
  <2>3. w \in Work /\ TypedThread(t, "decide", w)
    BY <1>0, <1>2, <2>1, <2>2 DEF TypedThread, TypedSource, NoWork, Work, Step, Reviewing, Pruning
  <2> QED BY <2>2, <2>3, QuietTyped
<1>3. CASE t \in Scheduler /\ Decide(t)
  <2>1. ReadOnly /\ (Finish(t) \/ Goto(t, "check", work[t])) /\ pc[t] = "decide"
    BY <1>3 DEF Decide
  <2>2. TypedThread(t, "check", work[t])
    BY <1>0, <1>3, <2>1 DEF TypedThread, Step, Reviewing, Pruning
  <2> QED BY <2>1, <2>2, QuietTyped, FinishTyped
<1>4. CASE t \in Scheduler /\ CheckDue(t)
  <2>1. PICK w : w = [work[t] EXCEPT !.source = source, !.at = now]
    OBVIOUS
  <2>2. ReadOnly /\ (Finish(t) \/ Goto(t, "previous", w)) /\ pc[t] = "check"
    BY <1>4, <2>1 DEF CheckDue
  <2>3. TypedThread(t, "previous", w)
    BY <1>0, <1>4, <2>1, <2>2 DEF TypedThread, TypedSource, Work, Step, Reviewing, Pruning
  <2> QED BY <2>2, <2>3, QuietTyped, FinishTyped
<1>5. ASSUME NEW expected \in Ids, NEW target \in Ids, t \in Reviewer,
             RequestPromotion(t, expected, target)
      PROVE  TypeInv'
  <2>1. PICK w : w = [NoWork EXCEPT !.expected = expected, !.target = target]
    OBVIOUS
  <2>2. Goto(t, "promoteCheck", w) /\ ReadOnly /\ source \in Definitions
    BY <1>0, <1>5, <2>1 DEF RequestPromotion, TypedSource
  <2>3. expected \in Nat /\ target \in Nat
    BY IdsAre
  <2>4. TypedThread(t, "promoteCheck", w)
    BY <1>0, <1>5, <2>1, <2>2, <2>3 DEF TypedThread, NoWork, Work, Step, Reviewing, Pruning
  <2> QED BY <2>2, <2>4, QuietTyped
<1>6. CASE t \in Reviewer /\ (PromoteCheck(t) \/ PromoteReview(t))
  <2>1. /\ ReadOnly /\ pc[t] \in {"promoteCheck", "promoteReview"}
        /\ Finish(t) \/ Goto(t, "promoteReview", work[t]) \/ Goto(t, "promoteWrite", work[t])
    BY <1>6 DEF PromoteCheck, PromoteReview
  <2>2. TypedThread(t, "promoteReview", work[t]) /\ TypedThread(t, "promoteWrite", work[t])
    BY <1>0, <1>6, <2>1 DEF TypedThread, Step, Reviewing, Pruning
  <2> QED BY <2>1, <2>2, QuietTyped, FinishTyped
<1>7. CASE t \in Reviewer /\ PromoteReadSource(t)
  <2>1. PICK w : w = [NoWork EXCEPT !.source = source]
    OBVIOUS
  <2>2. ReadOnly /\ (Finish(t) \/ Goto(t, "pruneBaseline", w)) /\ pc[t] = "promoteSource"
    BY <1>7, <2>1 DEF PromoteReadSource
  <2>3. TypedThread(t, "pruneBaseline", w)
    BY <1>0, <1>7, <2>1, <2>2 DEF TypedThread, NoWork, Work, Step, Reviewing, Pruning
  <2> QED BY <2>2, <2>3, QuietTyped, FinishTyped
<1>8. CASE t \in Evaluator /\ EvaluatePending(t)
  <2>1. PICK w : w = [NoWork EXCEPT !.source = source]
    OBVIOUS
  <2>2. Goto(t, "evaluateList", w) /\ ReadOnly /\ source \in Definitions
    BY <1>0, <1>8, <2>1 DEF EvaluatePending, TypedSource
  <2>3. TypedThread(t, "evaluateList", w)
    BY <1>0, <1>8, <2>1, <2>2 DEF TypedThread, NoWork, Work, Step, Reviewing, Pruning
  <2> QED BY <2>2, <2>3, QuietTyped
<1>9. CASE t \in Evaluator /\ EvaluateList(t)
  <2>1. PICK w : w = [work[t] EXCEPT !.todo = PendingCandidates]
    OBVIOUS
  <2>2. ReadOnly /\ (Finish(t) \/ Goto(t, "evaluateWrite", w)) /\ pc[t] = "evaluateList"
    BY <1>9, <2>1 DEF EvaluateList
  <2>3. PendingCandidates \subseteq CandidateRow /\ \A c \in PendingCandidates : c.observation \in Ids
    BY <1>0 DEF PendingCandidates, TypedSource
  <2>4. /\ w \in Work /\ w.todo = PendingCandidates /\ w.source = work[t].source
        /\ w.previous = work[t].previous /\ w.baseline = work[t].baseline
        /\ w.expected = work[t].expected /\ w.target = work[t].target /\ w.keep = work[t].keep
    BY <1>0, <2>1, <2>3 DEF Work
  <2>5. TypedThread(t, "evaluateWrite", w)
    BY <1>0, <1>9, <2>2, <2>3, <2>4 DEF TypedThread, Step, Reviewing, Pruning
  <2> QED BY <2>2, <2>5, QuietTyped, FinishTyped
<1>10. ASSUME NEW d \in Definitions, Onboard(t, d) PROVE TypeInv'
  <2>1. PICK w : w = [NoWork EXCEPT !.source = d]
    OBVIOUS
  <2>2. Goto(t, "onboardWrite", w) /\ ReadOnly
    BY <1>10, <2>1 DEF Onboard
  <2>3. TypedThread(t, "onboardWrite", w)
    BY <2>1 DEF TypedThread, NoWork, Work, Step, Reviewing, Pruning
  <2> QED BY <2>2, <2>3, QuietTyped
<1>11. CASE ReadPrevious(t)
  <2>1. PICK w : w = [work[t] EXCEPT !.previous = Latest]
    OBVIOUS
  <2>2. Goto(t, "baseline", w) /\ ReadOnly /\ pc[t] = "previous"
    BY <1>11, <2>1 DEF ReadPrevious
  <2>3. Latest \in Ids \cup {0} /\ Latest \in Nat
    BY LatestIsNewest, IdsAre
  <2>4. TypedThread(t, "baseline", w)
    BY <1>0, <2>1, <2>2, <2>3 DEF TypedThread, Work, Step, Reviewing, Pruning
  <2> QED BY <2>2, <2>4, QuietTyped
<1>12. CASE ReadBaseline(t)
  <2>1. PICK w : w = [work[t] EXCEPT !.baseline = baseline]
    OBVIOUS
  <2>2. Goto(t, "save", w) /\ ReadOnly /\ pc[t] = "baseline"
    BY <1>12, <2>1 DEF ReadBaseline
  <2>3. baseline \in Ids \cup {0} /\ baseline \in Nat
    BY <1>0, IdsAre DEF TypedSource
  <2>4. TypedThread(t, "save", w)
    BY <1>0, <2>1, <2>2, <2>3 DEF TypedThread, Work, Step, Reviewing, Pruning
  <2> QED BY <2>2, <2>4, QuietTyped
<1>13. ASSUME NEW keep \in SUBSET Ids, NEW step \in {"pruneList", "pruneWrite"}, pc[t] \in Pruning,
              ReadOnly, Goto(t, step, [work[t] EXCEPT !.keep = keep])
       PROVE  TypeInv'
  <2>1. PICK w : w = [work[t] EXCEPT !.keep = keep]
    OBVIOUS
  <2>2. keep \in SUBSET Nat
    BY IdsAre
  <2>3. TypedThread(t, step, w)
    BY <1>0, <1>13, <2>1, <2>2 DEF TypedThread, Work, Step, Reviewing, Pruning
  <2> QED BY <1>13, <2>1, <2>3, QuietTyped
<1>14. CASE PruneReadBaseline(t)
  <2>1. {baseline} \cap Raw \in SUBSET Ids
    BY DEF Raw
  <2>2. /\ pc[t] \in Pruning /\ ReadOnly
        /\ Goto(t, "pruneList", [work[t] EXCEPT !.keep = {baseline} \cap Raw])
    BY <1>14 DEF PruneReadBaseline, Pruning
  <2> QED BY <2>1, <2>2, <1>13
<1>15. CASE PruneList(t)
  <2>1. work[t].keep \cup KeptSnapshots \in SUBSET Ids
    BY <1>0 DEF KeptSnapshots, NewestOf, Raw, TypedThread
  <2>2. /\ pc[t] \in Pruning /\ ReadOnly
        /\ Goto(t, "pruneWrite", [work[t] EXCEPT !.keep = work[t].keep \cup KeptSnapshots])
    BY <1>15 DEF PruneList, Pruning
  <2> QED BY <2>1, <2>2, <1>13
<1> QED
  BY <1>1, <1>2, <1>3, <1>4, <1>5, <1>6, <1>7, <1>8, <1>9, <1>10, <1>11, <1>12, <1>14, <1>15
  DEF QuietSteps

LEMMA HealthsAre ==
  ASSUME TypeInv, NEW i \in Ids \cup {0} PROVE HealthOf(i) \in Healths \cup {Null}
<1>1. i = 0 \/ observations[i].health \in Healths
  BY IdsAre DEF Observation
<1> QED BY <1>1 DEF HealthOf

\* What a check that came to r saves.
SavedAs(t, r, o) ==
  /\ pc[t] = "save" /\ Len(observations) < MaxObservations
  /\ r.raw => work[t].source.unique_keys
  /\ o = [at |-> work[t].at, health |-> r.health, usable |-> r.usable, raw |-> r.raw]
  /\ observations' = Append(observations, o)
  /\ candidates' = candidates \cup
       {Evaluate(c, work[t].source.transitions) :
          c \in NotificationCandidate(HealthOf(work[t].previous), Len(observations) + 1, r.health)}
  /\ baseline' = IF BecomesBaseline(work[t], r) THEN Len(observations) + 1 ELSE baseline
  /\ scheduled' = IF work[t].due THEN scheduled \cup {Len(observations) + 1} ELSE scheduled
  /\ IF work[t].source.unique_keys
     THEN Goto(t, "pruneBaseline", [NoWork EXCEPT !.source = work[t].source])
     ELSE Finish(t)
  /\ UNCHANGED <<source, now, unpruned>>

LEMMA SaveIsSavedAs ==
  ASSUME NEW t, Save(t) PROVE \E r \in Results : \E o : SavedAs(t, r, o)
  BY DEF Save, SavedAs

\* The history after a save.
LEMMA HistoryGrows ==
  ASSUME TypeInv, NEW t \in Thread, NEW r \in Results, NEW o, SavedAs(t, r, o)
  PROVE  /\ o \in Observation /\ o.at = work[t].at /\ o.health = r.health /\ o.usable = r.usable
         /\ o.raw = r.raw /\ r.health \in Healths /\ r.usable \in BOOLEAN /\ r.raw \in BOOLEAN
         /\ observations' \in Seq(Observation) /\ Len(observations) + 1 \in Nat \ {0}
         /\ Ids' = Ids \cup {Len(observations) + 1} /\ Len(observations) + 1 \notin Ids
         /\ observations'[Len(observations) + 1] = o
         /\ \A i \in Ids : observations'[i] = observations[i]
<1>1. r \in [health: Healths, usable: BOOLEAN, raw: BOOLEAN]
  BY DEF Result
<1>2. work[t].at \in Nat
  BY DEF TypeInv, Work
<1>3. /\ o \in Observation /\ o.at = work[t].at /\ o.health = r.health /\ o.usable = r.usable
      /\ o.raw = r.raw /\ observations' = Append(observations, o)
  BY <1>1, <1>2 DEF SavedAs, Observation
<1>4. observations \in Seq(Observation) /\ Len(observations) \in Nat /\ Ids = 1..Len(observations)
  BY IdsAre DEF TypeInv, TypedSource
<1> QED BY <1>1, <1>3, <1>4 DEF Ids

\* The candidates after a save.
LEMMA CandidatesRaised ==
  ASSUME TypeInv, NEW t \in Thread, NEW r \in Results, NEW o, SavedAs(t, r, o)
  PROVE  /\ HealthOf(work[t].previous) \in Healths \cup {Null}
         /\ work[t].source \in Definitions
         /\ \A c \in candidates' \ candidates :
              /\ c \in CandidateRow /\ c.observation = Len(observations) + 1
              /\ c.transition = IncidentTransition(HealthOf(work[t].previous), r.health)
              /\ c.previous_health = HealthOf(work[t].previous)
              /\ c.state # "Pending"
         /\ candidates \subseteq candidates'
         /\ \A c, d \in candidates' \ candidates : c = d
         /\ IncidentTransition(HealthOf(work[t].previous), r.health) # Null =>
              \E c \in candidates' : c.observation = Len(observations) + 1
<1> DEFINE before == HealthOf(work[t].previous)
           id == Len(observations) + 1
           enabled == work[t].source.transitions
<1>1. TypedThread(t, "save", work[t]) /\ work[t].source \in Definitions
  <2>1. pc[t] = "save"
    BY DEF SavedAs
  <2>2. TypedThread(t, "save", work[t])
    BY <2>1 DEF TypeInv
  <2> QED BY <2>2 DEF TypedThread
<1>2. enabled \in SUBSET Transitions
  BY <1>1, NullIsNone
<1>3. before \in Healths \cup {Null}
  <2>1. work[t].previous \in Ids \cup {0}
    BY <1>1 DEF TypedThread
  <2> QED BY <2>1, HealthsAre
<1>4. id \in Nat \ {0}
  BY HistoryGrows
<1>5. \A h : IncidentTransition(before, h) \in Transitions \cup {Null}
  BY DEF IncidentTransition, Transitions
<1>6. ASSUME NEW c \in NotificationCandidate(before, id, r.health), NEW e, e = Evaluate(c, enabled)
      PROVE  /\ e \in CandidateRow /\ e.observation = id /\ e.previous_health = before
             /\ e.transition = IncidentTransition(before, r.health) /\ e.state # "Pending"
  <2>1. PICK tr \in Transitions :
          /\ tr = IncidentTransition(before, r.health)
          /\ c = [observation |-> id, transition |-> tr, previous_health |-> before,
                  state |-> "Pending", policy |-> Null]
    BY <1>5, <1>6 DEF NotificationCandidate
  <2>2. /\ e.observation = id /\ e.previous_health = before /\ e.transition = tr
        /\ e.state \in {"Eligible", "Suppressed"} /\ e.policy = enabled
        /\ e = [observation |-> e.observation, transition |-> e.transition,
                previous_health |-> e.previous_health, state |-> e.state, policy |-> e.policy]
    BY <1>6, <2>1 DEF Evaluate
  <2>3. e \in CandidateRow
    BY <1>2, <1>3, <1>4, <2>2 DEF CandidateRow
  <2> QED BY <2>1, <2>2, <2>3
<1>7. candidates' = candidates \cup {Evaluate(c, enabled) : c \in NotificationCandidate(before, id, r.health)}
  BY DEF SavedAs
<1>8. ASSUME IncidentTransition(before, r.health) # Null
      PROVE  \E c \in candidates' : c.observation = id
  <2>1. PICK c : c \in NotificationCandidate(before, id, r.health)
    BY <1>8 DEF NotificationCandidate
  <2>2. Evaluate(c, enabled) \in candidates'
    BY <1>7, <2>1
  <2> QED BY <1>6, <2>1, <2>2
<1>9. \A e \in candidates' \ candidates :
        \E c \in NotificationCandidate(before, id, r.health) : e = Evaluate(c, enabled)
  BY <1>7
<1>11. \A c, d \in NotificationCandidate(before, id, r.health) : c = d
  BY DEF NotificationCandidate
<1>12. \A c, d \in candidates' \ candidates : c = d
  BY <1>9, <1>11
<1> HIDE DEF before, id, enabled
<1>10. \A e \in candidates' \ candidates :
         /\ e \in CandidateRow /\ e.observation = id /\ e.previous_health = before
         /\ e.transition = IncidentTransition(before, r.health) /\ e.state # "Pending"
  BY <1>6, <1>9
<1> QED BY <1>1, <1>3, <1>7, <1>8, <1>10, <1>12 DEF before, id, enabled

LEMMA SaveTyped ==
  ASSUME TypeInv, NEW t \in Thread, NEW r \in Results, NEW o, SavedAs(t, r, o) PROVE TypeInv'
<1> DEFINE id == Len(observations) + 1
<1>1. /\ observations' \in Seq(Observation) /\ Ids' = Ids \cup {id} /\ id \in Ids' /\ id \in Nat
  BY HistoryGrows
<1>2. /\ candidates' \subseteq CandidateRow /\ \A c \in candidates' : c.observation \in Ids'
  BY <1>1, CandidatesRaised DEF TypeInv, TypedSource
<1>3. /\ source' = source /\ now' = now /\ unpruned' = unpruned
      /\ baseline' \in {id, baseline} /\ scheduled' \subseteq scheduled \cup {id}
  BY DEF SavedAs
<1>9. baseline' \in Ids' \cup {0} /\ scheduled' \subseteq Ids'
  BY <1>1, <1>3 DEF TypeInv, TypedSource
<1>4. TypedSource'
  BY <1>1, <1>2, <1>3, <1>9 DEF TypeInv, TypedSource
<1>5. TypedThread(t, "save", work[t])
  <2>1. pc[t] = "save"
    BY DEF SavedAs
  <2> QED BY <2>1 DEF TypeInv
<1>6. PICK w : w = [NoWork EXCEPT !.source = work[t].source]
  OBVIOUS
<1>7. Finish(t) \/ Goto(t, "pruneBaseline", w)
  BY <1>6 DEF SavedAs
<1>8. TypedThread(t, "pruneBaseline", w)
  BY <1>5, <1>6 DEF TypedThread, NoWork, Work, Step, Reviewing, Pruning, Thread
<1> QED BY <1>1, <1>3, <1>4, <1>7, <1>8, WriteTyped, NoWorkTyped DEF Finish

\* A pruning drops row values and nothing else.
LEMMA HistoryPruned ==
  ASSUME TypeInv, NEW t \in Thread, PruneWrite(t)
  PROVE  /\ observations' \in Seq(Observation) /\ Ids' = Ids /\ Len(observations') = Len(observations)
         /\ \A i \in Ids : /\ observations'[i].at = observations[i].at
                           /\ observations'[i].health = observations[i].health
                           /\ observations'[i].usable = observations[i].usable
                           /\ observations'[i].raw <=> observations[i].raw /\ i \in work[t].keep
<1>1. /\ Len(observations) \in Nat /\ Ids = 1..Len(observations)
      /\ \A i \in Ids : observations[i] \in Observation
  BY IdsAre
<1>2. observations' = [i \in Ids |-> [observations[i] EXCEPT !.raw = @ /\ i \in work[t].keep]]
  BY DEF PruneWrite
<1>3. \A i \in Ids :
        LET o == [observations[i] EXCEPT !.raw = @ /\ i \in work[t].keep]
        IN  /\ o \in Observation /\ o.at = observations[i].at /\ o.health = observations[i].health
            /\ o.usable = observations[i].usable
            /\ o.raw <=> observations[i].raw /\ i \in work[t].keep
  BY <1>1 DEF Observation
<1>4. observations' \in [1..Len(observations) -> Observation]
  BY <1>1, <1>2, <1>3
<1>5. observations' \in Seq(Observation)
  BY <1>1, <1>4, SeqDef
<1>6. Ids' = Ids
  BY <1>1, <1>4 DEF Ids
<1>7. Len(observations') = Len(observations)
  BY <1>1, <1>4, <1>5, LenProperties
<1> QED BY <1>2, <1>3, <1>5, <1>6, <1>7

LEMMA PruneWriteTyped ==
  ASSUME TypeInv, NEW t \in Thread, PruneWrite(t) PROVE TypeInv'
<1>1. /\ Finish(t) /\ UNCHANGED <<source, baseline, candidates, now, scheduled>> /\ unpruned' = FALSE
  BY DEF PruneWrite
<1>2. TypedSource'
  BY <1>1, HistoryPruned DEF TypeInv, TypedSource
<1> QED BY <1>1, <1>2, HistoryPruned, WriteTyped, NoWorkTyped DEF Finish

LEMMA PromoteWriteTyped ==
  ASSUME TypeInv, NEW t \in Thread, PromoteWrite(t) PROVE TypeInv'
<1>1. /\ pc[t] = "promoteWrite" /\ baseline' = work[t].target /\ Goto(t, "promoteSource", NoWork)
      /\ UNCHANGED <<source, observations, candidates, now, scheduled, unpruned>>
      /\ Ids' = Ids
  BY DEF PromoteWrite, Ids
<1>2. TypedThread(t, "promoteWrite", work[t])
  BY <1>1 DEF TypeInv
<1>3. TypedSource'
  BY <1>1, <1>2 DEF TypeInv, TypedSource, TypedThread, Reviewing
<1>4. TypedThread(t, "promoteSource", NoWork)
  BY <1>2 DEF TypedThread, NoWork, Work, Step, Reviewing, Pruning
<1> QED BY <1>1, <1>3, <1>4, WriteTyped

\* An evaluation replaces candidate c by what the policy makes of it.
EvaluatedAs(t, c, e) ==
  /\ pc[t] = "evaluateWrite" /\ e = Evaluate(c, work[t].source.transitions)
  /\ candidates' = {d \in candidates : d.observation # c.observation} \cup {e}
  /\ IF work[t].todo = {c}
     THEN Finish(t)
     ELSE Goto(t, "evaluateWrite", [work[t] EXCEPT !.todo = work[t].todo \ {c}])
  /\ UNCHANGED <<source, observations, baseline, now, scheduled, unpruned>>

LEMMA EvaluateWriteIsEvaluatedAs ==
  ASSUME NEW t, EvaluateWrite(t) PROVE \E c \in work[t].todo : \E e : EvaluatedAs(t, c, e)
  BY DEF EvaluateWrite, EvaluatedAs

LEMMA CandidateEvaluated ==
  ASSUME TypeInv, NEW t \in Thread, NEW c \in work[t].todo, NEW e, EvaluatedAs(t, c, e)
  PROVE  /\ c \in CandidateRow /\ c.observation \in Ids
         /\ e \in CandidateRow /\ e.observation = c.observation /\ e.transition = c.transition
         /\ e.previous_health = c.previous_health /\ e.state # "Pending"
<1>1. TypedThread(t, "evaluateWrite", work[t]) /\ work[t].source \in Definitions /\ c.observation \in Ids
  BY DEF TypeInv, EvaluatedAs, TypedThread
<1>2. c \in CandidateRow /\ work[t].source.transitions \in SUBSET Transitions
  BY <1>1, NullIsNone DEF TypedThread, Work
<1>3. e = [c EXCEPT !.state  = IF c.transition \in work[t].source.transitions
                               THEN "Eligible" ELSE "Suppressed",
                    !.policy = work[t].source.transitions]
  BY DEF EvaluatedAs, Evaluate
<1> QED BY <1>1, <1>2, <1>3 DEF CandidateRow

LEMMA EvaluateWriteTyped ==
  ASSUME TypeInv, NEW t \in Thread, NEW c \in work[t].todo, NEW e, EvaluatedAs(t, c, e) PROVE TypeInv'
<1>1. /\ UNCHANGED <<source, observations, baseline, now, scheduled, unpruned>> /\ Ids' = Ids
      /\ candidates' = {d \in candidates : d.observation # c.observation} \cup {e}
  BY DEF EvaluatedAs, Ids
<1>2. TypedSource'
  BY <1>1, CandidateEvaluated DEF TypeInv, TypedSource
<1>3. PICK w : w = [work[t] EXCEPT !.todo = work[t].todo \ {c}]
  OBVIOUS
<1>4. Finish(t) \/ Goto(t, "evaluateWrite", w)
  BY <1>3 DEF EvaluatedAs
<1>5. TypedThread(t, "evaluateWrite", work[t])
  BY DEF TypeInv, EvaluatedAs
<1>6. /\ w \in Work /\ w.todo = work[t].todo \ {c} /\ w.source = work[t].source
      /\ w.previous = work[t].previous /\ w.baseline = work[t].baseline
      /\ w.expected = work[t].expected /\ w.target = work[t].target /\ w.keep = work[t].keep
  BY <1>3, <1>5 DEF TypedThread, Work
<1>7. TypedThread(t, "evaluateWrite", w)
  BY <1>5, <1>6 DEF TypedThread
<1> QED BY <1>1, <1>2, <1>4, <1>7, WriteTyped, NoWorkTyped DEF Finish

LEMMA EditTyped ==
  ASSUME TypeInv, NEW t \in Thread, NEW d \in Definitions, AddSource(t, d) \/ UpdateSource(t, d)
  PROVE  TypeInv'
<1>1. /\ source' = d /\ UNCHANGED <<observations, baseline, candidates, now, scheduled, unpruned, pc, work>>
      /\ Ids' = Ids
  BY DEF AddSource, UpdateSource, UpsertSource, Ids
<1>2. TypedSource'
  BY <1>1 DEF TypeInv, TypedSource
<1>3. ASSUME NEW s \in Thread PROVE TypedThread(s, pc[s], work[s])'
  BY <1>1 DEF TypeInv, TypedThread
<1> QED BY <1>1, <1>2, <1>3 DEF TypeInv

LEMMA OnboardWriteTyped ==
  ASSUME TypeInv, NEW t \in Thread, OnboardWrite(t) PROVE TypeInv'
<1>1. TypedThread(t, "onboardWrite", work[t]) /\ work[t].source \in Definitions
  BY DEF TypeInv, OnboardWrite, TypedThread
<1>2. /\ source' = work[t].source /\ UNCHANGED <<observations, baseline, candidates, now, scheduled, unpruned>>
      /\ Ids' = Ids /\ Finish(t)
  BY DEF OnboardWrite, UpsertSource, Ids
<1>3. TypedSource'
  BY <1>1, <1>2 DEF TypeInv, TypedSource
<1> QED BY <1>1, <1>2, <1>3, WriteTyped, NoWorkTyped DEF Finish

LEMMA AbandonTyped ==
  ASSUME TypeInv, NEW t \in Thread, Abandon(t) PROVE TypeInv'
<1>1. /\ UNCHANGED <<source, observations, baseline, candidates, now, scheduled>>
      /\ unpruned' \in BOOLEAN /\ Ids' = Ids /\ Finish(t)
  BY DEF Abandon, sourceVars, Ids, TypeInv, TypedSource
<1>2. TypedSource'
  BY <1>1 DEF TypeInv, TypedSource
<1> QED BY <1>1, <1>2, WriteTyped, NoWorkTyped DEF Finish

LEMMA TickTyped ==
  ASSUME TypeInv, Tick \/ UNCHANGED vars PROVE TypeInv'
<1>1. /\ UNCHANGED <<source, observations, baseline, candidates, scheduled, unpruned, pc, work>>
      /\ now' \in Nat /\ Ids' = Ids
  BY DEF Tick, vars, sourceVars, Ids, TypeInv, TypedSource
<1>2. TypedSource'
  BY <1>1 DEF TypeInv, TypedSource
<1>3. ASSUME NEW s \in Thread PROVE TypedThread(s, pc[s], work[s])'
  BY <1>1 DEF TypeInv, TypedThread
<1> QED BY <1>1, <1>2, <1>3 DEF TypeInv

LEMMA TypeInvInit == Init => TypeInv
<1> SUFFICES ASSUME Init PROVE TypeInv
  OBVIOUS
<1>1. /\ now = 0 /\ pc = [t \in Thread |-> "idle"] /\ work = [t \in Thread |-> NoWork]
      /\ scheduled = {} /\ unpruned = FALSE
  BY DEF Init
<1>2. TypedSource
  <2>1. CASE /\ source = Null /\ observations = <<>> /\ baseline = 0 /\ candidates = {}
    BY <1>1, <2>1, EmptySeq DEF TypedSource
  <2>2. CASE /\ source \in Definitions
             /\ observations = <<[at |-> 0, health |-> "Warning", usable |-> TRUE, raw |-> FALSE]>>
             /\ baseline = 1 /\ candidates = NotificationCandidate(Null, 1, "Warning")
    <3>1. [at |-> 0, health |-> "Warning", usable |-> TRUE, raw |-> FALSE] \in Observation
      BY DEF Observation, Healths
    <3>2. observations \in Seq(Observation) /\ Ids = {1}
      BY <2>2, <3>1 DEF Ids
    <3>3. candidates = {[observation |-> 1, transition |-> "Opened", previous_health |-> Null,
                         state |-> "Pending", policy |-> Null]}
      BY <2>2, NullIsNone DEF NotificationCandidate, IncidentTransition, Healths, Transitions
    <3>4. candidates \subseteq CandidateRow /\ \A c \in candidates : c.observation \in Ids
      BY <3>2, <3>3 DEF CandidateRow, Transitions
    <3> QED BY <1>1, <2>2, <3>2, <3>4 DEF TypedSource
  <2> QED BY <2>1, <2>2 DEF Init
<1>3. pc \in [Thread -> Step] /\ work \in [Thread -> Work]
  BY <1>1, NoWorkTyped DEF Step
<1> QED BY <1>1, <1>2, <1>3, NoWorkTyped DEF TypeInv

\* The steps of a thread, told apart by what they write.
LEMMA StepsOf ==
  ASSUME [Next]_vars
  PROVE  \/ Tick \/ UNCHANGED vars
         \/ \E t \in Thread : QuietSteps(t) \/ Abandon(t) \/ PruneWrite(t) \/ PromoteWrite(t)
                                \/ OnboardWrite(t)
         \/ \E t \in Thread, d \in Definitions : AddSource(t, d) \/ UpdateSource(t, d)
         \/ \E t \in Thread, r \in Results : \E o : SavedAs(t, r, o)
         \/ \E t \in Thread : \E c \in work[t].todo : \E e : EvaluatedAs(t, c, e)
  BY SaveIsSavedAs, EvaluateWriteIsEvaluatedAs
  DEF Next, CheckStep, PromoteStep, EvaluateStep, EditStep, QuietSteps, Thread

LEMMA TypeInvStep == TypeInv /\ [Next]_vars => TypeInv'
<1> SUFFICES ASSUME TypeInv, [Next]_vars PROVE TypeInv'
  OBVIOUS
<1>1. CASE Tick \/ UNCHANGED vars
  BY <1>1, TickTyped
<1>2. ASSUME NEW t \in Thread,
             QuietSteps(t) \/ Abandon(t) \/ PruneWrite(t) \/ PromoteWrite(t) \/ OnboardWrite(t)
      PROVE  TypeInv'
  BY <1>2, QuietStepTyped, AbandonTyped, PruneWriteTyped, PromoteWriteTyped, OnboardWriteTyped
<1>3. ASSUME NEW t \in Thread, NEW d \in Definitions, AddSource(t, d) \/ UpdateSource(t, d)
      PROVE  TypeInv'
  BY <1>3, EditTyped
<1>4. ASSUME NEW t \in Thread, NEW r \in Results, NEW o, SavedAs(t, r, o) PROVE TypeInv'
  BY <1>4, SaveTyped
<1>5. ASSUME NEW t \in Thread, NEW c \in work[t].todo, NEW e, EvaluatedAs(t, c, e) PROVE TypeInv'
  BY <1>5, EvaluateWriteTyped
<1> QED BY <1>1, <1>2, <1>3, <1>4, <1>5, StepsOf

LEMMA Typed == Spec => []TypeInv
  BY TypeInvInit, TypeInvStep, PTL DEF Spec

\* What a thread has read always points at saved observations, and decided
\* candidates carry a policy, whatever threads interleave (service.py:486-607).
THEOREM TypeCorrect == Spec => []TypeOK
  BY Typed, TypeInvTypes, PTL

-----------------------------------------------------------------------------
(* Retention, for every number of threads.                                 *)

LEMMA IdsFinite ==
  ASSUME TypeInv, NEW ids \in SUBSET Ids PROVE IsFiniteSet(ids) /\ Cardinality(ids) \in Nat
<1>1. Ids = 1..Len(observations) /\ 1 \in Int /\ Len(observations) \in Int
  BY IdsAre
<1>2. IsFiniteSet(Ids)
  BY <1>1, FS_Interval
<1> QED BY <1>2, FS_Subset, FS_CardinalityType

\* The newest n of some observations are at most n.
LEMMA NewestFew ==
  ASSUME TypeInv, NEW ids \in SUBSET Ids, NEW n \in Nat
  PROVE  /\ NewestOf(ids, n) \in SUBSET ids
         /\ Cardinality(NewestOf(ids, n)) \in Nat /\ Cardinality(NewestOf(ids, n)) <= n
<1>1. NewestOf(ids, n) = {i \in ids : Rank(i, ids) < n}
  BY DEF NewestOf, Rank
<1>2. PICK f : f = [i \in NewestOf(ids, n) |-> Rank(i, ids)]
  OBVIOUS
<1>3. f \in [NewestOf(ids, n) -> 0..(n - 1)]
  BY <1>1, <1>2, RankOrders
<1>4. ASSUME NEW i \in NewestOf(ids, n), NEW j \in NewestOf(ids, n), i # j PROVE f[i] # f[j]
  <2>1. i \in ids /\ j \in ids /\ (Newer(i, j) \/ Newer(j, i))
    BY <1>1, <1>4, NewerOrders
  <2>2. Rank(i, ids) < Rank(j, ids) \/ Rank(j, ids) < Rank(i, ids)
    BY <2>1, RankOrders
  <2> QED BY <1>2, <2>1, <2>2, RankOrders
<1>5. f \in Injection(NewestOf(ids, n), 0..(n - 1))
  BY <1>3, <1>4 DEF Injection, IsInjective
<1>6. IsFiniteSet(0..(n - 1)) /\ Cardinality(0..(n - 1)) = n
  <2>1. 0 \in Int /\ n - 1 \in Int /\ (IF 0 > n - 1 THEN 0 ELSE (n - 1) - 0 + 1) = n
    OBVIOUS
  <2> QED BY <2>1, FS_Interval
<1> QED BY <1>1, <1>5, <1>6, FS_Injection, IdsFinite

\* What a pruning will keep is small, and whoever has saved row values has a
\* pruning ahead of it, unless it died on the way.
KeepBounded(t, step, w) ==
  /\ step = "pruneList" => Cardinality(w.keep) <= 1
  /\ step = "pruneWrite" => Cardinality(w.keep) <= Retention + 1

RetentionInv ==
  /\ \A t \in Thread : KeepBounded(t, pc[t], work[t])
  /\ \/ Cardinality(Raw) <= Retention + 1
     \/ unpruned
     \/ \E t \in Thread : pc[t] \in Pruning

LEMMA KeepUnions ==
  ASSUME TypeInv, NEW a \in SUBSET Ids, NEW b \in SUBSET Ids
  PROVE  Cardinality(a \cup b) <= Cardinality(a) + Cardinality(b)
<1>1. /\ IsFiniteSet(a) /\ IsFiniteSet(b) /\ Cardinality(a) \in Nat /\ Cardinality(b) \in Nat
      /\ Cardinality(a \cap b) \in Nat
  BY IdsFinite
<1>2. Cardinality(a \cup b) = Cardinality(a) + Cardinality(b) - Cardinality(a \cap b)
  BY <1>1, FS_Union
<1> QED BY <1>1, <1>2

\* A step by which the moving thread gets to none of the later steps of a pruning.
LEMMA RetentionFrame ==
  ASSUME RetentionInv, NEW t \in Thread, NEW step \in Step, NEW w, Goto(t, step, w), TypeInv,
         KeepBounded(t, step, w),
         Raw' = Raw \/ step \in Pruning, unpruned' = unpruned,
         pc[t] \in Pruning => step \in Pruning
  PROVE  RetentionInv'
<1>1. /\ pc'[t] = step /\ work'[t] = w
      /\ \A s \in Thread \ {t} : pc'[s] = pc[s] /\ work'[s] = work[s]
  BY DEF Goto, TypeInv
<1>2. \A s \in Thread : KeepBounded(s, pc[s], work[s])'
  BY <1>1 DEF RetentionInv, KeepBounded
<1>3. (\E s \in Thread : pc[s] \in Pruning) => \E s \in Thread : pc'[s] \in Pruning
  BY <1>1
<1>4. step \in Pruning => \E s \in Thread : pc'[s] \in Pruning
  BY <1>1
<1>5. \/ Cardinality(Raw') <= Retention + 1 \/ unpruned' \/ \E s \in Thread : pc'[s] \in Pruning
  BY <1>3, <1>4 DEF RetentionInv
<1> QED BY <1>2, <1>5 DEF RetentionInv

LEMMA RetentionQuiet ==
  ASSUME TypeInv, RetentionInv, NEW t \in Thread, QuietSteps(t) PROVE RetentionInv'
<1> USE DEF Thread
<1>1. Raw' = Raw /\ unpruned' = unpruned
  BY DEF QuietSteps, CheckSource, ListDue, Decide, CheckDue, RequestPromotion, PromoteCheck,
     PromoteReview, PromoteReadSource, EvaluatePending, EvaluateList, Onboard, ReadPrevious,
     ReadBaseline, PruneReadBaseline, PruneList, ReadOnly, sourceVars, Raw, Ids
<1>2. CASE PruneReadBaseline(t)
  <2>1. PICK w : w = [work[t] EXCEPT !.keep = {baseline} \cap Raw]
    OBVIOUS
  <2>2. pc[t] = "pruneBaseline" /\ Goto(t, "pruneList", w)
    BY <1>2, <2>1 DEF PruneReadBaseline
  <2>3. Cardinality({baseline} \cap Raw) <= 1
    <3>1. Cardinality({baseline}) = 1 /\ IsFiniteSet({baseline})
      BY FS_Singleton
    <3> QED BY <3>1, FS_Subset, Zenon
  <2>4. w.keep = {baseline} \cap Raw
    BY <2>1 DEF TypeInv, Work
  <2> QED BY <1>1, <2>2, <2>3, <2>4, RetentionFrame DEF KeepBounded, Pruning, Step
<1>3. CASE PruneList(t)
  <2>1. PICK w : w = [work[t] EXCEPT !.keep = work[t].keep \cup KeptSnapshots]
    OBVIOUS
  <2>2. pc[t] = "pruneList" /\ Goto(t, "pruneWrite", w)
    BY <1>3, <2>1 DEF PruneList
  <2>3. w.keep = work[t].keep \cup KeptSnapshots
    BY <2>1 DEF TypeInv, Work
  <2>4. NewestOf(Ids, PruneLimit) \cap Raw \in SUBSET Ids
    BY DEF Raw
  <2>5. /\ KeptSnapshots \in SUBSET Ids /\ Cardinality(KeptSnapshots) <= Retention
        /\ Cardinality(KeptSnapshots) \in Nat
    BY <2>4, NewestFew DEF KeptSnapshots
  <2>6. work[t].keep \in SUBSET Ids /\ Cardinality(work[t].keep) <= 1
    BY <2>2 DEF TypeInv, TypedThread, RetentionInv, KeepBounded
  <2>7. Cardinality(w.keep) <= Retention + 1
    BY <2>3, <2>5, <2>6, KeepUnions, IdsFinite
  <2> QED BY <1>1, <2>2, <2>7, RetentionFrame DEF KeepBounded, Pruning, Step
<1>4. ASSUME NEW step \in Step \ {"pruneList", "pruneWrite"}, NEW w, pc[t] \notin Pruning, Goto(t, step, w)
      PROVE  RetentionInv'
  BY <1>1, <1>4, RetentionFrame DEF KeepBounded
<1>5. CASE ~PruneReadBaseline(t) /\ ~PruneList(t)
  <2>1. /\ pc[t] \notin Pruning
        /\ \E step \in Step \ {"pruneList", "pruneWrite"} : \E w : Goto(t, step, w)
    BY <1>5 DEF QuietSteps, CheckSource, ListDue, Decide, CheckDue, RequestPromotion, PromoteCheck,
       PromoteReview, PromoteReadSource, EvaluatePending, EvaluateList, Onboard, ReadPrevious,
       ReadBaseline, Finish, Step, Pruning
  <2> QED BY <1>4, <2>1
<1> QED BY <1>2, <1>3, <1>5

LEMMA RetentionSave ==
  ASSUME TypeInv, RetentionInv, NEW t \in Thread, NEW r \in Results, NEW o, SavedAs(t, r, o)
  PROVE  RetentionInv'
<1>1. pc[t] = "save" /\ unpruned' = unpruned /\ (r.raw => work[t].source.unique_keys)
  BY DEF SavedAs
<1>2. CASE work[t].source.unique_keys
  <2>1. PICK w : w = [NoWork EXCEPT !.source = work[t].source]
    OBVIOUS
  <2>2. Goto(t, "pruneBaseline", w)
    BY <1>2, <2>1 DEF SavedAs
  <2> QED BY <1>1, <2>2, RetentionFrame DEF KeepBounded, Pruning, Step
<1>3. CASE ~work[t].source.unique_keys
  <2>1. Goto(t, "idle", NoWork)
    BY <1>3 DEF SavedAs, Finish
  <2>2. Raw' = Raw
    BY <1>1, <1>3, HistoryGrows DEF Raw
  <2> QED BY <1>1, <2>1, <2>2, RetentionFrame DEF KeepBounded, Pruning, Step
<1> QED BY <1>2, <1>3

LEMMA RetentionWrites ==
  ASSUME TypeInv, RetentionInv, NEW t \in Thread, PruneWrite(t) \/ Abandon(t) PROVE RetentionInv'
<1>1. /\ pc'[t] = "idle" /\ \A s \in Thread \ {t} : pc'[s] = pc[s] /\ work'[s] = work[s]
  BY DEF PruneWrite, Abandon, Finish, Goto, TypeInv
<1>2. \A s \in Thread : KeepBounded(s, pc[s], work[s])'
  BY <1>1 DEF RetentionInv, KeepBounded
<1>3. CASE PruneWrite(t)
  <2>1. Raw' = Raw \cap work[t].keep
    BY <1>3, HistoryPruned DEF Raw
  <2>2. work[t].keep \in SUBSET Ids /\ Cardinality(work[t].keep) <= Retention + 1
    BY <1>3 DEF PruneWrite, RetentionInv, KeepBounded, TypeInv, TypedThread
  <2>3. Raw' \in SUBSET work[t].keep
    BY <2>1
  <2>4. /\ Cardinality(Raw') <= Cardinality(work[t].keep) /\ Cardinality(Raw') \in Nat
        /\ Cardinality(work[t].keep) \in Nat
    BY <2>2, <2>3, IdsFinite, FS_Subset, FS_CardinalityType
  <2>5. Cardinality(Raw') <= Retention + 1
    BY <2>2, <2>4
  <2> QED BY <1>2, <2>5 DEF RetentionInv
<1>4. CASE Abandon(t)
  <2>1. Raw' = Raw /\ (unpruned' <=> unpruned \/ pc[t] \in Pruning)
    BY <1>4 DEF Abandon, sourceVars, Raw, Ids, Pruning
  <2>2. \A s \in Thread : pc[s] \in Pruning => s = t \/ pc'[s] \in Pruning
    BY <1>1
  <2>3. \/ Cardinality(Raw') <= Retention + 1 \/ unpruned' \/ \E s \in Thread : pc'[s] \in Pruning
    BY <2>1, <2>2 DEF RetentionInv
  <2> QED BY <1>2, <2>3 DEF RetentionInv
<1> QED BY <1>3, <1>4

LEMMA RetentionOthers ==
  ASSUME TypeInv, RetentionInv, NEW t \in Thread,
         \/ Tick \/ UNCHANGED vars \/ PromoteWrite(t) \/ OnboardWrite(t)
         \/ \E d \in Definitions : AddSource(t, d) \/ UpdateSource(t, d)
  PROVE  RetentionInv'
<1>1. observations' = observations /\ unpruned' = unpruned
  BY DEF Tick, vars, sourceVars, PromoteWrite, OnboardWrite, AddSource, UpdateSource, UpsertSource
<1>2. Raw' = Raw
  BY <1>1 DEF Raw, Ids
<1>3. CASE pc' = pc /\ work' = work
  BY <1>1, <1>2, <1>3 DEF RetentionInv, KeepBounded
<1>4. ASSUME NEW step \in {"idle", "promoteSource"}, Goto(t, step, NoWork), pc[t] \notin Pruning
      PROVE  RetentionInv'
  BY <1>1, <1>2, <1>4, RetentionFrame DEF KeepBounded, Step, Pruning
<1>5. CASE PromoteWrite(t) \/ OnboardWrite(t)
  BY <1>4, <1>5 DEF PromoteWrite, OnboardWrite, Finish, Pruning
<1>6. CASE Tick \/ UNCHANGED vars \/ \E d \in Definitions : AddSource(t, d) \/ UpdateSource(t, d)
  BY <1>3, <1>6 DEF Tick, vars, AddSource, UpdateSource
<1> QED BY <1>5, <1>6

LEMMA RetentionEvaluate ==
  ASSUME TypeInv, RetentionInv, NEW t \in Thread, NEW c \in work[t].todo, NEW e, EvaluatedAs(t, c, e)
  PROVE  RetentionInv'
<1>1. pc[t] = "evaluateWrite" /\ observations' = observations /\ unpruned' = unpruned
  BY DEF EvaluatedAs
<1>2. Raw' = Raw
  BY <1>1 DEF Raw, Ids
<1>3. PICK w : w = [work[t] EXCEPT !.todo = work[t].todo \ {c}]
  OBVIOUS
<1>4. Goto(t, "idle", NoWork) \/ Goto(t, "evaluateWrite", w)
  BY <1>3 DEF EvaluatedAs, Finish
<1> QED BY <1>1, <1>2, <1>4, RetentionFrame DEF KeepBounded, Pruning, Step

LEMMA RetentionStep == TypeInv /\ RetentionInv /\ [Next]_vars => RetentionInv'
<1> SUFFICES ASSUME TypeInv, RetentionInv, [Next]_vars PROVE RetentionInv'
  OBVIOUS
<1>1. CASE Tick \/ UNCHANGED vars
  <2>1. pc' = pc /\ work' = work /\ unpruned' = unpruned /\ observations' = observations
    BY <1>1 DEF Tick, vars, sourceVars
  <2>2. Raw' = Raw
    BY <2>1 DEF Raw, Ids
  <2> QED BY <2>1, <2>2 DEF RetentionInv, KeepBounded
<1>2. ASSUME NEW t \in Thread,
             QuietSteps(t) \/ Abandon(t) \/ PruneWrite(t) \/ PromoteWrite(t) \/ OnboardWrite(t)
      PROVE  RetentionInv'
  BY <1>2, RetentionQuiet, RetentionWrites, RetentionOthers
<1>3. ASSUME NEW t \in Thread, NEW d \in Definitions, AddSource(t, d) \/ UpdateSource(t, d)
      PROVE  RetentionInv'
  BY <1>3, RetentionOthers
<1>4. ASSUME NEW t \in Thread, NEW r \in Results, NEW o, SavedAs(t, r, o) PROVE RetentionInv'
  BY <1>4, RetentionSave
<1>5. ASSUME NEW t \in Thread, NEW c \in work[t].todo, NEW e, EvaluatedAs(t, c, e) PROVE RetentionInv'
  BY <1>5, RetentionEvaluate
<1> QED BY <1>1, <1>2, <1>3, <1>4, <1>5, StepsOf

LEMMA RetentionInit == Init => RetentionInv
<1> SUFFICES ASSUME Init PROVE RetentionInv
  OBVIOUS
<1>1. Raw = {}
  BY DEF Init, Raw, Ids
<1>2. Cardinality(Raw) <= Retention + 1
  BY <1>1, FS_EmptySet
<1> QED BY <1>2 DEF Init, RetentionInv, KeepBounded

\* Once nothing is running and no pruning died on the way, row values are kept
\* for the window and the baseline only, however many checks and promotions
\* overlapped (service.py:420-438).
THEOREM RetentionIsBounded == Spec => []RetentionBound
<1>1. TypeInv /\ RetentionInv => RetentionBound
  BY DEF RetentionInv, RetentionBound, Pruning
<1> QED BY <1>1, Typed, RetentionInit, RetentionStep, PTL DEF Spec

-----------------------------------------------------------------------------
(* Decisions.                                                              *)

OneCandidate == \A c, d \in candidates : c.observation = d.observation => c = d

\* Candidate c before a policy saw it.
Undecided(c) == [c EXCEPT !.state = "Pending", !.policy = Null]

\* An observation has one candidate, no policy has touched a pending one, and
\* those an evaluation has listed are the candidates there are, undecided.
DecisionInv ==
  /\ OneCandidate
  /\ \A c \in candidates : c.state = "Pending" => c.policy = Null
  /\ \A t \in Thread : pc[t] = "evaluateWrite" =>
       \A d \in work[t].todo : /\ d.state = "Pending" /\ d.policy = Null
                               /\ \E c \in candidates : d = Undecided(c)

\* What the steps that write no candidate show of it.
CandidatesKept(t) ==
  /\ candidates' = candidates
  /\ pc'[t] = "evaluateWrite" => work'[t].todo \subseteq PendingCandidates
  /\ \A s \in Thread \ {t} : pc'[s] = pc[s] /\ work'[s] = work[s]

LEMMA DecisionFrame ==
  ASSUME TypeInv, DecisionInv, NEW t \in Thread, CandidatesKept(t) PROVE DecisionInv'
<1>1. ASSUME NEW d \in PendingCandidates
      PROVE  d \in candidates /\ d.state = "Pending" /\ d.policy = Null /\ d = Undecided(d)
  <2>1. d \in candidates /\ d.state = "Pending" /\ d.policy = Null /\ d \in CandidateRow
    BY DEF PendingCandidates, DecisionInv, TypeInv, TypedSource
  <2> QED BY <2>1 DEF Undecided, CandidateRow
<1>2. ASSUME NEW s \in Thread, pc'[s] = "evaluateWrite", NEW d \in work'[s].todo
      PROVE  d.state = "Pending" /\ d.policy = Null /\ \E c \in candidates' : d = Undecided(c)
  <2>1. CASE s = t
    BY <1>1, <1>2, <2>1 DEF CandidatesKept
  <2>2. CASE s # t
    BY <1>2, <2>2 DEF CandidatesKept, DecisionInv
  <2> QED BY <2>1, <2>2
<1> QED BY <1>2 DEF CandidatesKept, DecisionInv, OneCandidate, Undecided

LEMMA QuietKeepsCandidates ==
  ASSUME TypeInv, NEW t \in Thread, QuietSteps(t) PROVE CandidatesKept(t)
<1>1. pc \in [Thread -> Step] /\ work \in [Thread -> Work]
  BY DEF TypeInv
<1>2. CASE EvaluateList(t)
  <2>1. PICK w : w = [work[t] EXCEPT !.todo = PendingCandidates]
    OBVIOUS
  <2>2. ReadOnly /\ (Goto(t, "evaluateWrite", w) \/ Goto(t, "idle", NoWork))
    BY <1>2, <2>1 DEF EvaluateList, Finish
  <2>3. w.todo = PendingCandidates
    BY <1>1, <2>1 DEF Work
  <2> QED BY <1>1, <2>2, <2>3 DEF CandidatesKept, Goto, ReadOnly, sourceVars
<1>3. CASE ~EvaluateList(t)
  BY <1>1, <1>3 DEF QuietSteps, CheckSource, ListDue, Decide, CheckDue, RequestPromotion,
     PromoteCheck, PromoteReview, PromoteReadSource, EvaluatePending, Onboard, ReadPrevious,
     ReadBaseline, PruneReadBaseline, PruneList, ReadOnly, sourceVars, Finish, Goto,
     CandidatesKept
<1> QED BY <1>2, <1>3

LEMMA WritesKeepCandidates ==
  ASSUME TypeInv, NEW t \in Thread,
         Abandon(t) \/ PruneWrite(t) \/ PromoteWrite(t) \/ OnboardWrite(t)
  PROVE  CandidatesKept(t)
  BY DEF TypeInv, Abandon, PruneWrite, PromoteWrite, OnboardWrite, UpsertSource, sourceVars,
     Finish, Goto, CandidatesKept

LEMMA OneCandidateSave ==
  ASSUME TypeInv, OneCandidate, NEW t \in Thread, NEW r \in Results, NEW o, SavedAs(t, r, o)
  PROVE  OneCandidate'
<1>1. \A c \in candidates : c.observation # Len(observations) + 1
  BY HistoryGrows DEF TypeInv, TypedSource
<1>2. \A c \in candidates' \ candidates : c.observation = Len(observations) + 1
  BY CandidatesRaised
<1>3. \A c, d \in candidates' \ candidates : c = d
  BY CandidatesRaised
<1> QED BY <1>1, <1>2, <1>3 DEF OneCandidate

LEMMA DecisionSave ==
  ASSUME TypeInv, DecisionInv, NEW t \in Thread, NEW r \in Results, NEW o, SavedAs(t, r, o)
  PROVE  DecisionInv' /\ candidates \subseteq candidates'
<1>1. OneCandidate'
  BY OneCandidateSave DEF DecisionInv
<1>2. candidates \subseteq candidates' /\ \A c \in candidates' \ candidates : c.state # "Pending"
  BY CandidatesRaised
<1>3. /\ pc'[t] # "evaluateWrite"
      /\ \A s \in Thread \ {t} : pc'[s] = pc[s] /\ work'[s] = work[s]
  BY DEF SavedAs, Finish, Goto, TypeInv
<1>4. ASSUME NEW s \in Thread, pc'[s] = "evaluateWrite", NEW d \in work'[s].todo
      PROVE  d.state = "Pending" /\ d.policy = Null /\ \E c \in candidates' : d = Undecided(c)
  <2>1. pc[s] = "evaluateWrite" /\ d \in work[s].todo
    BY <1>3, <1>4
  <2>2. d.state = "Pending" /\ d.policy = Null /\ \E c \in candidates : d = Undecided(c)
    BY <2>1 DEF DecisionInv
  <2> QED BY <1>2, <2>2
<1> QED BY <1>1, <1>2, <1>4 DEF DecisionInv, Undecided

LEMMA DecisionEvaluate ==
  ASSUME TypeInv, DecisionInv, NEW t \in Thread, NEW d \in work[t].todo, NEW e,
         EvaluatedAs(t, d, e)
  PROVE  /\ DecisionInv'
         /\ \A c \in candidates : c \notin candidates' => d = Undecided(c) /\ t \in Evaluator
<1>1. /\ pc[t] = "evaluateWrite" /\ e.observation = d.observation /\ e.state # "Pending"
      /\ candidates' = {c \in candidates : c.observation # d.observation} \cup {e}
      /\ d \in CandidateRow /\ e = Evaluate(d, work[t].source.transitions)
  BY CandidateEvaluated DEF EvaluatedAs
<1>2. /\ d.state = "Pending" /\ d.policy = Null /\ t \in Evaluator
      /\ \E c \in candidates : d = Undecided(c)
  BY <1>1 DEF DecisionInv, TypeInv, TypedThread
<1>3. d = Undecided(e)
  BY <1>1, <1>2 DEF Undecided, Evaluate, CandidateRow
<1>4. \A c \in candidates : c \in CandidateRow /\ Undecided(c).observation = c.observation
  BY DEF Undecided, CandidateRow, TypeInv, TypedSource
<1>5. ASSUME NEW c \in candidates, c.observation = d.observation PROVE d = Undecided(c)
  BY <1>2, <1>4, <1>5 DEF DecisionInv, OneCandidate
<1>6. ASSUME NEW s \in Thread, pc'[s] = "evaluateWrite", NEW f \in work'[s].todo
      PROVE  f.state = "Pending" /\ f.policy = Null /\ \E c \in candidates' : f = Undecided(c)
  <2>1. pc[s] = "evaluateWrite" /\ f \in work[s].todo
    BY <1>1, <1>6, NoWorkTyped DEF EvaluatedAs, Finish, Goto, TypeInv, Work
  <2>2. PICK c \in candidates : f = Undecided(c)
    BY <2>1 DEF DecisionInv
  <2>3. f.state = "Pending" /\ f.policy = Null
    BY <2>1 DEF DecisionInv
  <2>4. CASE c.observation = d.observation
    BY <1>1, <1>3, <1>5, <2>2, <2>3, <2>4
  <2>5. CASE c.observation # d.observation
    BY <1>1, <2>2, <2>3, <2>5
  <2> QED BY <2>4, <2>5
<1>7. OneCandidate' /\ \A c \in candidates' : c.state = "Pending" => c.policy = Null
  BY <1>1 DEF DecisionInv, OneCandidate
<1>8. \A c \in candidates : c \notin candidates' => c.observation = d.observation
  BY <1>1
<1> QED BY <1>2, <1>5, <1>6, <1>7, <1>8 DEF DecisionInv, Undecided

LEMMA DecisionStep ==
  ASSUME TypeInv, DecisionInv, [Next]_vars
  PROVE  /\ DecisionInv'
         /\ \A c \in candidates : c.state # "Pending" /\ c \notin candidates' =>
              \E t \in Evaluator : \E d \in work[t].todo :
                /\ pc[t] = "evaluateWrite"
                /\ d = [c EXCEPT !.state = "Pending", !.policy = Null]
                /\ Evaluate(d, work[t].source.transitions) \in candidates'
<1>1. CASE Tick \/ UNCHANGED vars \/ \E t \in Thread, d \in Definitions : AddSource(t, d) \/ UpdateSource(t, d)
  <2>1. candidates' = candidates /\ pc' = pc /\ work' = work
    BY <1>1 DEF Tick, vars, sourceVars, AddSource, UpdateSource, UpsertSource
  <2> QED BY <2>1 DEF DecisionInv, OneCandidate, Undecided
<1>2. ASSUME NEW t \in Thread,
             QuietSteps(t) \/ Abandon(t) \/ PruneWrite(t) \/ PromoteWrite(t) \/ OnboardWrite(t)
      PROVE  DecisionInv' /\ candidates' = candidates
  BY <1>2, QuietKeepsCandidates, WritesKeepCandidates, DecisionFrame DEF CandidatesKept
<1>3. ASSUME NEW t \in Thread, NEW r \in Results, NEW o, SavedAs(t, r, o)
      PROVE  DecisionInv' /\ candidates \subseteq candidates'
  BY <1>3, DecisionSave
<1>4. ASSUME NEW t \in Thread, NEW d \in work[t].todo, NEW e, EvaluatedAs(t, d, e)
      PROVE  /\ DecisionInv'
             /\ \A c \in candidates : c \notin candidates' =>
                  /\ t \in Evaluator /\ pc[t] = "evaluateWrite"
                  /\ d = [c EXCEPT !.state = "Pending", !.policy = Null]
                  /\ Evaluate(d, work[t].source.transitions) \in candidates'
  <2>1. pc[t] = "evaluateWrite" /\ Evaluate(d, work[t].source.transitions) \in candidates'
    BY <1>4 DEF EvaluatedAs
  <2> QED BY <1>4, <2>1, DecisionEvaluate DEF Undecided
<1> QED BY <1>1, <1>2, <1>3, <1>4, StepsOf

\* However many threads evaluate, an observation keeps one candidate.
LEMMA OneCandidateStep == TypeInv /\ OneCandidate /\ [Next]_vars => OneCandidate'
<1> SUFFICES ASSUME TypeInv, OneCandidate, [Next]_vars PROVE OneCandidate'
  OBVIOUS
<1>1. CASE candidates' = candidates
  BY <1>1 DEF OneCandidate
<1>2. ASSUME NEW t \in Thread,
             QuietSteps(t) \/ Abandon(t) \/ PruneWrite(t) \/ PromoteWrite(t) \/ OnboardWrite(t)
      PROVE  candidates' = candidates
  BY <1>2, QuietKeepsCandidates, WritesKeepCandidates DEF CandidatesKept
<1>3. Tick \/ UNCHANGED vars \/ (\E t \in Thread, d \in Definitions : AddSource(t, d) \/ UpdateSource(t, d)) =>
        candidates' = candidates
  BY DEF Tick, vars, sourceVars, AddSource, UpdateSource, UpsertSource
<1>4. ASSUME NEW t \in Thread, NEW c \in work[t].todo, NEW e, EvaluatedAs(t, c, e) PROVE OneCandidate'
  <2>1. /\ e.observation = c.observation
        /\ candidates' = {d \in candidates : d.observation # c.observation} \cup {e}
    BY <1>4, CandidateEvaluated DEF EvaluatedAs
  <2> QED BY <2>1 DEF OneCandidate
<1> QED BY <1>1, <1>2, <1>3, <1>4, OneCandidateSave, StepsOf

LEMMA OneCandidateInit == Init => OneCandidate
  BY DEF Init, NotificationCandidate, OneCandidate

LEMMA DecisionInit == Init => DecisionInv
<1> SUFFICES ASSUME Init PROVE DecisionInv
  OBVIOUS
<1>1. \A c \in candidates : c.policy = Null
  BY DEF Init, NotificationCandidate
<1>2. \A t \in Thread : pc[t] # "evaluateWrite"
  BY DEF Init
<1> QED BY <1>1, <1>2, OneCandidateInit DEF DecisionInv

\* However many threads evaluate while others edit and check, a decision is
\* never undone, and is made once more only by an evaluation that had listed
\* the candidate before (service.py:172-194).
THEOREM DecisionsAreRevisedInFlight == Spec => DecisionRevisedInFlight
<1>1. TypeInv /\ DecisionInv /\ [Next]_vars => DecisionInv'
  BY DecisionStep
<1>2. TypeInv /\ DecisionInv /\ [Next]_vars =>
        \A c \in candidates : c.state # "Pending" /\ c \notin candidates' =>
          \E t \in Evaluator : \E d \in work[t].todo :
            /\ pc[t] = "evaluateWrite"
            /\ d = [c EXCEPT !.state = "Pending", !.policy = Null]
            /\ Evaluate(d, work[t].source.transitions) \in candidates'
  BY DecisionStep
<1> QED BY <1>1, <1>2, Typed, DecisionInit, PTL DEF Spec, DecisionRevisedInFlight

-----------------------------------------------------------------------------
(* The order of the history, with one thread that checks.                  *)

OneChecker == \A s, t \in Checker \cup Scheduler : s = t

MovesOnly(t) == \A s \in Thread \ {t} : pc'[s] = pc[s] /\ work'[s] = work[s]

Sorted == \A i, j \in Ids : i <= j => observations[i].at <= observations[j].at

\* The observation before i is old enough for i to have been due at time at.
Spaced(i, at) == i # 0 => at >= observations[i].at + Interval

\* What a check has read of the history is still so.
Timely(step, w) ==
  /\ step = "check" => Spaced(Len(observations), now)
  /\ step \in {"previous", "baseline", "save"} =>
       /\ w.at <= now
       /\ \A i \in Ids : observations[i].at <= w.at
       /\ w.due => Spaced(Len(observations), w.at)
  /\ step \in {"baseline", "save"} => w.previous = Len(observations)

OrderInv ==
  /\ Sorted
  /\ \A i \in Ids : observations[i].at <= now
  /\ \A i \in scheduled : Spaced(i - 1, observations[i].at)
  /\ \A t \in Thread : Timely(pc[t], work[t])

\* In a sorted history, newer is later saved.
LEMMA SortedNewer ==
  ASSUME TypeInv, Sorted
  PROVE  /\ \A i, j \in Ids : Newer(i, j) <=> i > j
         /\ Latest = Len(observations)
         /\ \A i \in Ids : Before(i) = i - 1
<1>1. /\ Len(observations) \in Nat /\ Ids = 1..Len(observations)
      /\ \A i \in Ids : observations[i].at \in Nat
  BY IdsAre DEF Observation
<1>2. ASSUME NEW i \in Ids, NEW j \in Ids PROVE Newer(i, j) <=> i > j
  <2>1. i \in Nat /\ j \in Nat /\ observations[i].at \in Nat /\ observations[j].at \in Nat
    BY <1>1
  <2>2. /\ i <= j => observations[i].at <= observations[j].at
        /\ j <= i => observations[j].at <= observations[i].at
    BY DEF Sorted
  <2> QED BY <2>1, <2>2 DEF Newer
<1>3. Latest = Len(observations)
  <2>1. CASE Ids = {}
    BY <1>1, <2>1 DEF Latest
  <2>2. CASE Ids # {}
    <3>1. Len(observations) \in Ids
      BY <1>1, <2>2
    <3>2. Latest \in Ids /\ (Latest # Len(observations) => Newer(Latest, Len(observations)))
      BY <2>2, <3>1, LatestIsNewest
    <3> QED BY <1>1, <1>2, <3>1, <3>2
  <2> QED BY <2>1, <2>2
<1>4. ASSUME NEW i \in Ids PROVE Before(i) = i - 1
  <2>1. PICK older : older = {j \in Ids : Newer(i, j)}
    OBVIOUS
  <2>2. older = 1..(i - 1)
    BY <1>1, <1>2, <2>1
  <2>3. Before(i) = IF older = {} THEN 0
                    ELSE CHOOSE j \in older : \A k \in older \ {j} : Newer(j, k)
    BY <2>1 DEF Before
  <2>4. CASE older = {}
    <3>1. 1 \notin 1..(i - 1)
      BY <2>2, <2>4
    <3>2. i = 1
      BY <1>1, <3>1
    <3> QED BY <2>3, <2>4, <3>2
  <2>5. CASE older # {}
    <3>1. i - 1 \in older
      BY <1>1, <2>2, <2>5
    <3>2. ASSUME NEW k \in older \ {i - 1} PROVE Newer(i - 1, k)
      <4>1. k \in Ids /\ i - 1 \in Ids /\ i - 1 > k
        BY <1>1, <2>2, <3>1
      <4> QED BY <1>2, <4>1
    <3>3. ASSUME NEW j \in older, \A k \in older \ {j} : Newer(j, k) PROVE j = i - 1
      <4>1. j \in Ids /\ i - 1 \in Ids /\ j <= i - 1 /\ j \in Nat /\ i \in Nat
        BY <1>1, <2>2, <3>1
      <4>2. j # i - 1 => Newer(j, i - 1)
        BY <3>1, <3>3
      <4>3. Newer(j, i - 1) => j > i - 1
        BY <1>2, <4>1
      <4> QED BY <4>1, <4>2, <4>3
    <3> QED BY <2>3, <2>5, <3>1, <3>2, <3>3
  <2> QED BY <2>4, <2>5
<1> QED BY <1>2, <1>3, <1>4

\* What a step leaves of the history.
HistoryKept ==
  /\ Ids' = Ids /\ Len(observations') = Len(observations)
  /\ \A i \in Ids : /\ observations'[i].at = observations[i].at
                    /\ observations'[i].health = observations[i].health

LEMMA OrderFrame ==
  ASSUME TypeInv, OrderInv, NEW t \in Thread, HistoryKept, now' = now, scheduled' = scheduled,
         MovesOnly(t), Timely(pc'[t], work'[t])
  PROVE  OrderInv'
<1>1. \A i \in Ids : i \in Nat /\ observations[i].at \in Nat
  BY IdsAre DEF Observation
<1>2. Len(observations) \in Ids \cup {0}
  BY IdsAre
<1>3. ASSUME NEW s \in Thread PROVE Timely(pc[s], work[s])'
  <2>1. Timely(pc'[s], work'[s])
    BY DEF OrderInv, MovesOnly
  <2>2. /\ Spaced(Len(observations), now) => Spaced(Len(observations), now)'
        /\ Spaced(Len(observations), work'[s].at) => Spaced(Len(observations), work[s].at)'
    BY <1>2 DEF Spaced, HistoryKept
  <2> QED BY <2>1, <2>2 DEF Timely, HistoryKept
<1>4. \A i \in scheduled : i - 1 \in Ids \cup {0}
  BY IdsAre DEF TypeInv, TypedSource
<1>5. \A i \in scheduled' : Spaced(i - 1, observations[i].at)'
  BY <1>4 DEF OrderInv, Spaced, HistoryKept, TypeInv, TypedSource
<1>6. Sorted' /\ \A i \in Ids' : observations'[i].at <= now'
  BY <1>1 DEF OrderInv, Sorted, HistoryKept
<1> QED BY <1>3, <1>5, <1>6 DEF OrderInv

LEMMA OrderQuiet ==
  ASSUME TypeInv, OrderInv, NEW t \in Thread, QuietSteps(t) PROVE OrderInv'
<1>1. /\ pc \in [Thread -> Step] /\ work \in [Thread -> Work]
      /\ now \in Nat /\ Latest = Len(observations) /\ Timely(pc[t], work[t])
  BY SortedNewer DEF TypeInv, TypedSource, OrderInv
<1>2. /\ MovesOnly(t) /\ observations' = observations /\ now' = now /\ scheduled' = scheduled
      /\ HistoryKept
  BY <1>1 DEF QuietSteps, CheckSource, ListDue, Decide, CheckDue, RequestPromotion,
     PromoteCheck, PromoteReview, PromoteReadSource, EvaluatePending, EvaluateList, Onboard,
     ReadPrevious, ReadBaseline, PruneReadBaseline, PruneList, ReadOnly, sourceVars, Finish, Goto,
     MovesOnly, HistoryKept, Ids
<1>3. ASSUME Timely(pc'[t], work'[t]) PROVE OrderInv'
  BY <1>2, <1>3, OrderFrame
<1>4. CASE CheckSource(t)
  <2>1. PICK w : w = [NoWork EXCEPT !.source = source, !.at = now]
    OBVIOUS
  <2>2. pc'[t] = "previous" /\ work'[t] = w /\ w.at = now /\ w.due = FALSE
    BY <1>1, <1>4, <2>1 DEF CheckSource, Goto, NoWork
  <2>3. Timely(pc'[t], work'[t])
    BY <1>1, <2>2 DEF Timely, OrderInv
  <2> QED BY <1>3, <2>3
<1>5. CASE Decide(t)
  <2>1. \/ pc'[t] = "idle"
        \/ pc'[t] = "check" /\ work'[t] = work[t] /\ IntervalElapsed
    BY <1>1, <1>5 DEF Decide, Finish, Goto
  <2>2. IntervalElapsed => Spaced(Len(observations), now)
    BY <1>1 DEF IntervalElapsed, Spaced
  <2>3. CASE pc'[t] = "idle"
    BY <1>3, <2>3 DEF Timely
  <2>4. CASE pc'[t] = "check"
    BY <1>3, <2>1, <2>2, <2>4 DEF Timely
  <2> QED BY <2>1, <2>3, <2>4
<1>6. CASE CheckDue(t)
  <2>1. PICK w : w = [work[t] EXCEPT !.source = source, !.at = now]
    OBVIOUS
  <2>2. /\ pc[t] = "check" /\ w.at = now /\ w.due = work[t].due
        /\ pc'[t] = "idle" \/ (pc'[t] = "previous" /\ work'[t] = w)
    BY <1>1, <1>6, <2>1 DEF CheckDue, Finish, Goto, Work
  <2>3. Timely(pc'[t], work'[t])
    BY <1>1, <2>2 DEF Timely, OrderInv
  <2> QED BY <1>3, <2>3
<1>7. CASE ReadPrevious(t)
  <2>1. PICK w : w = [work[t] EXCEPT !.previous = Latest]
    OBVIOUS
  <2>2. /\ pc[t] = "previous" /\ w.at = work[t].at /\ w.due = work[t].due
        /\ w.previous = Len(observations) /\ pc'[t] = "baseline" /\ work'[t] = w
    BY <1>1, <1>7, <2>1 DEF ReadPrevious, Goto, Work
  <2>3. Timely(pc'[t], work'[t])
    BY <1>1, <2>2 DEF Timely
  <2> QED BY <1>3, <2>3
<1>8. CASE ReadBaseline(t)
  <2>1. PICK w : w = [work[t] EXCEPT !.baseline = baseline]
    OBVIOUS
  <2>2. /\ pc[t] = "baseline" /\ w.at = work[t].at /\ w.due = work[t].due
        /\ w.previous = work[t].previous /\ pc'[t] = "save" /\ work'[t] = w
    BY <1>1, <1>8, <2>1 DEF ReadBaseline, Goto, Work
  <2>3. Timely(pc'[t], work'[t])
    BY <1>1, <2>2 DEF Timely
  <2> QED BY <1>3, <2>3
<1>9. CASE ~(CheckSource(t) \/ Decide(t) \/ CheckDue(t) \/ ReadPrevious(t) \/ ReadBaseline(t))
  <2>1. pc'[t] \notin {"check", "previous", "baseline", "save"}
    BY <1>1, <1>9 DEF QuietSteps, ListDue, RequestPromotion,
       PromoteCheck, PromoteReview, PromoteReadSource, EvaluatePending, EvaluateList, Onboard,
       PruneReadBaseline, PruneList, Finish, Goto
  <2> QED BY <1>3, <2>1 DEF Timely
<1> QED BY <1>4, <1>5, <1>6, <1>7, <1>8, <1>9

LEMMA OrderSave ==
  ASSUME OneChecker, TypeInv, OrderInv, NEW t \in Thread, NEW r \in Results, NEW o, SavedAs(t, r, o)
  PROVE  OrderInv' /\ work[t].previous = Len(observations) /\ Len(observations') = Len(observations) + 1
<1> DEFINE id == Len(observations) + 1
<1>1. /\ pc[t] = "save" /\ MovesOnly(t) /\ pc'[t] \in {"idle", "pruneBaseline"} /\ now' = now
      /\ scheduled' = IF work[t].due THEN scheduled \cup {id} ELSE scheduled
      /\ observations' = Append(observations, o)
  BY DEF SavedAs, Finish, Goto, TypeInv, MovesOnly
<1>2. Timely("save", work[t])
  BY <1>1 DEF OrderInv
<1>3. /\ Len(observations) \in Nat /\ Ids = 1..Len(observations)
      /\ \A i \in Ids : i \in Nat /\ observations[i].at \in Nat /\ observations'[i] = observations[i]
      /\ observations'[id].at = work[t].at /\ work[t].at \in Nat
  <2>1. /\ Len(observations) \in Nat /\ Ids = 1..Len(observations)
        /\ \A i \in Ids : i \in Nat /\ observations[i].at \in Nat
    BY IdsAre DEF Observation
  <2>2. /\ \A i \in Ids : observations'[i] = observations[i]
        /\ observations'[id].at = work[t].at
    BY HistoryGrows
  <2> QED BY <2>1, <2>2 DEF TypeInv, Work
<1>4. Len(observations') = id /\ Ids' = 1..id
  <2>1. o \in Observation /\ observations \in Seq(Observation)
    BY HistoryGrows DEF TypeInv, TypedSource
  <2>2. Len(observations') = id
    BY <1>1, <2>1
  <2>3. observations' \in Seq(Observation)
    BY HistoryGrows
  <2> QED BY <2>2, <2>3 DEF Ids
<1>5. Sorted' /\ \A i \in Ids' : observations'[i].at <= now'
  <2>1. \A i \in Ids' : i \in Ids \/ i = id
    BY <1>3, <1>4
  <2>2. \A i \in Ids : observations[i].at <= work[t].at /\ observations[i].at <= now
    BY <1>2 DEF Timely, OrderInv
  <2>3. work[t].at <= now
    BY <1>2 DEF Timely
  <2>4. now' = now /\ Sorted
    BY <1>1 DEF OrderInv
  <2>5. ASSUME NEW i \in Ids' PROVE observations'[i].at <= work[t].at /\ observations'[i].at <= now'
    <3>1. CASE i \in Ids
      BY <1>3, <2>2, <2>4, <3>1
    <3>2. CASE i = id
      BY <1>3, <2>3, <2>4, <3>2
    <3> QED BY <2>1, <3>1, <3>2
  <2>6. ASSUME NEW i \in Ids', NEW j \in Ids', i <= j PROVE observations'[i].at <= observations'[j].at
    <3>1. CASE j = id
      BY <1>3, <2>5, <3>1
    <3>2. CASE j # id
      <4>1. i \in Ids /\ j \in Ids
        BY <1>1, <1>3, <1>4, <2>1, <2>6, <3>2
      <4> QED BY <1>3, <2>4, <2>6, <4>1 DEF Sorted
    <3> QED BY <3>1, <3>2
  <2>7. Sorted'
    BY <2>6 DEF Sorted
  <2> QED BY <2>5, <2>7
<1>6. ASSUME NEW i \in scheduled' PROVE Spaced(i - 1, observations[i].at)'
  <2>1. CASE i \in scheduled
    <3>1. Spaced(i - 1, observations[i].at) /\ i \in Ids /\ i - 1 \in Ids \cup {0}
      BY <1>3, <2>1 DEF OrderInv, TypeInv, TypedSource
    <3> QED BY <1>3, <3>1 DEF Spaced
  <2>2. CASE i \notin scheduled
    <3>1. i = id /\ work[t].due /\ id - 1 = Len(observations)
      BY <1>1, <1>3, <1>6, <2>2
    <3>2. Spaced(Len(observations), work[t].at)
      BY <1>2, <3>1 DEF Timely
    <3>3. Len(observations) # 0 => Len(observations) \in Ids
      BY <1>3
    <3> QED BY <1>3, <3>1, <3>2, <3>3 DEF Spaced
  <2> QED BY <2>1, <2>2
<1>7. ASSUME NEW s \in Thread PROVE Timely(pc[s], work[s])'
  <2>1. CASE s = t
    BY <1>1, <2>1 DEF Timely
  <2>2. CASE s # t
    <3>1. pc'[s] = pc[s]
      BY <1>1, <2>2 DEF MovesOnly
    <3>2. pc[s] \in {"check", "previous", "baseline", "save"} =>
            s \in Checker \cup Scheduler /\ t \in Checker \cup Scheduler
      BY <1>1 DEF TypeInv, TypedThread
    <3>3. pc[s] \notin {"check", "previous", "baseline", "save"}
      BY <2>2, <3>2 DEF OneChecker
    <3> QED BY <3>1, <3>3 DEF Timely
  <2> QED BY <2>1, <2>2
<1> QED BY <1>2, <1>4, <1>5, <1>6, <1>7 DEF OrderInv, Timely

LEMMA OrderWrites ==
  ASSUME TypeInv, OrderInv, NEW t \in Thread,
         \/ Abandon(t) \/ PruneWrite(t) \/ PromoteWrite(t) \/ OnboardWrite(t)
         \/ \E c \in work[t].todo : \E e : EvaluatedAs(t, c, e)
  PROVE  OrderInv' /\ HistoryKept
<1>1. /\ MovesOnly(t) /\ pc'[t] \in {"idle", "evaluateWrite", "promoteSource"}
      /\ now' = now /\ scheduled' = scheduled
  BY DEF TypeInv, Abandon, PruneWrite, PromoteWrite, OnboardWrite, EvaluatedAs, UpsertSource,
     sourceVars, Finish, Goto, MovesOnly
<1>2. HistoryKept
  <2>1. CASE PruneWrite(t)
    BY <2>1, HistoryPruned DEF HistoryKept
  <2>2. CASE ~PruneWrite(t)
    BY <2>2 DEF Abandon, PromoteWrite, OnboardWrite, EvaluatedAs, UpsertSource, sourceVars,
       HistoryKept, Ids
  <2> QED BY <2>1, <2>2
<1>3. Timely(pc'[t], work'[t])
  BY <1>1 DEF Timely
<1> QED BY <1>1, <1>2, <1>3, OrderFrame

LEMMA OrderStill ==
  ASSUME TypeInv, OrderInv,
         Tick \/ UNCHANGED vars \/ \E t \in Thread, d \in Definitions : AddSource(t, d) \/ UpdateSource(t, d)
  PROVE  OrderInv' /\ HistoryKept
<1>1. UNCHANGED <<observations, scheduled, pc, work>> /\ now' \in {now, now + 1} /\ Ids' = Ids
  BY DEF Tick, vars, sourceVars, AddSource, UpdateSource, UpsertSource, Ids
<1>2. /\ now \in Nat /\ Len(observations) \in Ids \cup {0}
      /\ \A i \in Ids : observations[i].at \in Nat
      /\ \A t \in Thread : work[t].at \in Nat
  <2>1. Len(observations) \in Nat /\ Ids = 1..Len(observations)
    BY IdsAre
  <2>2. Len(observations) \in Ids \cup {0}
    BY <2>1
  <2>3. \A i \in Ids : observations[i].at \in Nat
    BY IdsAre DEF Observation
  <2>4. now \in Nat /\ \A t \in Thread : work[t] \in Work
    BY DEF TypeInv, TypedSource
  <2>5. \A t \in Thread : work[t].at \in Nat
    BY <2>4 DEF Work
  <2> QED BY <2>2, <2>3, <2>4, <2>5
<1>3. now <= now' /\ now' \in Nat
  BY <1>1, <1>2
<1>4. ASSUME NEW t \in Thread PROVE Timely(pc[t], work[t])'
  <2>1. Timely(pc[t], work[t])
    BY DEF OrderInv
  <2>2. Spaced(Len(observations), now) => Spaced(Len(observations), now)'
    BY <1>1, <1>2, <1>3 DEF Spaced
  <2>3. work[t].at <= now => work[t].at <= now'
    BY <1>2, <1>3
  <2> QED BY <1>1, <2>1, <2>2, <2>3 DEF Timely, Spaced
<1>5. \A i \in Ids' : observations'[i].at <= now'
  BY <1>1, <1>2, <1>3 DEF OrderInv
<1>6. Sorted' /\ \A i \in scheduled' : Spaced(i - 1, observations[i].at)'
  BY <1>1 DEF OrderInv, Sorted, Spaced
<1> QED BY <1>1, <1>4, <1>5, <1>6 DEF OrderInv, HistoryKept

LEMMA OrderStep ==
  ASSUME OneChecker, TypeInv, OrderInv, [Next]_vars PROVE OrderInv'
<1>1. CASE Tick \/ UNCHANGED vars \/ \E t \in Thread, d \in Definitions : AddSource(t, d) \/ UpdateSource(t, d)
  BY <1>1, OrderStill
<1>2. ASSUME NEW t \in Thread,
             QuietSteps(t) \/ Abandon(t) \/ PruneWrite(t) \/ PromoteWrite(t) \/ OnboardWrite(t)
      PROVE  OrderInv'
  BY <1>2, OrderQuiet, OrderWrites
<1>3. ASSUME NEW t \in Thread, NEW r \in Results, NEW o, SavedAs(t, r, o) PROVE OrderInv'
  BY <1>3, OrderSave
<1>4. ASSUME NEW t \in Thread, NEW c \in work[t].todo, NEW e, EvaluatedAs(t, c, e) PROVE OrderInv'
  BY <1>4, OrderWrites
<1> QED BY <1>1, <1>2, <1>3, <1>4, StepsOf

LEMMA OrderInit == Init => OrderInv
<1> SUFFICES ASSUME Init PROVE OrderInv
  OBVIOUS
<1>1. \A i \in Ids : i = 1 /\ observations[i].at = 0
  <2>1. CASE observations = <<>>
    BY <2>1 DEF Ids
  <2>2. CASE observations = <<[at |-> 0, health |-> "Warning", usable |-> TRUE, raw |-> FALSE]>>
    BY <2>2 DEF Ids
  <2> QED BY <2>1, <2>2 DEF Init
<1>2. Sorted /\ \A i \in Ids : observations[i].at <= now
  BY <1>1 DEF Sorted, Init
<1> QED BY <1>2 DEF Init, OrderInv, Timely

LEMMA Ordered == OneChecker => (Spec => []OrderInv)
<1> SUFFICES ASSUME OneChecker PROVE Spec => []OrderInv
  OBVIOUS
<1>1. TypeInv /\ OrderInv /\ [Next]_vars => OrderInv'
  BY OrderStep
<1> QED BY <1>1, Typed, OrderInit, PTL DEF Spec
-----------------------------------------------------------------------------
(* Candidates and the history, with one thread that checks.                *)

\* What observation i raises, given the one saved before it.
Raises(i) == IncidentTransition(HealthOf(i - 1), observations[i].health)

\* Candidate c is what its observation raises.
Matches(c) ==
  /\ c.observation \in Ids
  /\ c.transition = Raises(c.observation)
  /\ c.previous_health = HealthOf(c.observation - 1)

\* The candidates are what the history raises, and so are those an evaluation
\* is about to write, however old its list.
CandidatesInv ==
  /\ \A c \in candidates : Matches(c)
  /\ \A t \in Thread : \A c \in work[t].todo : Matches(c)
  /\ \A i \in Ids : Raises(i) # Null => \E c \in candidates : c.observation = i

HealthStays == \A i \in Ids : i \in Ids' /\ observations'[i].health = observations[i].health

LEMMA RaisesStays ==
  ASSUME TypeInv, HealthStays, NEW i \in Ids
  PROVE  Raises(i)' = Raises(i) /\ HealthOf(i - 1)' = HealthOf(i - 1)
<1>1. i - 1 = 0 \/ i - 1 \in Ids
  BY IdsAre
<1> QED BY <1>1 DEF Raises, HealthOf, HealthStays

LEMMA MatchesStays ==
  ASSUME TypeInv, HealthStays, NEW c, Matches(c) PROVE Matches(c)'
<1>1. /\ c.observation \in Ids /\ c.transition = Raises(c.observation)
      /\ c.previous_health = HealthOf(c.observation - 1)
  BY DEF Matches
<1>2. c.observation \in Ids'
  BY <1>1 DEF HealthStays
<1>3. /\ Raises(c.observation)' = Raises(c.observation)
      /\ HealthOf(c.observation - 1)' = HealthOf(c.observation - 1)
  BY <1>1, RaisesStays
<1> QED BY <1>1, <1>2, <1>3 DEF Matches

\* A step that writes no candidate and lists at most those there are.
LEMMA CandidatesFrame ==
  ASSUME TypeInv, CandidatesInv, HealthStays, Ids' = Ids, candidates' = candidates,
         \A t \in Thread : work'[t].todo \subseteq work[t].todo \cup candidates
  PROVE  CandidatesInv'
<1>1. \A c \in candidates' : Matches(c)'
  BY MatchesStays DEF CandidatesInv
<1>2. \A t \in Thread : \A c \in work'[t].todo : Matches(c)'
  BY MatchesStays DEF CandidatesInv
<1>3. \A i \in Ids' : Raises(i)' # Null => \E c \in candidates' : c.observation = i
  BY RaisesStays DEF CandidatesInv
<1> QED BY <1>1, <1>2, <1>3 DEF CandidatesInv

\* What the steps that write no candidate list is there already.
LEMMA TodoGrows ==
  ASSUME TypeInv, NEW t \in Thread,
         QuietSteps(t) \/ Abandon(t) \/ PruneWrite(t) \/ PromoteWrite(t) \/ OnboardWrite(t)
  PROVE  /\ candidates' = candidates /\ Ids' = Ids /\ HealthStays
         /\ \A s \in Thread : work'[s].todo \subseteq work[s].todo \cup candidates
<1>1. candidates' = candidates /\ \A s \in Thread \ {t} : work'[s] = work[s]
  BY QuietKeepsCandidates, WritesKeepCandidates DEF CandidatesKept
<1>2. Ids' = Ids /\ HealthStays
  <2>1. CASE PruneWrite(t)
    BY <2>1, HistoryPruned DEF HealthStays
  <2>2. CASE ~PruneWrite(t)
    <3>1. observations' = observations
      BY <2>2 DEF QuietSteps, CheckSource, ListDue, Decide, CheckDue, RequestPromotion,
         PromoteCheck, PromoteReview, PromoteReadSource, EvaluatePending, EvaluateList, Onboard,
         ReadPrevious, ReadBaseline, PruneReadBaseline, PruneList, ReadOnly, sourceVars,
         Abandon, PromoteWrite, OnboardWrite, UpsertSource
    <3> QED BY <3>1 DEF HealthStays, Ids
  <2> QED BY <2>1, <2>2
<1>3. work \in [Thread -> Work] /\ work[t] \in Work /\ NoWork.todo = {} /\ NoWork \in Work
  BY NoWorkTyped DEF TypeInv, NoWork
<1>4. work'[t].todo \subseteq work[t].todo \cup candidates
  <2>1. CASE EvaluateList(t)
    BY <1>3, <2>1 DEF EvaluateList, Goto, Finish, PendingCandidates, Work
  <2>2. CASE ~EvaluateList(t)
    <3>1. /\ \A n, m : [NoWork EXCEPT !.source = n, !.at = m].todo = {}
          /\ \A n, m : [NoWork EXCEPT !.source = n, !.due = m].todo = {}
          /\ \A n, m : [NoWork EXCEPT !.expected = n, !.target = m].todo = {}
          /\ \A n : [NoWork EXCEPT !.source = n].todo = {}
      BY DEF NoWork
    <3>2. \A n, m : /\ [work[t] EXCEPT !.source = n, !.at = m].todo = work[t].todo
                    /\ [work[t] EXCEPT !.previous = n].todo = work[t].todo
                    /\ [work[t] EXCEPT !.baseline = n].todo = work[t].todo
                    /\ [work[t] EXCEPT !.keep = n].todo = work[t].todo
      BY <1>3 DEF Work
    <3>3. \A step, w : Goto(t, step, w) => work'[t] = w
      BY <1>3 DEF Goto
    <3>4. CASE QuietSteps(t)
      <4>1. CASE CheckSource(t) \/ ListDue(t) \/ \E d \in Definitions : Onboard(t, d)
        BY <3>1, <3>3, <4>1 DEF CheckSource, ListDue, Onboard
      <4>2. CASE \E expected, target \in Ids : RequestPromotion(t, expected, target)
        BY <3>1, <3>3, <4>2 DEF RequestPromotion
      <4>3. CASE EvaluatePending(t) \/ PromoteReadSource(t)
        BY <1>3, <3>1, <3>3, <4>3 DEF EvaluatePending, PromoteReadSource, Finish
      <4>4. CASE Decide(t) \/ PromoteCheck(t) \/ PromoteReview(t)
        BY <1>3, <3>3, <4>4 DEF Decide, PromoteCheck, PromoteReview, Finish
      <4>5. CASE CheckDue(t)
        <5>1. PICK w : w = [work[t] EXCEPT !.source = source, !.at = now]
          OBVIOUS
        <5>2. w.todo = work[t].todo
          BY <3>2, <5>1
        <5>3. Goto(t, "previous", w) \/ Finish(t)
          BY <4>5, <5>1 DEF CheckDue
        <5> QED BY <1>3, <3>3, <5>2, <5>3 DEF Finish
      <4>6. CASE ReadPrevious(t) \/ ReadBaseline(t)
        BY <3>2, <3>3, <4>6 DEF ReadPrevious, ReadBaseline
      <4>7. CASE PruneReadBaseline(t) \/ PruneList(t)
        <5>1. \E keep : work'[t] = [work[t] EXCEPT !.keep = keep]
          BY <3>3, <4>7 DEF PruneReadBaseline, PruneList
        <5> QED BY <3>2, <5>1
      <4> QED BY <2>2, <3>4, <4>1, <4>2, <4>3, <4>4, <4>5, <4>6, <4>7 DEF QuietSteps
    <3>5. CASE ~QuietSteps(t)
      BY <1>3, <3>3, <3>5 DEF PruneWrite, Abandon, PromoteWrite, OnboardWrite, Finish
    <3> QED BY <3>4, <3>5
  <2> QED BY <2>1, <2>2
<1> QED BY <1>1, <1>2, <1>4

LEMMA CandidatesQuiet ==
  ASSUME TypeInv, CandidatesInv,
         \/ \E t \in Thread : \/ QuietSteps(t) \/ Abandon(t) \/ PruneWrite(t) \/ PromoteWrite(t)
                              \/ OnboardWrite(t)
         \/ Tick \/ UNCHANGED vars
         \/ \E t \in Thread, d \in Definitions : AddSource(t, d) \/ UpdateSource(t, d)
  PROVE  CandidatesInv'
<1>1. CASE Tick \/ UNCHANGED vars \/ \E t \in Thread, d \in Definitions : AddSource(t, d) \/ UpdateSource(t, d)
  <2>1. UNCHANGED <<observations, candidates, work>>
    BY <1>1 DEF Tick, vars, sourceVars, AddSource, UpdateSource, UpsertSource
  <2> QED BY <2>1, CandidatesFrame DEF HealthStays, Ids
<1>2. ASSUME NEW t \in Thread,
             QuietSteps(t) \/ Abandon(t) \/ PruneWrite(t) \/ PromoteWrite(t) \/ OnboardWrite(t)
      PROVE  CandidatesInv'
  BY <1>2, TodoGrows, CandidatesFrame
<1> QED BY <1>1, <1>2

LEMMA CandidatesSave ==
  ASSUME OneChecker, TypeInv, OrderInv, CandidatesInv,
         NEW t \in Thread, NEW r \in Results, NEW o, SavedAs(t, r, o)
  PROVE  CandidatesInv'
<1>1. PICK id : id = Len(observations) + 1
  OBVIOUS
<1>2. HealthStays /\ Ids' = Ids \cup {id} /\ id - 1 = Len(observations) /\ id \in Nat /\ id \notin Ids
  BY <1>1, HistoryGrows, IdsAre DEF HealthStays
<1>3. HealthOf(work[t].previous) = HealthOf(id - 1)' /\ observations'[id].health = r.health
  <2>1. work[t].previous = id - 1 /\ (id - 1 = 0 \/ id - 1 \in Ids)
    BY <1>2, OrderSave, IdsAre
  <2> QED BY <1>1, <1>2, <2>1, HistoryGrows DEF HealthOf, HealthStays
<1>4. Raises(id)' = IncidentTransition(HealthOf(work[t].previous), r.health)
  BY <1>3 DEF Raises
<1>5. ASSUME NEW c \in candidates' PROVE Matches(c)'
  <2>1. CASE c \in candidates
    BY <1>2, <2>1, MatchesStays DEF CandidatesInv
  <2>2. CASE c \notin candidates
    <3>1. /\ c.observation = id /\ c.previous_health = HealthOf(work[t].previous)
          /\ c.transition = IncidentTransition(HealthOf(work[t].previous), r.health)
      BY <1>1, <2>2, CandidatesRaised
    <3> QED BY <1>2, <1>3, <1>4, <3>1 DEF Matches
  <2> QED BY <2>1, <2>2
<1>6. ASSUME NEW s \in Thread, NEW c \in work'[s].todo PROVE Matches(c)'
  <2>1. c \in work[s].todo
    BY <1>6, NoWorkTyped DEF SavedAs, Goto, Finish, TypeInv, NoWork
  <2> QED BY <1>2, <2>1, MatchesStays DEF CandidatesInv
<1>7. ASSUME NEW i \in Ids', Raises(i)' # Null PROVE \E c \in candidates' : c.observation = i
  <2>1. candidates \subseteq candidates'
    BY CandidatesRaised
  <2>2. CASE i \in Ids
    BY <1>2, <1>7, <2>1, <2>2, RaisesStays DEF CandidatesInv
  <2>3. CASE i = id
    BY <1>1, <1>4, <1>7, <2>3, CandidatesRaised
  <2> QED BY <1>2, <2>2, <2>3
<1> QED BY <1>5, <1>6, <1>7 DEF CandidatesInv

LEMMA CandidatesEvaluate ==
  ASSUME TypeInv, CandidatesInv, NEW t \in Thread, NEW c \in work[t].todo, NEW e, EvaluatedAs(t, c, e)
  PROVE  CandidatesInv'
<1>1. /\ observations' = observations
      /\ candidates' = {d \in candidates : d.observation # c.observation} \cup {e}
      /\ e.observation = c.observation /\ e.transition = c.transition
      /\ e.previous_health = c.previous_health
  BY CandidateEvaluated DEF EvaluatedAs
<1>2. Ids' = Ids /\ HealthStays
  BY <1>1 DEF Ids, HealthStays
<1>3. \A d \in candidates' : Matches(d)'
  <2>1. Matches(e)
    BY <1>1 DEF CandidatesInv, Matches
  <2> QED BY <1>1, <1>2, <2>1, MatchesStays DEF CandidatesInv
<1>4. ASSUME NEW s \in Thread, NEW d \in work'[s].todo PROVE Matches(d)'
  <2>1. work[t] \in Work /\ NoWork.todo = {} /\ work \in [Thread -> Work] 
    BY DEF TypeInv, NoWork
  <2>2. d \in work[s].todo
    BY <1>4, <2>1 DEF EvaluatedAs, Goto, Finish, Work
  <2> QED BY <1>2, <2>2, MatchesStays DEF CandidatesInv
<1>5. \A i \in Ids' : Raises(i)' # Null => \E d \in candidates' : d.observation = i
  <2>1. \A i \in Ids : (\E d \in candidates : d.observation = i) => \E d \in candidates' : d.observation = i
    BY <1>1
  <2> QED BY <1>2, <2>1, RaisesStays DEF CandidatesInv
<1> QED BY <1>3, <1>4, <1>5 DEF CandidatesInv

LEMMA CandidatesStep ==
  ASSUME OneChecker, TypeInv, OrderInv, CandidatesInv, [Next]_vars PROVE CandidatesInv'
<1>1. ASSUME NEW t \in Thread, NEW r \in Results, NEW o, SavedAs(t, r, o) PROVE CandidatesInv'
  BY <1>1, CandidatesSave
<1>2. ASSUME NEW t \in Thread, NEW c \in work[t].todo, NEW e, EvaluatedAs(t, c, e) PROVE CandidatesInv'
  BY <1>2, CandidatesEvaluate
<1> QED BY <1>1, <1>2, CandidatesQuiet, StepsOf

LEMMA CandidatesInit == Init => CandidatesInv
<1> SUFFICES ASSUME Init PROVE CandidatesInv
  OBVIOUS
<1>0. \A t \in Thread : work[t].todo = {}
  BY DEF Init, NoWork
<1>1. CASE observations = <<>> /\ candidates = {}
  <2>1. Ids = {}
    BY <1>1 DEF Ids
  <2> QED BY <1>0, <1>1, <2>1 DEF CandidatesInv
<1>2. CASE /\ observations = <<[at |-> 0, health |-> "Warning", usable |-> TRUE, raw |-> FALSE]>>
           /\ candidates = NotificationCandidate(Null, 1, "Warning")
  <2>1. Ids = {1} /\ observations[1].health = "Warning" /\ 1 - 1 = 0
    BY <1>2 DEF Ids
  <2>2. HealthOf(1 - 1) = Null
    BY <2>1 DEF HealthOf
  <2>3. Raises(1) = IncidentTransition(Null, "Warning")
    BY <2>1, <2>2 DEF Raises
  <2>4. IncidentTransition(Null, "Warning") = "Opened" /\ Null # "Opened"
    BY NullIsNone DEF IncidentTransition, Transitions
  <2>5. candidates = {[observation |-> 1, transition |-> "Opened", previous_health |-> Null,
                       state |-> "Pending", policy |-> Null]}
    BY <1>2, <2>4 DEF NotificationCandidate
  <2> QED BY <1>0, <2>1, <2>2, <2>3, <2>4, <2>5 DEF CandidatesInv, Matches
<1> QED BY <1>1, <1>2 DEF Init

LEMMA Raised == OneChecker => (Spec => [](TypeInv /\ OrderInv /\ CandidatesInv))
<1> SUFFICES ASSUME OneChecker PROVE Spec => [](TypeInv /\ OrderInv /\ CandidatesInv)
  OBVIOUS
<1>1. TypeInv /\ OrderInv /\ CandidatesInv /\ [Next]_vars => CandidatesInv'
  BY CandidatesStep
<1> QED BY <1>1, Typed, Ordered, CandidatesInit, PTL DEF Spec

-----------------------------------------------------------------------------
(* Incidents, with one thread that checks.                                 *)

\* The observations listed are the last ones saved.
LEMMA WindowIs ==
  ASSUME TypeInv, Sorted, NEW limit \in Nat \ {0}
  PROVE  /\ NewestOf(Ids, limit) = {i \in Ids : Len(observations) - i < limit}
         /\ Len(observations) >= limit => Cardinality(NewestOf(Ids, limit)) = limit
<1>1. PICK n : n = Len(observations)
  OBVIOUS
<1>2. n \in Nat /\ Ids = 1..n
  BY <1>1, IdsAre
<1>3. ASSUME NEW i \in Ids PROVE Cardinality({j \in Ids : Newer(j, i)}) = n - i
  <2>1. PICK newer : newer = {j \in Ids : Newer(j, i)}
    OBVIOUS
  <2>2. newer = (i + 1)..n
    <3>1. \A j \in Ids : Newer(j, i) <=> j > i
      BY SortedNewer
    <3> QED BY <1>2, <2>1, <3>1
  <2>3. i + 1 \in Int /\ n \in Int /\ i \in Int /\ i <= n
    BY <1>2
  <2>4. Cardinality((i + 1)..n) = IF i + 1 > n THEN 0 ELSE n - (i + 1) + 1
    BY <2>3, FS_Interval
  <2>5. Cardinality(newer) = n - i
    BY <2>2, <2>3, <2>4
  <2> QED BY <2>1, <2>5
<1>4. NewestOf(Ids, limit) = {i \in Ids : n - i < limit}
  BY <1>3 DEF NewestOf
<1>5. ASSUME n >= limit PROVE Cardinality(NewestOf(Ids, limit)) = limit
  <2>0. PICK last : last = {i \in Ids : n - i < limit}
    OBVIOUS
  <2>1. last = (n - limit + 1)..n
    BY <1>2, <1>5, <2>0
  <2>2. n - limit + 1 \in Int /\ n \in Int
    BY <1>2
  <2>3. Cardinality((n - limit + 1)..n) =
          IF n - limit + 1 > n THEN 0 ELSE n - (n - limit + 1) + 1
    BY <2>2, FS_Interval
  <2>4. Cardinality(last) = limit
    BY <1>2, <2>1, <2>3
  <2> QED BY <1>4, <2>0, <2>4
<1> QED BY <1>1, <1>4, <1>5

\* The incident: the last run of unhealthy observations among those listed, and
\* the observation that ended it.
LEMMA IncidentIs ==
  ASSUME TypeInv, Sorted, LatestIncident # Null,
         NEW window, window = NewestOf(Ids, IncidentLimit)
  PROVE  \E newest, block, opened :
           /\ newest \in window /\ block \subseteq window /\ opened \in block
           /\ LatestIncident.opened = opened /\ LatestIncident.block = block
           /\ LatestIncident.peak = "Critical" => \E i \in block : observations[i].health = "Critical"
           /\ LatestIncident.recovered # 0 => /\ LatestIncident.recovered = newest + 1
                                              /\ newest + 1 \in Ids
                                              /\ observations[newest + 1].health = "Healthy"
           /\ observations[newest].health # "Healthy"
           /\ \A i \in block : /\ opened <= i /\ observations[i].health # "Healthy"
                               /\ i - 1 \in window /\ observations[i - 1].health # "Healthy" =>
                                    i - 1 \in block
<1> DEFINE unhealthy == {i \in window : observations[i].health # "Healthy"}
           newest    == CHOOSE i \in unhealthy : \A j \in unhealthy \ {i} : Newer(i, j)
           block     == {i \in unhealthy : \A j \in window \ unhealthy :
                                             Newer(j, i) => Newer(j, newest)}
           opened    == CHOOSE i \in block : \A j \in block \ {i} : Newer(j, i)
           after     == {j \in window : Newer(j, newest)}
           recovered == IF after = {} THEN 0
                        ELSE CHOOSE j \in after : \A k \in after \ {j} : Newer(k, j)
<1>0. /\ unhealthy # {}
      /\ LatestIncident = [opened |-> opened, block |-> block,
                           peak |-> IF \E i \in block : observations[i].health = "Critical"
                                    THEN "Critical" ELSE "Warning",
                           recovered |-> recovered]
  BY DEF LatestIncident
<1>1. \A i \in window : i \in unhealthy <=> observations[i].health # "Healthy"
  OBVIOUS
<1>4. /\ (\E i \in unhealthy : \A j \in unhealthy \ {i} : Newer(i, j)) =>
           newest \in unhealthy /\ \A j \in unhealthy \ {newest} : Newer(newest, j)
      /\ unhealthy \subseteq window
  OBVIOUS
<1>6. /\ block \subseteq unhealthy
      /\ \A i \in unhealthy : i \in block <=>
           \A j \in window \ unhealthy : Newer(j, i) => Newer(j, newest)
  OBVIOUS
<1>8. (\E i \in block : \A j \in block \ {i} : Newer(j, i)) =>
        opened \in block /\ \A j \in block \ {opened} : Newer(j, opened)
  OBVIOUS
<1>10. \A j \in Ids : j \in after <=> j \in window /\ Newer(j, newest)
  BY DEF NewestOf
<1>11. /\ after \subseteq window
       /\ recovered # 0 => after # {}
       /\ recovered # 0 /\ (\E j \in after : \A k \in after \ {j} : Newer(k, j)) =>
            recovered \in after /\ \A k \in after \ {recovered} : Newer(k, recovered)
  OBVIOUS
<1> HIDE DEF unhealthy, newest, block, opened, after, recovered
<1>2. /\ window = {i \in Ids : Len(observations) - i < IncidentLimit} /\ Ids = 1..Len(observations)
      /\ Len(observations) \in Nat /\ IncidentLimit \in Nat
      /\ \A i, j \in Ids : Newer(i, j) <=> i > j
  BY WindowIs, IdsAre, SortedNewer
<1>5. newest \in unhealthy /\ \A j \in unhealthy : j <= newest
  <2>1. \E i \in unhealthy : \A j \in unhealthy \ {i} : Newer(i, j)
    BY <1>0, <1>2, <1>4, NewestExists
  <2>2. newest \in unhealthy /\ \A j \in unhealthy \ {newest} : Newer(newest, j)
    BY <1>4, <2>1
  <2>3. unhealthy \subseteq Ids
    BY <1>2, <1>4
  <2> QED BY <1>2, <2>2, <2>3
<1>7. block \subseteq unhealthy /\ newest \in block /\ block \subseteq window /\ block \subseteq Nat
  <2>1. newest \in block
    BY <1>5, <1>6
  <2>2. window \subseteq Nat
    BY <1>2
  <2> QED BY <1>4, <1>6, <2>1, <2>2
<1>9. opened \in block /\ \A j \in block : opened <= j
  <2>1. PICK i \in block : \A j \in block : i <= j
    BY <1>7, LeastOf
  <2>2. \A j \in block \ {i} : Newer(j, i)
    BY <1>2, <1>7, <2>1
  <2>3. opened \in block /\ \A j \in block \ {opened} : Newer(j, opened)
    BY <1>8, <2>2
  <2> QED BY <1>2, <1>7, <2>3
<1>13. ASSUME recovered # 0
       PROVE  recovered = newest + 1 /\ newest + 1 \in Ids /\ observations[newest + 1].health = "Healthy"
  <2>1. newest \in window /\ newest \in Nat /\ after = {j \in window : j > newest} /\ after # {}
    <3>1. newest \in window /\ newest \in Ids /\ newest \in Nat
      BY <1>2, <1>4, <1>5
    <3>2. after # {} /\ \A j \in after : j \in window /\ j \in Ids
      BY <1>2, <1>11, <1>13
    <3>3. \A j : j \in after <=> j \in window /\ j > newest
      BY <1>2, <1>10, <3>1, <3>2
    <3> QED BY <3>1, <3>2, <3>3
  <2>2. newest + 1 \in after
    BY <1>2, <2>1
  <2>3. \A k \in after \ {newest + 1} : Newer(k, newest + 1)
    BY <1>2, <2>1, <2>2
  <2>4. recovered \in after /\ \A k \in after \ {recovered} : Newer(k, recovered)
    BY <1>11, <1>13, <2>2, <2>3
  <2>5. recovered = newest + 1
    BY <1>2, <2>1, <2>2, <2>4
  <2>6. newest + 1 \notin unhealthy
    BY <1>5, <2>1
  <2> QED BY <1>1, <1>2, <2>1, <2>2, <2>5, <2>6
<1>14. ASSUME NEW i \in block, i - 1 \in window, observations[i - 1].health # "Healthy"
       PROVE  i - 1 \in block
  <2>1. i - 1 \in unhealthy /\ i \in unhealthy
    BY <1>1, <1>7, <1>14
  <2>2. ASSUME NEW j \in window \ unhealthy, Newer(j, i - 1) PROVE Newer(j, newest)
    <3>1. j > i - 1 /\ j # i /\ i \in Nat /\ j \in Nat /\ i \in Ids /\ j \in Ids
      BY <1>2, <1>7, <1>14, <2>1, <2>2
    <3>2. Newer(j, i)
      BY <1>2, <3>1
    <3> QED BY <1>6, <2>2, <3>2
  <2> QED BY <1>6, <2>1, <2>2
<1>15. observations[newest].health # "Healthy" /\ newest \in window
  BY <1>1, <1>4, <1>5
<1>16. \A i \in block : observations[i].health # "Healthy"
  BY <1>1, <1>7
<1>17. /\ LatestIncident.opened = opened /\ LatestIncident.block = block
       /\ LatestIncident.peak = "Critical" => \E i \in block : observations[i].health = "Critical"
       /\ LatestIncident.recovered = recovered
  BY <1>0
<1> QED BY <1>7, <1>9, <1>13, <1>14, <1>15, <1>16, <1>17

\* Observation i of an incident: an earlier one in the list is unhealthy, or the
\* list ends at i, or i opened it.
LEMMA FirstOfIncident ==
  ASSUME TypeInv, Sorted, NEW window, window = NewestOf(Ids, IncidentLimit), NEW i \in window
  PROVE  \/ i - 1 \in window
         \/ HealthOf(i - 1) = Null
         \/ /\ Cardinality(window) = IncidentLimit
            /\ \A j \in window \ {i} : Newer(j, i)
<1>1. /\ window = {j \in Ids : Len(observations) - j < IncidentLimit} /\ Ids = 1..Len(observations)
      /\ Len(observations) \in Nat /\ IncidentLimit \in Nat \ {0}
      /\ \A j, k \in Ids : Newer(j, k) <=> j > k
      /\ Len(observations) >= IncidentLimit => Cardinality(window) = IncidentLimit
  BY WindowIs, IdsAre, SortedNewer
<1>2. CASE i = 1
  <2>1. i - 1 = 0
    BY <1>2
  <2> QED BY <2>1 DEF HealthOf
<1>3. CASE i # 1 /\ i - 1 \notin window
  <2>1. Len(observations) - i = IncidentLimit - 1 /\ Len(observations) >= IncidentLimit
    <3>1. \A j \in Ids : j \in window <=> Len(observations) - j < IncidentLimit
      BY <1>1
    <3>2. i \in Ids /\ i - 1 \in Ids
      BY <1>1, <1>3
    <3>3. Len(observations) - i < IncidentLimit /\ ~(Len(observations) - (i - 1) < IncidentLimit)
      BY <1>3, <3>1, <3>2
    <3>4. Len(observations) \in Nat /\ i \in Nat \ {0} /\ IncidentLimit \in Nat /\ i <= Len(observations)
      BY <1>1, <3>2
    <3> QED BY <3>3, <3>4
  <2>2. \A j \in window : j >= i
    BY <1>1, <2>1
  <2> QED BY <1>1, <2>1, <2>2
<1> QED BY <1>2, <1>3

LEMMA IncidentAnnounced ==
  ASSUME TypeInv, Sorted, CandidatesInv, LatestIncident # Null,
         NEW window, window = NewestOf(Ids, IncidentLimit),
         NEW truncated, truncated = (Cardinality(window) = IncidentLimit)
  PROVE  /\ \/ \E c \in candidates : c.observation = LatestIncident.opened /\ c.transition = "Opened"
            \/ truncated /\ \A i \in window \ {LatestIncident.opened} :
                              Newer(i, LatestIncident.opened)
         /\ LatestIncident.recovered # 0 =>
              \E c \in candidates : /\ c.observation = LatestIncident.recovered
                                    /\ c.transition = "Recovered"
                                    /\ observations[c.observation].health = "Healthy"
         /\ LatestIncident.peak = "Critical" =>
              \/ \E c \in candidates : /\ c.observation \in LatestIncident.block
                                       /\ c.transition \in {"Opened", "Escalated"}
                                       /\ observations[c.observation].health = "Critical"
              \/ truncated
<1>1. PICK newest, block, opened :
           /\ newest \in window /\ block \subseteq window /\ opened \in block
           /\ LatestIncident.opened = opened /\ LatestIncident.block = block
           /\ LatestIncident.peak = "Critical" => \E i \in block : observations[i].health = "Critical"
           /\ LatestIncident.recovered # 0 => /\ LatestIncident.recovered = newest + 1
                                              /\ newest + 1 \in Ids
                                              /\ observations[newest + 1].health = "Healthy"
           /\ observations[newest].health # "Healthy"
           /\ \A i \in block : /\ opened <= i /\ observations[i].health # "Healthy"
                               /\ i - 1 \in window /\ observations[i - 1].health # "Healthy" =>
                                    i - 1 \in block
  BY IncidentIs
<1>2. /\ window \subseteq Ids /\ Ids = 1..Len(observations) /\ Len(observations) \in Nat
      /\ 0 \notin Ids /\ \A i \in Ids : observations[i].health \in Healths
  BY IdsAre DEF NewestOf, Observation
<1>3. \A i \in Ids : /\ i # 0 /\ HealthOf(i) = observations[i].health
                     /\ Raises(i) # Null => \E c \in candidates : c.observation = i /\ c.transition = Raises(i)
  BY <1>2 DEF CandidatesInv, Matches, HealthOf
<1>4. Null \notin Healths /\ Null \notin Transitions
  BY NullIsNone
<1>5. ASSUME NEW i \in block, i - 1 \notin block PROVE HealthOf(i - 1) \in {Null, "Healthy"} \/
         (truncated /\ \A j \in window \ {i} : Newer(j, i))
  <2>1. i \in window
    BY <1>1
  <2>2. CASE i - 1 \in window
    <3>1. observations[i - 1].health = "Healthy"
      BY <1>1, <1>5, <2>2
    <3> QED BY <1>2, <1>3, <2>2, <3>1
  <2> QED BY <2>1, <2>2, FirstOfIncident
<1>6. \/ \E c \in candidates : c.observation = opened /\ c.transition = "Opened"
      \/ truncated /\ \A i \in window \ {opened} : Newer(i, opened)
  <2>1. opened - 1 \notin block /\ opened \in Ids /\ observations[opened].health # "Healthy"
    <3>1. opened \in block /\ opened \in Ids /\ opened \in Nat /\ \A i \in block : opened <= i
      BY <1>1, <1>2
    <3>2. ~(opened <= opened - 1)
      BY <3>1
    <3> QED BY <1>1, <3>1, <3>2
  <2>2. CASE HealthOf(opened - 1) \in {Null, "Healthy"}
    <3>1. Raises(opened) = "Opened"
      BY <1>2, <1>4, <2>1, <2>2 DEF Raises, IncidentTransition, Healths
    <3> QED BY <1>3, <1>4, <2>1, <3>1 DEF Transitions
  <2>3. CASE truncated /\ \A i \in window \ {opened} : Newer(i, opened)
    BY <2>3
  <2>4. opened \in block
    BY <1>1
  <2> QED BY <1>5, <2>1, <2>2, <2>3, <2>4
<1>7. ASSUME LatestIncident.recovered # 0
      PROVE  \E c \in candidates : /\ c.observation = LatestIncident.recovered
                                   /\ c.transition = "Recovered"
                                   /\ observations[c.observation].health = "Healthy"
  <2>1. /\ newest + 1 \in Ids /\ observations[newest + 1].health = "Healthy"
        /\ newest \in Ids /\ (newest + 1) - 1 = newest
        /\ HealthOf((newest + 1) - 1) \in {"Warning", "Critical"}
    BY <1>1, <1>2, <1>3, <1>7 DEF Healths
  <2>2. Raises(newest + 1) = "Recovered"
    <3>1. \A h \in {"Warning", "Critical"} : IncidentTransition(h, "Healthy") = "Recovered"
      BY DEF IncidentTransition
    <3>2. Raises(newest + 1) = IncidentTransition(HealthOf((newest + 1) - 1), "Healthy")
      BY <2>1 DEF Raises
    <3>3. HealthOf((newest + 1) - 1) \in {"Warning", "Critical"}
      BY <2>1
    <3> QED BY <3>1, <3>2, <3>3
  <2> QED BY <1>1, <1>3, <1>4, <1>7, <2>1, <2>2 DEF Transitions
<1>8. ASSUME LatestIncident.peak = "Critical", ~truncated
      PROVE  \E c \in candidates : /\ c.observation \in block
                                   /\ c.transition \in {"Opened", "Escalated"}
                                   /\ observations[c.observation].health = "Critical"
  <2>1. PICK critical : critical = {i \in block : observations[i].health = "Critical"}
    OBVIOUS
  <2>2. critical \in SUBSET Nat /\ critical # {}
    <3>1. block \subseteq Nat
      BY <1>1, <1>2
    <3>2. \E i \in block : observations[i].health = "Critical"
      BY <1>1, <1>8
    <3> QED BY <2>1, <3>1, <3>2
  <2>3. PICK i \in critical : \A j \in critical : i <= j
    BY <2>2, LeastOf
  <2>4. /\ i \in block /\ i \in Ids /\ i \in Nat /\ observations[i].health = "Critical"
        /\ i - 1 \notin critical
    <3>1. i \in block /\ observations[i].health = "Critical" /\ i \in Nat
      BY <2>1, <2>2
    <3>2. i \in Ids
      BY <1>1, <1>2, <3>1
    <3>3. ~(i <= i - 1)
      BY <3>1
    <3> QED BY <2>3, <3>1, <3>2, <3>3
  <2>5. HealthOf(i - 1) \in {Null, "Healthy", "Warning"}
    <3>1. CASE i - 1 \in block
      <4>1. i - 1 \in Ids /\ observations[i - 1].health # "Critical"
        BY <1>1, <1>2, <2>1, <2>4, <3>1
      <4> QED BY <1>2, <1>3, <4>1 DEF Healths
    <3>2. CASE i - 1 \notin block
      BY <1>5, <1>8, <2>4, <3>2
    <3> QED BY <3>1, <3>2
  <2>6. Raises(i) \in {"Opened", "Escalated"}
    BY <1>4, <2>4, <2>5 DEF Raises, IncidentTransition, Healths
  <2> QED BY <1>3, <1>4, <2>4, <2>6 DEF Transitions
<1> QED BY <1>1, <1>6, <1>7, <1>8

\* With one thread that checks, what incident() reports agrees with what was
\* announced: the observation that opened the incident raised the Opened
\* candidate, unless the incident is older than the list, and a Critical peak and
\* a recovery have candidates too (service.py:157-160, incidents.py:97-144).
THEOREM IncidentsWereAnnounced == OneChecker => (Spec => []IncidentWasAnnounced)
<1> SUFFICES ASSUME OneChecker PROVE Spec => []IncidentWasAnnounced
  OBVIOUS
<1>1. TypeInv /\ OrderInv /\ CandidatesInv => IncidentWasAnnounced
  <2> SUFFICES ASSUME TypeInv, Sorted, CandidatesInv PROVE IncidentWasAnnounced
    BY DEF OrderInv
  <2>1. \A c \in candidates : observations[c.observation].health \in Healths
    BY IdsAre DEF TypeInv, TypedSource, Observation
  <2> QED BY <2>1, IncidentAnnounced DEF IncidentWasAnnounced
<1> QED BY <1>1, Raised, PTL

-----------------------------------------------------------------------------
(* Scorecards, with one thread that checks.                                *)

LEMMA LongestIs == Longest \in Nat /\ \A d \in Windows : d \in Nat /\ d <= Longest
<1>0. Windows \subseteq Nat /\ Windows # {} /\ IsFiniteSet(Windows)
  BY ScorecardAssumption
<1>1. PICK rank : rank = [d \in Windows |-> Cardinality({e \in Windows : e > d})]
  OBVIOUS
<1>2. \A d \in Windows : IsFiniteSet({e \in Windows : e > d}) /\ rank[d] \in Nat
  BY <1>0, <1>1, FS_Subset, FS_CardinalityType
<1>3. PICK ranks : ranks = {rank[d] : d \in Windows}
  OBVIOUS
<1>4. PICK m \in ranks : \A r \in ranks : m <= r
  <2>1. ranks \in SUBSET Nat /\ ranks # {}
    BY <1>0, <1>2, <1>3
  <2> QED BY <2>1, LeastOf
<1>5. PICK d \in Windows : rank[d] = m
  BY <1>3
<1>6. ASSUME NEW e \in Windows PROVE e <= d
  <2>0. d \in Nat /\ e \in Nat /\ \A x \in Windows : x \in Nat
    BY <1>0
  <2>1. SUFFICES ASSUME e > d PROVE FALSE
    BY <2>0
  <2>2. PICK above, beyond : above = {x \in Windows : x > d} /\ beyond = {x \in Windows : x > e}
    OBVIOUS
  <2>3. beyond \in SUBSET above /\ beyond # above
    <3>1. e \in above /\ e \notin beyond
      BY <2>0, <2>1, <2>2
    <3>2. ASSUME NEW x \in beyond PROVE x \in above
      <4>1. x \in Windows /\ x \in Nat /\ x > e
        BY <2>0, <2>2
      <4>2. x > d
        BY <2>0, <2>1, <4>1
      <4> QED BY <2>2, <4>1, <4>2
    <3> QED BY <3>1, <3>2
  <2>4. IsFiniteSet(above)
    BY <1>2, <2>2
  <2>5. Cardinality(beyond) <= Cardinality(above) /\ Cardinality(beyond) # Cardinality(above)
    BY <2>3, <2>4, FS_Subset
  <2>6. rank[e] <= rank[d] /\ rank[e] # rank[d]
    BY <1>1, <2>2, <2>5
  <2>7. rank[e] \in ranks /\ rank[e] \in Nat /\ rank[d] \in Nat
    BY <1>2, <1>3
  <2>8. rank[d] <= rank[e]
    BY <1>4, <1>5, <2>7
  <2> QED BY <2>6, <2>7, <2>8
<1>7. Longest \in Windows /\ \A e \in Windows : e <= Longest
  BY <1>6 DEF Longest
<1> QED BY <1>0, <1>7

\* The observations from lo on, as far as they were made until as_of.
Page(ids, lo, as_of) ==
  /\ lo \in Nat \ {0}
  /\ ids = {i \in Ids : i >= lo /\ observations[i].at <= as_of}

\* A page from lo on begins with the history, or with a Healthy observation
\* before every window.
Whole(lo, as_of) ==
  \/ lo = 1
  \/ /\ lo \in Ids
     /\ observations[lo].health = "Healthy"
     /\ observations[lo].at + Longest < as_of

LEMMA SufficientIsWhole ==
  ASSUME TypeInv, Sorted, NEW as_of \in Nat, NEW n \in Nat \ {0},
         Sufficient(NewestOf(Ids, n), n, as_of),
         NEW lo \in Nat \ {0}, NewestOf(Ids, n) = {i \in Ids : i >= lo},
         lo = (IF Len(observations) > n THEN Len(observations) - n + 1 ELSE 1)
  PROVE  Whole(lo, as_of)
<1>1. PICK ids : ids = NewestOf(Ids, n)
  OBVIOUS
<1>2. Len(observations) \in Nat /\ Ids = 1..Len(observations)
  BY IdsAre
<1>3. CASE Cardinality(ids) < n
  <2>1. ~(Len(observations) >= n)
    <3>1. Len(observations) >= n => Cardinality(ids) = n
      BY <1>1, WindowIs
    <3> QED BY <1>3, <3>1
  <2> QED BY <1>2, <2>1 DEF Whole
<1>4. CASE /\ UpTo(ids, as_of) # {}
           /\ observations[OldestOf(ids)].at + Longest < as_of
           /\ observations[OldestOf(ids)].health = "Healthy"
  <2>1. ids # {} /\ ids = {i \in Ids : i >= lo}
    BY <1>1, <1>4 DEF UpTo
  <2>2. lo \in ids
    BY <1>2, <2>1
  <2>6. /\ \A i, j \in Ids : Newer(i, j) <=> i > j
        /\ \A i \in ids : i \in Nat /\ i \in Ids /\ i >= lo
    BY <1>2, <2>1, SortedNewer
  <2>3. ASSUME NEW j \in ids \ {lo} PROVE Newer(j, lo)
    <3>1. j \in Nat /\ j \in Ids /\ lo \in Ids /\ j >= lo /\ j # lo
      BY <2>2, <2>6
    <3>2. j > lo
      BY <3>1
    <3> QED BY <2>6, <3>1, <3>2
  <2>4. ASSUME NEW i \in ids, \A j \in ids \ {i} : Newer(j, i) PROVE i = lo
    <3>1. i \in Nat /\ i \in Ids /\ lo \in Ids /\ i >= lo
      BY <2>2, <2>6
    <3>2. i # lo => lo > i
      BY <2>2, <2>4, <2>6, <3>1
    <3> QED BY <3>1, <3>2
  <2>5. OldestOf(ids) = lo
    BY <2>2, <2>3, <2>4 DEF OldestOf
  <2> QED BY <1>4, <2>1, <2>2, <2>5 DEF Whole
<1> QED BY <1>1, <1>3, <1>4 DEF Sufficient

\* The end of the history that a scorecard reads.
LEMMA HistoryIs ==
  ASSUME TypeInv, Sorted, NEW as_of \in Nat
  PROVE  /\ History(as_of).complete \in BOOLEAN
         /\ \E lo : /\ Page(UpTo(History(as_of).ids, as_of), lo, as_of)
                    /\ History(as_of).complete => Whole(lo, as_of)
<1>1. PICK enough : enough = {n \in Limits : Sufficient(NewestOf(Ids, n), n, as_of)}
  OBVIOUS
<1>2. PICK first : first = CHOOSE n \in enough : \A m \in enough : n <= m
  OBVIOUS
<1>3. History(as_of) = IF enough = {}
                       THEN [ids |-> NewestOf(Ids, MaximumHistory), complete |-> FALSE]
                       ELSE [ids |-> NewestOf(Ids, first), complete |-> TRUE]
  BY <1>1, <1>2 DEF History
<1>4. Limits \subseteq Nat \ {0} /\ MaximumHistory \in Nat \ {0}
  BY ScorecardAssumption DEF Limits
<1>5. enough # {} => first \in enough
  <2>1. enough \in SUBSET Nat
    BY <1>1, <1>4
  <2> QED BY <1>2, <2>1, LeastOf
<1>6. PICK n : n = IF enough = {} THEN MaximumHistory ELSE first
  OBVIOUS
<1>7. /\ n \in Nat \ {0} /\ History(as_of).ids = NewestOf(Ids, n)
      /\ History(as_of).complete \in BOOLEAN
      /\ History(as_of).complete => Sufficient(NewestOf(Ids, n), n, as_of)
  BY <1>1, <1>3, <1>4, <1>5, <1>6
<1>8. Len(observations) \in Nat /\ Ids = 1..Len(observations)
  BY IdsAre
<1>9. PICK lo : lo = IF Len(observations) > n THEN Len(observations) - n + 1 ELSE 1
  OBVIOUS
<1>10. lo \in Nat \ {0}
  BY <1>7, <1>8, <1>9
<1>11. NewestOf(Ids, n) = {i \in Ids : i >= lo}
  <2>1. \A i \in Ids : Len(observations) - i < n <=> i >= lo
    BY <1>7, <1>8, <1>9
  <2>2. NewestOf(Ids, n) = {i \in Ids : Len(observations) - i < n}
    BY <1>7, WindowIs
  <2> QED BY <2>1, <2>2
<1>12. Page(UpTo(History(as_of).ids, as_of), lo, as_of)
  BY <1>7, <1>10, <1>11 DEF Page, UpTo
<1>13. History(as_of).complete => Whole(lo, as_of)
  BY <1>7, <1>9, <1>10, <1>11, SufficientIsWhole
<1> QED BY <1>7, <1>12, <1>13

\* What a page tells of its observations: what they raised, except of the one
\* it begins with.
LEMMA PageTells ==
  ASSUME TypeInv, Sorted, NEW as_of \in Nat, NEW ids, NEW lo, Page(ids, lo, as_of),
         NEW complete \in BOOLEAN, NEW i \in ids
  PROVE  TransitionAt(ids, i, complete) =
           IF i > lo THEN Raises(i)
           ELSE IF complete THEN IncidentTransition(Null, observations[i].health) ELSE Null
<1>1. /\ Ids \subseteq Nat \ {0} /\ lo \in Nat \ {0}
      /\ \A j : j \in ids <=> j \in Ids /\ j >= lo /\ observations[j].at <= as_of
      /\ \A j, k \in Ids : Newer(j, k) <=> j > k
  <2>1. Ids \subseteq Nat \ {0}
    BY IdsAre
  <2>2. \A j, k \in Ids : Newer(j, k) <=> j > k
    BY SortedNewer
  <2> QED BY <2>1, <2>2 DEF Page
<1>2. PICK older : older = {j \in ids : Newer(i, j)}
  OBVIOUS
<1>3. PICK previous : previous = CHOOSE j \in older : \A k \in older \ {j} : Newer(j, k)
  OBVIOUS
<1>4. TransitionAt(ids, i, complete) =
        CASE older # {} -> IncidentTransition(observations[previous].health, observations[i].health)
          [] older = {} /\ complete -> IncidentTransition(Null, observations[i].health)
          [] OTHER -> Null
  BY <1>2, <1>3 DEF TransitionAt
<1>5. \A j : j \in older <=> j \in ids /\ j < i
  BY <1>1, <1>2
<1>6. CASE i > lo
  <2>1. i - 1 \in Ids /\ i - 1 >= lo /\ i \in Ids
    BY <1>1, <1>6, IdsAre
  <2>2. observations[i - 1].at <= observations[i].at /\ observations[i].at <= as_of
    BY <1>1, <2>1 DEF Sorted
  <2>3. observations[i - 1].at \in Nat /\ observations[i].at \in Nat
    BY <2>1, IdsAre DEF Observation
  <2>4. i - 1 \in older
    BY <1>1, <1>5, <2>1, <2>2, <2>3
  <2>9. \A k \in older : k \in Ids /\ k \in Nat /\ i \in Nat /\ k < i
    BY <1>1, <1>5, <2>1
  <2>5. ASSUME NEW k \in older \ {i - 1} PROVE Newer(i - 1, k)
    <3>1. i - 1 > k /\ k \in Ids
      BY <2>9
    <3> QED BY <1>1, <2>1, <3>1
  <2>6. ASSUME NEW j \in older, \A k \in older \ {j} : Newer(j, k) PROVE j = i - 1
    <3>1. j # i - 1 => Newer(j, i - 1)
      BY <2>4, <2>6
    <3>2. Newer(j, i - 1) => j > i - 1
      BY <1>1, <2>1, <2>9
    <3> QED BY <2>9, <3>1, <3>2
  <2>7. previous = i - 1
    BY <1>3, <2>4, <2>5, <2>6
  <2>8. HealthOf(i - 1) = observations[i - 1].health
    BY <1>1, <2>1 DEF HealthOf
  <2> QED BY <1>4, <1>6, <2>4, <2>7, <2>8 DEF Raises
<1>7. CASE ~(i > lo)
  <2>1. ASSUME NEW j \in older PROVE FALSE
    <3>1. j \in Ids /\ j \in Nat /\ i \in Nat /\ j >= lo /\ j < i /\ lo \in Nat
      BY <1>1, <1>5
    <3> QED BY <1>7, <3>1
  <2> QED BY <1>4, <1>7, <2>1
<1> QED BY <1>6, <1>7

\* What a scorecard shows in a window was made within it, and nothing of the
\* window is missing when the page is whole.
LEMMA WindowOfPage ==
  ASSUME TypeInv, Sorted, NEW as_of \in Nat, NEW ids, NEW lo, Page(ids, lo, as_of),
         NEW d \in Windows
  PROVE  /\ Within(ids, as_of, d) \subseteq Within(Ids, as_of, d)
         /\ Whole(lo, as_of) => /\ Within(Ids, as_of, d) = Within(ids, as_of, d)
                                /\ lo # 1 => \A i \in Within(ids, as_of, d) : i > lo
<1>1. /\ Ids \subseteq Nat \ {0} /\ lo \in Nat \ {0}
      /\ \A j : j \in ids <=> j \in Ids /\ j >= lo /\ observations[j].at <= as_of
      /\ \A j \in Ids : observations[j].at \in Nat
  BY IdsAre DEF Page, Observation
<1>2. /\ \A j : j \in Within(ids, as_of, d) <=>
                  j \in ids /\ observations[j].at <= as_of /\ observations[j].at + d >= as_of
      /\ \A j : j \in Within(Ids, as_of, d) <=>
                  j \in Ids /\ observations[j].at <= as_of /\ observations[j].at + d >= as_of
  BY DEF Within, UpTo
<1>3. Within(ids, as_of, d) \subseteq Within(Ids, as_of, d)
  BY <1>1, <1>2
<1>4. ASSUME lo # 1, Whole(lo, as_of), NEW i \in Within(Ids, as_of, d) PROVE i > lo
  <2>1. /\ lo \in Ids /\ i \in Ids /\ lo \in Nat /\ i \in Nat
        /\ observations[lo].at \in Nat /\ observations[i].at \in Nat
    BY <1>1, <1>2, <1>4 DEF Whole
  <2>2. observations[lo].at + Longest < as_of
    BY <1>4 DEF Whole
  <2>3. observations[i].at + d >= as_of
    BY <1>2, <1>4
  <2>4. d \in Nat /\ Longest \in Nat /\ d <= Longest
    BY LongestIs
  <2>5. i <= lo => observations[i].at <= observations[lo].at
    BY <2>1 DEF Sorted
  <2> QED BY <2>1, <2>2, <2>3, <2>4, <2>5
<1>5. ASSUME Whole(lo, as_of) PROVE Within(Ids, as_of, d) \subseteq Within(ids, as_of, d)
  <2>1. ASSUME NEW i \in Within(Ids, as_of, d) PROVE i >= lo
    <3>1. i \in Nat \ {0} /\ lo \in Nat
      BY <1>1, <1>2
    <3>2. lo = 1 \/ i > lo
      BY <1>4, <1>5
    <3> QED BY <3>1, <3>2
  <2> QED BY <1>1, <1>2, <2>1
<1> QED BY <1>3, <1>4, <1>5

\* An incident that ends at i: the latest Opened before i, and no Recovered since.
OpenedBy(m, i) ==
  /\ m \in Ids /\ m < i /\ Raises(m) = "Opened"
  /\ \A k \in Ids : m < k /\ k < i => Raises(k) \notin {"Opened", "Recovered"}
  /\ \A k \in Ids : m <= k /\ k < i => observations[k].health # "Healthy"

LEMMA IncidentBegins ==
  ASSUME TypeInv, NEW i \in Ids, Raises(i) = "Recovered" PROVE \E m \in Ids : OpenedBy(m, i)
<1>1. /\ Ids \subseteq Nat \ {0} /\ i \in Nat \ {0}
      /\ \A j \in Ids : \A k \in Nat \ {0} : k < j => k \in Ids
  BY IdsAre
<1>2. PICK run : run = {j \in Ids : j < i /\ \A k \in Ids : j <= k /\ k < i => observations[k].health # "Healthy"}
  OBVIOUS
<1>3. i - 1 \in run
  <2>1. HealthOf(i - 1) \in {"Warning", "Critical"}
    BY NullIsNone DEF Raises, IncidentTransition, Transitions
  <2>2. i # 1
    <3>1. HealthOf(0) = Null
      BY DEF HealthOf
    <3> QED BY <2>1, <3>1, NullIsNone DEF Healths
  <2>3. i - 1 \in Ids /\ i - 1 < i
    BY <1>1, <2>2
  <2>4. observations[i - 1].health # "Healthy"
    BY <1>1, <2>1, <2>3 DEF HealthOf
  <2>5. \A k \in Ids : i - 1 <= k /\ k < i => k = i - 1
    BY <1>1
  <2> QED BY <1>2, <2>3, <2>4, <2>5
<1>4. PICK m \in run : \A j \in run : m <= j
  <2>1. run \in SUBSET Nat /\ run # {}
    BY <1>1, <1>2, <1>3
  <2> QED BY <2>1, LeastOf
<1>5. /\ m \in Ids /\ m \in Nat \ {0} /\ m < i
      /\ \A k \in Ids : m <= k /\ k < i => observations[k].health # "Healthy"
  BY <1>1, <1>2, <1>4
<1>6. HealthOf(m - 1) \in {Null, "Healthy"}
  <2>1. CASE m = 1
    <3>1. m - 1 = 0
      BY <2>1
    <3> QED BY <3>1 DEF HealthOf
  <2>2. CASE m # 1
    <3>1. m - 1 \in Ids /\ m - 1 < i /\ m - 1 # 0 /\ ~(m <= m - 1)
      BY <1>1, <1>5, <2>2
    <3>2. m - 1 \notin run
      BY <1>4, <3>1
    <3>3. PICK k \in Ids : m - 1 <= k /\ k < i /\ observations[k].health = "Healthy"
      BY <1>2, <3>1, <3>2
    <3>4. ~(m <= k)
      BY <1>5, <3>3
    <3>5. k = m - 1
      BY <1>1, <1>5, <3>3, <3>4
    <3> QED BY <3>1, <3>3, <3>5 DEF HealthOf
  <2> QED BY <2>1, <2>2
<1>7. Raises(m) = "Opened"
  BY <1>5, <1>6, NullIsNone DEF Raises, IncidentTransition, Healths
<1>8. ASSUME NEW k \in Ids, m < k, k < i PROVE Raises(k) \notin {"Opened", "Recovered"}
  <2>1. k \in Nat /\ k - 1 \in Ids /\ k - 1 # 0 /\ m <= k - 1 /\ k - 1 < i /\ m <= k
    BY <1>1, <1>5, <1>8
  <2>2. observations[k].health # "Healthy" /\ observations[k - 1].health # "Healthy"
    BY <1>5, <1>8, <2>1
  <2>3. HealthOf(k - 1) # "Healthy" /\ HealthOf(k - 1) # Null
    <3>1. observations[k - 1].health \in Healths /\ HealthOf(k - 1) = observations[k - 1].health
      BY <2>1, IdsAre DEF HealthOf, Observation
    <3> QED BY <2>2, <3>1, NullIsNone
  <2> QED BY <2>2, <2>3, NullIsNone DEF Raises, IncidentTransition, Transitions
<1> QED BY <1>5, <1>7, <1>8 DEF OpenedBy

\* Only one observation opened the incident.
LEMMA OneOpening ==
  ASSUME TypeInv, NEW i \in Ids, NEW m, NEW k \in Ids, OpenedBy(m, i), k < i, Raises(k) = "Opened"
  PROVE  k <= m
<1>1. k \in Nat /\ m \in Nat /\ m \in Ids
  BY IdsAre DEF OpenedBy
<1>2. ~(m < k)
  BY DEF OpenedBy
<1> QED BY <1>1, <1>2

\* A whole page tells of every observation what it raised, but of the one it begins
\* with, unless that is the first of all.
LEMMA WholePageTells ==
  ASSUME TypeInv, Sorted, NEW as_of \in Nat, NEW ids, NEW lo, Page(ids, lo, as_of),
         Whole(lo, as_of), NEW j \in ids
  PROVE  TransitionAt(ids, j, TRUE) = IF j > lo \/ lo = 1 THEN Raises(j) ELSE Null
<1>1. lo \in Nat /\ j \in Nat /\ j >= lo /\ j \in Ids
  BY IdsAre DEF Page
<1>2. CASE j > lo
  BY <1>2, PageTells
<1>3. CASE ~(j > lo)
  <2>1. j = lo /\ TransitionAt(ids, j, TRUE) = IncidentTransition(Null, observations[j].health)
    <3>1. TransitionAt(ids, j, TRUE) =
            IF j > lo THEN Raises(j)
            ELSE IF TRUE THEN IncidentTransition(Null, observations[j].health) ELSE Null
      BY PageTells
    <3>2. j = lo
      BY <1>1, <1>3
    <3> QED BY <1>3, <3>1, <3>2
  <2>2. CASE lo = 1
    <3>1. j - 1 = 0
      BY <2>1, <2>2
    <3>2. HealthOf(j - 1) = Null
      BY <3>1 DEF HealthOf
    <3> QED BY <2>1, <2>2, <3>2 DEF Raises
  <2>3. CASE lo # 1
    <3>1. observations[j].health = "Healthy"
      BY <2>1, <2>3 DEF Whole
    <3>2. IncidentTransition(Null, "Healthy") = Null
      BY NullIsNone DEF IncidentTransition, Healths
    <3> QED BY <1>3, <2>1, <2>3, <3>1, <3>2
  <2> QED BY <2>2, <2>3
<1> QED BY <1>2, <1>3

TimedFrom(ids, i, m) ==
  RecoveryMinutes(ids, i, TRUE) = observations[i].at - observations[m].at

\* In a page that is whole, the observation that opened the incident is there,
\* and the minutes to the recovery count from it.
LEMMA RecoveryIsTimed ==
  ASSUME TypeInv, Sorted, NEW as_of \in Nat, NEW ids, NEW lo, Page(ids, lo, as_of),
         Whole(lo, as_of), NEW i \in ids, i > lo \/ lo = 1, NEW m, OpenedBy(m, i)
  PROVE  TimedFrom(ids, i, m)
<1>1. /\ Ids \subseteq Nat \ {0} /\ lo \in Nat \ {0}
      /\ \A j : j \in ids <=> j \in Ids /\ j >= lo /\ observations[j].at <= as_of
      /\ \A j, k \in Ids : Newer(j, k) <=> j > k
      /\ \A j \in Ids : observations[j].at \in Nat
  <2>1. Ids \subseteq Nat \ {0} /\ \A j \in Ids : observations[j].at \in Nat
    BY IdsAre DEF Observation
  <2>2. \A j, k \in Ids : Newer(j, k) <=> j > k
    BY SortedNewer
  <2> QED BY <2>1, <2>2 DEF Page
<1>2. i \in Ids /\ i \in Nat /\ m \in Ids /\ m \in Nat \ {0} /\ m < i /\ Raises(m) = "Opened"
  BY <1>1 DEF OpenedBy
<1>3. lo = 1 \/ m > lo
  <2>1. CASE lo # 1
    <3>1. lo \in Ids /\ observations[lo].health = "Healthy" /\ lo < i
      BY <1>1, <1>2, <2>1 DEF Whole
    <3>2. ~(m <= lo)
      BY <3>1 DEF OpenedBy
    <3> QED BY <1>1, <1>2, <3>2
  <2> QED BY <2>1
<1>4. m \in ids
  <2>1. observations[m].at <= observations[i].at /\ observations[i].at <= as_of
    BY <1>1, <1>2 DEF Sorted
  <2>2. observations[m].at <= as_of
    BY <1>1, <1>2, <2>1
  <2>3. m >= lo
    BY <1>1, <1>2, <1>3
  <2> QED BY <1>1, <1>2, <2>2, <2>3
<1>5. PICK opened : opened = {j \in ids : Newer(i, j) /\ TransitionAt(ids, j, TRUE) = "Opened"}
  OBVIOUS
<1>6. PICK unended : unended = {j \in opened : \A k \in ids :
                                  Newer(i, k) /\ Newer(k, j) => TransitionAt(ids, k, TRUE) # "Recovered"}
  OBVIOUS
<1>7. RecoveryMinutes(ids, i, TRUE) =
        IF unended = {} THEN Null
        ELSE observations[i].at -
               observations[CHOOSE j \in unended : \A k \in unended \ {j} : Newer(j, k)].at
  BY <1>5, <1>6 DEF RecoveryMinutes
<1>16. \A j \in ids : TransitionAt(ids, j, TRUE) = IF j > lo \/ lo = 1 THEN Raises(j) ELSE Null
  BY WholePageTells
<1>8. \A j \in ids : TransitionAt(ids, j, TRUE) \in {"Opened", "Recovered"} =>
                       Raises(j) = TransitionAt(ids, j, TRUE)
  BY <1>16, NullIsNone DEF Transitions
<1>9. m \in opened
  BY <1>1, <1>2, <1>3, <1>4, <1>5, <1>16
<1>10. m \in unended
  <2>1. ASSUME NEW k \in ids, Newer(i, k), Newer(k, m) PROVE TransitionAt(ids, k, TRUE) # "Recovered"
    <3>1. k \in Ids /\ m < k /\ k < i
      BY <1>1, <1>2, <2>1
    <3>2. Raises(k) \notin {"Opened", "Recovered"}
      BY <3>1 DEF OpenedBy
    <3> QED BY <1>8, <3>2
  <2> QED BY <1>6, <1>9, <2>1
<1>11. ASSUME NEW j \in unended PROVE j \in Ids /\ j <= m
  <2>1. j \in Ids /\ j < i /\ Raises(j) = "Opened"
    BY <1>1, <1>2, <1>5, <1>6, <1>8
  <2> QED BY <1>2, <2>1, OneOpening
<1>12. ASSUME NEW j \in unended \ {m} PROVE Newer(m, j)
  <2>1. j \in Ids /\ j <= m /\ j # m /\ j \in Nat
    BY <1>1, <1>11
  <2>2. m > j
    BY <1>2, <2>1
  <2> QED BY <1>1, <1>2, <2>1, <2>2
<1>13. ASSUME NEW j \in unended, \A k \in unended \ {j} : Newer(j, k) PROVE j = m
  <2>1. j \in Ids /\ j <= m /\ j \in Nat
    BY <1>1, <1>11
  <2>2. j # m => j > m
    BY <1>1, <1>2, <1>10, <1>13, <2>1
  <2> QED BY <1>2, <2>1, <2>2
<1>14. PICK chosen : chosen = CHOOSE j \in unended : \A k \in unended \ {j} : Newer(j, k)
  OBVIOUS
<1>15. chosen = m
  BY <1>10, <1>12, <1>13, <1>14
<1> QED BY <1>7, <1>10, <1>14, <1>15 DEF TimedFrom

\* The minutes announced with a recovery count from that observation as well.
LEMMA AnnouncementIsTimed ==
  ASSUME TypeInv, Sorted, CandidatesInv, OneCandidate, NEW i \in Ids, NEW m, OpenedBy(m, i),
         NEW opened, opened = {b \in candidates : b.transition = "Opened" /\ Newer(i, b.observation)}
  PROVE  (CHOOSE b \in opened : \A a \in opened \ {b} : Newer(b.observation, a.observation)).observation = m
<1>1. /\ Ids \subseteq Nat /\ m \in Ids /\ m < i /\ Raises(m) = "Opened" /\ Raises(m) # Null
      /\ \A j, k \in Ids : Newer(j, k) <=> j > k
  <2>1. Ids \subseteq Nat /\ \A j, k \in Ids : Newer(j, k) <=> j > k
    BY IdsAre, SortedNewer
  <2> QED BY <2>1, NullIsNone DEF OpenedBy, Transitions
<1>2. PICK b \in candidates : b.observation = m /\ b.transition = "Opened"
  <2>1. PICK b \in candidates : b.observation = m
    BY <1>1 DEF CandidatesInv
  <2> QED BY <1>1, <2>1 DEF CandidatesInv, Matches
<1>3. b \in opened
  BY <1>1, <1>2
<1>4. ASSUME NEW a \in opened PROVE a.observation \in Ids /\ a.observation <= m
  <2>1. /\ a \in candidates /\ a.observation \in Ids /\ Raises(a.observation) = "Opened"
        /\ Newer(i, a.observation)
    BY DEF CandidatesInv, Matches
  <2>2. a.observation < i
    BY <1>1, <2>1
  <2> QED BY <2>1, <2>2, OneOpening
<1>5. ASSUME NEW a \in opened \ {b} PROVE Newer(b.observation, a.observation)
  <2>1. a.observation \in Ids /\ a.observation <= m
    BY <1>4
  <2>2. a.observation # m
    BY <1>2 DEF OneCandidate
  <2>4. m \in Nat /\ a.observation \in Nat
    BY <1>1, <2>1
  <2>3. m > a.observation
    BY <2>1, <2>2, <2>4
  <2> QED BY <1>1, <1>2, <2>1, <2>3
<1>6. ASSUME NEW a \in opened, \A c \in opened \ {a} : Newer(a.observation, c.observation)
      PROVE  a = b
  <2>1. a.observation \in Ids /\ a.observation <= m
    BY <1>4
  <2>2. a # b => Newer(a.observation, m)
    BY <1>2, <1>3, <1>6
  <2>3. Newer(a.observation, m) => a.observation > m
    BY <1>1, <2>1
  <2>4. m \in Nat /\ a.observation \in Nat
    BY <1>1, <2>1
  <2> QED BY <2>1, <2>2, <2>3, <2>4
<1>7. PICK last : last = CHOOSE a \in opened : \A c \in opened \ {a} : Newer(a.observation, c.observation)
  OBVIOUS
<1>8. last = b
  BY <1>3, <1>5, <1>6, <1>7
<1> QED BY <1>2, <1>7, <1>8

\* What the page ids tells of observation i, and what candidate c announced.
Event(ids, i, complete) ==
  [observation |-> i, transition |-> TransitionAt(ids, i, complete),
   minutes |-> IF TransitionAt(ids, i, complete) = "Recovered"
               THEN RecoveryMinutes(ids, i, complete) ELSE Null]

Announcement(c) ==
  [observation |-> c.observation, transition |-> c.transition,
   minutes |->
     IF c.transition # "Recovered" THEN Null
     ELSE LET opened == {b \in candidates : /\ b.transition = "Opened"
                                            /\ Newer(c.observation, b.observation)}
              last   == CHOOSE b \in opened : \A a \in opened \ {b} :
                           Newer(b.observation, a.observation)
          IN  observations[c.observation].at - observations[last.observation].at]

\* A whole page tells of an observation in a window what its candidate announced.
LEMMA EventIsAnnounced ==
  ASSUME TypeInv, Sorted, CandidatesInv, OneCandidate, NEW as_of \in Nat, NEW ids, NEW lo,
         Page(ids, lo, as_of), Whole(lo, as_of), NEW i \in ids, i > lo \/ lo = 1,
         NEW c \in candidates, c.observation = i
  PROVE  Announcement(c) = Event(ids, i, TRUE)
<1>1. i \in Ids /\ c.transition = Raises(i)
  BY DEF Page, CandidatesInv, Matches
<1>5. \A j \in ids : TransitionAt(ids, j, TRUE) = IF j > lo \/ lo = 1 THEN Raises(j) ELSE Null
  BY WholePageTells
<1>2. TransitionAt(ids, i, TRUE) = Raises(i)
  BY <1>5
<1>3. CASE Raises(i) # "Recovered"
  BY <1>1, <1>2, <1>3 DEF Announcement, Event
<1>4. CASE Raises(i) = "Recovered"
  <2>1. PICK m \in Ids : OpenedBy(m, i)
    BY <1>1, <1>4, IncidentBegins
  <2>2. RecoveryMinutes(ids, i, TRUE) = observations[i].at - observations[m].at
    <3>1. TimedFrom(ids, i, m)
      BY <2>1, RecoveryIsTimed
    <3> QED BY <3>1 DEF TimedFrom
  <2>3. PICK opened : opened = {b \in candidates : b.transition = "Opened" /\ Newer(i, b.observation)}
    OBVIOUS
  <2>4. PICK last : last = CHOOSE b \in opened : \A a \in opened \ {b} : Newer(b.observation, a.observation)
    OBVIOUS
  <2>5. last.observation = m
    BY <1>1, <2>1, <2>3, <2>4, AnnouncementIsTimed
  <2>6. Announcement(c) = [observation |-> i, transition |-> "Recovered",
                           minutes |-> observations[i].at - observations[last.observation].at]
    BY <1>1, <1>4, <2>3, <2>4 DEF Announcement
  <2>7. Event(ids, i, TRUE) = [observation |-> i, transition |-> "Recovered",
                               minutes |-> RecoveryMinutes(ids, i, TRUE)]
    BY <1>2, <1>4 DEF Event
  <2> QED BY <2>2, <2>5, <2>6, <2>7
<1> QED BY <1>3, <1>4

LEMMA EventsAreAnnounced ==
  ASSUME TypeInv, Sorted, CandidatesInv, OneCandidate, NEW as_of \in Nat, NEW ids, NEW lo,
         Page(ids, lo, as_of), Whole(lo, as_of), NEW d \in Windows
  PROVE  {e \in IncidentEvents(ids, TRUE) : e.observation \in Within(ids, as_of, d)} =
           Announced(Within(Ids, as_of, d))
<1>1. PICK there : there = Within(ids, as_of, d)
  OBVIOUS
<1>2. /\ there = Within(Ids, as_of, d) /\ there \subseteq ids /\ ids \subseteq Ids
      /\ \A i \in there : i > lo \/ lo = 1
  <2>1. there \subseteq ids /\ ids \subseteq Ids
    BY <1>1 DEF Within, UpTo, Page
  <2> QED BY <1>1, <2>1, WindowOfPage
<1>3. PICK shown : shown = {e \in IncidentEvents(ids, TRUE) : e.observation \in there}
  OBVIOUS
<1>4. \A e : e \in shown <=>
               \E i \in there : TransitionAt(ids, i, TRUE) # Null /\ e = Event(ids, i, TRUE)
  <2>1. IncidentEvents(ids, TRUE) =
          {Event(ids, i, TRUE) : i \in {j \in ids : TransitionAt(ids, j, TRUE) # Null}}
    BY DEF IncidentEvents, Event
  <2>2. \A i : Event(ids, i, TRUE).observation = i
    BY DEF Event
  <2> QED BY <1>2, <1>3, <2>1, <2>2
<1>5. \A e : e \in Announced(there) <=>
               \E c \in candidates : c.observation \in there /\ e = Announcement(c)
  <2>1. Announced(there) = {Announcement(c) : c \in {x \in candidates : x.observation \in there}}
    BY DEF Announced, Announcement
  <2> QED BY <2>1
<1>6. \A i \in there : TransitionAt(ids, i, TRUE) = Raises(i)
  BY <1>2, WholePageTells
<1>7. \A c \in candidates : c.observation \in there => Announcement(c) = Event(ids, c.observation, TRUE)
  BY <1>2, EventIsAnnounced
<1>8. ASSUME NEW e \in shown PROVE e \in Announced(there)
  <2>1. PICK i \in there : TransitionAt(ids, i, TRUE) # Null /\ e = Event(ids, i, TRUE)
    BY <1>4
  <2>2. PICK c \in candidates : c.observation = i
    BY <1>2, <1>6, <2>1 DEF CandidatesInv
  <2> QED BY <1>5, <1>7, <2>1, <2>2
<1>9. ASSUME NEW e \in Announced(there) PROVE e \in shown
  <2>1. PICK c \in candidates : c.observation \in there /\ e = Announcement(c)
    BY <1>5
  <2>2. c.transition # Null /\ c.transition = Raises(c.observation)
    BY NullIsNone DEF CandidatesInv, Matches, TypeInv, TypedSource, CandidateRow
  <2> QED BY <1>4, <1>6, <1>7, <2>1, <2>2
<1> QED BY <1>1, <1>2, <1>3, <1>8, <1>9

WasAnnounced(e, ids) ==
  \E a \in Announced(ids) : a.observation = e.observation /\ a.transition = e.transition

\* However much of the history was read, an incident shown was announced.
LEMMA NoEventInvented ==
  ASSUME TypeInv, Sorted, CandidatesInv, NEW as_of \in Nat, NEW ids, NEW lo,
         Page(ids, lo, as_of), NEW d \in Windows,
         NEW e \in IncidentEvents(ids, FALSE), e.observation \in Within(ids, as_of, d)
  PROVE  WasAnnounced(e, Within(Ids, as_of, d))
<1>1. PICK i \in ids : TransitionAt(ids, i, FALSE) # Null /\ e = Event(ids, i, FALSE)
  BY DEF IncidentEvents, Event
<1>2. e.observation = i /\ e.transition = TransitionAt(ids, i, FALSE)
  BY <1>1 DEF Event
<1>3. i \in Ids /\ Raises(i) # Null /\ e.transition = Raises(i)
  <2>1. TransitionAt(ids, i, FALSE) =
          IF i > lo THEN Raises(i)
          ELSE IF FALSE THEN IncidentTransition(Null, observations[i].health) ELSE Null
    BY PageTells
  <2>2. TransitionAt(ids, i, FALSE) = Raises(i)
    BY <1>1, <2>1
  <2> QED BY <1>1, <1>2, <2>2 DEF Page
<1>4. PICK c \in candidates : c.observation = i
  BY <1>3 DEF CandidatesInv
<1>5. c.transition = Raises(i)
  BY <1>4 DEF CandidatesInv, Matches
<1>6. i \in Within(Ids, as_of, d)
  BY <1>2, WindowOfPage
<1>7. Announcement(c) \in Announced(Within(Ids, as_of, d))
  BY <1>4, <1>6 DEF Announced, Announcement
<1>8. Announcement(c).observation = c.observation /\ Announcement(c).transition = c.transition
  BY DEF Announcement
<1> QED BY <1>2, <1>3, <1>4, <1>5, <1>7, <1>8 DEF WasAnnounced

LEMMA ScorecardTells ==
  ASSUME TypeInv, Sorted, CandidatesInv, OneCandidate PROVE ScorecardTellsIncidents
<1> SUFFICES ASSUME NEW as_of \in 0..now, NEW d \in Windows, NEW shown, NEW there, NEW complete,
                    shown = Scorecard(as_of).windows[d], there = Within(Ids, as_of, d),
                    complete = Scorecard(as_of).history_complete
             PROVE  /\ complete => shown.checks = there /\ shown.events = Announced(there)
                    /\ \A e \in shown.events :
                         \E a \in Announced(there) :
                           a.observation = e.observation /\ a.transition = e.transition
  BY DEF ScorecardTellsIncidents
<1>1. as_of \in Nat
  BY DEF TypeInv, TypedSource
<1>2. PICK ids : ids = UpTo(History(as_of).ids, as_of)
  OBVIOUS
<1>3. PICK events : events = IncidentEvents(ids, History(as_of).complete)
  OBVIOUS
<1>4. PICK windows : windows = [w \in Windows |-> Window(ids, events, as_of, w)]
  OBVIOUS
<1>5. Scorecard(as_of).windows = windows /\ complete = History(as_of).complete
  BY <1>2, <1>3, <1>4 DEF Scorecard
<1>6. shown = Window(ids, events, as_of, d)
  BY <1>4, <1>5
<1>7. /\ shown.checks = Within(ids, as_of, d)
      /\ shown.events = {e \in IncidentEvents(ids, complete) : e.observation \in Within(ids, as_of, d)}
  BY <1>3, <1>5, <1>6 DEF Window
<1>8. PICK lo : Page(ids, lo, as_of) /\ (complete => Whole(lo, as_of)) /\ complete \in BOOLEAN
  BY <1>1, <1>2, <1>5, HistoryIs
<1>9. CASE complete = TRUE
  <2>1. shown.checks = there
    BY <1>1, <1>7, <1>8, <1>9, WindowOfPage
  <2>2. shown.events = Announced(there)
    BY <1>1, <1>7, <1>8, <1>9, EventsAreAnnounced
  <2> QED BY <2>1, <2>2
<1>10. CASE complete = FALSE
  <2>1. ASSUME NEW e \in shown.events
        PROVE  \E a \in Announced(there) : a.observation = e.observation /\ a.transition = e.transition
    <3>1. e \in IncidentEvents(ids, FALSE) /\ e.observation \in Within(ids, as_of, d)
      BY <1>7, <1>10
    <3>2. WasAnnounced(e, Within(Ids, as_of, d))
      BY <1>1, <1>8, <3>1, NoEventInvented
    <3> QED BY <3>2 DEF WasAnnounced
  <2> QED BY <1>10, <2>1
<1> QED BY <1>8, <1>9, <1>10

\* With one thread that checks, a scorecard that calls its history complete tells
\* every incident announced in its windows and no other, and how long each took,
\* for every history, page size and window; one that does not invents none
\* (scorecard_service.py:59-94, scorecards.py:77-103).
THEOREM ScorecardsTellIncidents == OneChecker => (Spec => []ScorecardTellsIncidents)
<1> SUFFICES ASSUME OneChecker PROVE Spec => []ScorecardTellsIncidents
  OBVIOUS
<1>1. TypeInv /\ OrderInv /\ CandidatesInv /\ OneCandidate => ScorecardTellsIncidents
  BY ScorecardTells DEF OrderInv
<1> QED BY <1>1, Raised, Typed, OneCandidateInit, OneCandidateStep, PTL DEF Spec

-----------------------------------------------------------------------------
(* Threads that overlap: what the one that moves knows.                    *)

Promotable(i) == i \in Ids /\ observations[i].usable /\ observations[i].health = "Healthy"

\* x is the newest of the observations, 0 if there is none.
IsNewest(x) == (x = 0 /\ Ids = {}) \/ (x \in Ids /\ \A j \in Ids \ {x} : Newer(x, j))

\* The steps that rely on an earlier read.
Relying == {"check", "previous", "baseline", "save", "promoteReview", "promoteWrite",
            "pruneList", "pruneWrite"}

\* What the step that took t to a relying one has seen.
Arrived(t) ==
  /\ UNCHANGED <<observations, baseline, candidates, now, scheduled>>
  /\ pc'[t] = "check" => work'[t] = work[t] /\ IntervalElapsed
  /\ pc'[t] = "previous" => work'[t].at = now /\ (work'[t].due => pc[t] = "check")
  /\ pc'[t] = "baseline" => /\ pc[t] = "previous" /\ work'[t].at = work[t].at
                            /\ work'[t].due = work[t].due /\ IsNewest(work'[t].previous)
  /\ pc'[t] = "save" => /\ pc[t] = "baseline" /\ work'[t].at = work[t].at
                        /\ work'[t].due = work[t].due /\ work'[t].previous = work[t].previous
                        /\ work'[t].baseline = baseline
  /\ pc'[t] = "promoteReview" => baseline # 0 /\ work'[t].expected = baseline
  /\ pc'[t] = "promoteWrite" => /\ pc[t] = "promoteReview" /\ work'[t] = work[t]
                                /\ Promotable(work[t].target)
  /\ pc'[t] = "pruneList" => work'[t].keep = {baseline} \cap Raw
  /\ pc'[t] = "pruneWrite" => pc[t] = "pruneList" /\ work'[t].keep = work[t].keep \cup KeptSnapshots

LEMMA QuietArrives ==
  ASSUME TypeInv, NEW t \in Thread, QuietSteps(t), pc'[t] \in Relying PROVE Arrived(t)
<1>0. /\ pc \in [Thread -> Step] /\ work \in [Thread -> Work] /\ TypedThread(t, pc[t], work[t])
      /\ work[t] \in Work
  BY DEF TypeInv
<1>1. \A step, w : Goto(t, step, w) => pc'[t] = step /\ work'[t] = w
  BY <1>0 DEF Goto
<1>2. Finish(t) => pc'[t] = "idle"
  BY <1>1 DEF Finish
<1>3. ReadOnly => UNCHANGED <<observations, baseline, candidates, now, scheduled>>
  BY DEF ReadOnly, sourceVars
<1>4. CASE CheckSource(t)
  <2>1. [NoWork EXCEPT !.source = source, !.at = now].at = now /\ ~[NoWork EXCEPT !.source = source, !.at = now].due
    BY DEF NoWork
  <2> QED BY <1>1, <1>3, <1>4, <2>1 DEF CheckSource, Arrived
<1>5. CASE Decide(t)
  BY <1>1, <1>2, <1>3, <1>5 DEF Decide, Arrived, Relying
<1>6. CASE CheckDue(t)
  <2>1. PICK w : w = [work[t] EXCEPT !.source = source, !.at = now]
    OBVIOUS
  <2>2. w.at = now
    BY <1>0, <2>1 DEF Work
  <2>3. ReadOnly /\ pc[t] = "check" /\ (Finish(t) \/ Goto(t, "previous", w))
    BY <1>6, <2>1 DEF CheckDue
  <2> QED BY <1>1, <1>2, <1>3, <2>2, <2>3 DEF Arrived, Relying
<1>7. CASE ReadPrevious(t)
  <2>1. PICK w : w = [work[t] EXCEPT !.previous = Latest]
    OBVIOUS
  <2>2. w.at = work[t].at /\ w.due = work[t].due /\ w.previous = Latest
    BY <1>0, <2>1 DEF Work
  <2>3. ReadOnly /\ pc[t] = "previous" /\ Goto(t, "baseline", w)
    BY <1>7, <2>1 DEF ReadPrevious
  <2>4. IsNewest(Latest)
    BY LatestIsNewest DEF IsNewest
  <2> QED BY <1>1, <1>3, <2>2, <2>3, <2>4 DEF Arrived
<1>8. CASE ReadBaseline(t)
  <2>1. PICK w : w = [work[t] EXCEPT !.baseline = baseline]
    OBVIOUS
  <2>2. w.at = work[t].at /\ w.due = work[t].due /\ w.previous = work[t].previous /\ w.baseline = baseline
    BY <1>0, <2>1 DEF Work
  <2>3. ReadOnly /\ pc[t] = "baseline" /\ Goto(t, "save", w)
    BY <1>8, <2>1 DEF ReadBaseline
  <2> QED BY <1>1, <1>3, <2>2, <2>3 DEF Arrived
<1>9. CASE PromoteCheck(t)
  BY <1>1, <1>2, <1>3, <1>9 DEF PromoteCheck, Arrived, Relying
<1>10. CASE PromoteReview(t)
  <2>1. pc[t] = "promoteReview"
    BY <1>10 DEF PromoteReview
  <2>2. work[t].target \in Ids
    BY <1>0, <2>1 DEF TypedThread, Reviewing
  <2> QED BY <1>1, <1>2, <1>3, <1>10, <2>2 DEF PromoteReview, Arrived, Relying, Promotable
<1>11. CASE PruneReadBaseline(t)
  <2>1. PICK w : w = [work[t] EXCEPT !.keep = {baseline} \cap Raw]
    OBVIOUS
  <2>2. w.keep = {baseline} \cap Raw
    BY <1>0, <2>1 DEF Work
  <2>3. ReadOnly /\ Goto(t, "pruneList", w)
    BY <1>11, <2>1 DEF PruneReadBaseline
  <2> QED BY <1>1, <1>3, <2>2, <2>3 DEF Arrived
<1>12. CASE PruneList(t)
  <2>1. PICK w : w = [work[t] EXCEPT !.keep = work[t].keep \cup KeptSnapshots]
    OBVIOUS
  <2>2. w.keep = work[t].keep \cup KeptSnapshots
    BY <1>0, <2>1 DEF Work
  <2>3. ReadOnly /\ pc[t] = "pruneList" /\ Goto(t, "pruneWrite", w)
    BY <1>12, <2>1 DEF PruneList
  <2> QED BY <1>1, <1>3, <2>2, <2>3 DEF Arrived
<1>13. CASE ~(\/ CheckSource(t) \/ Decide(t) \/ CheckDue(t) \/ ReadPrevious(t) \/ ReadBaseline(t)
              \/ PromoteCheck(t) \/ PromoteReview(t) \/ PruneReadBaseline(t) \/ PruneList(t))
  <2>1. pc'[t] \in {"idle", "decide", "promoteCheck", "pruneBaseline", "evaluateList",
                    "evaluateWrite", "onboardWrite"}
    <3>1. CASE ListDue(t) \/ EvaluatePending(t) \/ \E d \in Definitions : Onboard(t, d)
      BY <1>1, <3>1 DEF ListDue, EvaluatePending, Onboard
    <3>2. CASE \E expected, target \in Ids : RequestPromotion(t, expected, target)
      BY <1>1, <3>2 DEF RequestPromotion
    <3>3. CASE PromoteReadSource(t) \/ EvaluateList(t)
      BY <1>1, <1>2, <3>3 DEF PromoteReadSource, EvaluateList
    <3> QED BY <1>13, <3>1, <3>2, <3>3 DEF QuietSteps
  <2> QED BY <2>1 DEF Relying
<1> QED BY <1>4, <1>5, <1>6, <1>7, <1>8, <1>9, <1>10, <1>11, <1>12, <1>13

LEMMA StepMovesOnly ==
  ASSUME TypeInv, NEW t \in Thread,
         \/ QuietSteps(t) \/ Abandon(t) \/ PruneWrite(t) \/ PromoteWrite(t) \/ OnboardWrite(t)
         \/ \E r \in Results : \E o : SavedAs(t, r, o)
         \/ \E c \in work[t].todo : \E e : EvaluatedAs(t, c, e)
  PROVE  MovesOnly(t)
<1>1. pc \in [Thread -> Step] /\ work \in [Thread -> Work]
  BY DEF TypeInv
<1>2. CASE QuietSteps(t)
  BY <1>1, <1>2 DEF QuietSteps, CheckSource, ListDue, Decide, CheckDue, RequestPromotion,
     PromoteCheck, PromoteReview, PromoteReadSource, EvaluatePending, EvaluateList, Onboard,
     ReadPrevious, ReadBaseline, PruneReadBaseline, PruneList, Finish, Goto, MovesOnly
<1>3. CASE ~QuietSteps(t)
  BY <1>1, <1>3 DEF Abandon, PruneWrite, PromoteWrite, OnboardWrite, SavedAs, EvaluatedAs,
     Finish, Goto, MovesOnly
<1> QED BY <1>2, <1>3

\* The thread that moves takes the step.
LEMMA MoverSteps ==
  ASSUME TypeInv, [Next]_vars, NEW t \in Thread, Moves(t)
  PROVE  \/ QuietSteps(t) \/ Abandon(t) \/ PruneWrite(t) \/ PromoteWrite(t) \/ OnboardWrite(t)
         \/ \E r \in Results : \E o : SavedAs(t, r, o)
         \/ \E c \in work[t].todo : \E e : EvaluatedAs(t, c, e)
<1>1. Tick \/ UNCHANGED vars \/ (\E s \in Thread, d \in Definitions : AddSource(s, d) \/ UpdateSource(s, d)) =>
        pc' = pc /\ work' = work
  BY DEF Tick, vars, AddSource, UpdateSource
<1>2. \A s \in Thread : MovesOnly(s) => s = t
  BY DEF MovesOnly, Moves
<1> QED BY <1>1, <1>2, StepsOf, StepMovesOnly DEF Moves

LEMMA Arrives ==
  ASSUME TypeInv, [Next]_vars, NEW t \in Thread, Moves(t), pc'[t] \in Relying PROVE Arrived(t)
<1>1. ASSUME ~QuietSteps(t) PROVE FALSE
  <2>1. pc'[t] \in {"idle", "promoteSource", "pruneBaseline", "evaluateWrite"}
    BY <1>1, MoverSteps DEF TypeInv, Abandon, PruneWrite, PromoteWrite, OnboardWrite, SavedAs,
       EvaluatedAs, Finish, Goto
  <2> QED BY <2>1 DEF Relying
<1> QED BY <1>1, QuietArrives

\* What any step leaves of the history: observations are added, one at a time,
\* or lose row values.
HistoryStays ==
  /\ now \in Nat /\ now' \in Nat /\ now <= now' /\ 0 \notin Ids /\ 0 \notin Ids'
  /\ \A i \in Ids : /\ i \in Ids' /\ i \in Nat /\ observations[i].at \in Nat
                    /\ observations'[i].at = observations[i].at
                    /\ observations'[i].health = observations[i].health
                    /\ observations'[i].usable = observations[i].usable
                    /\ observations'[i].raw => observations[i].raw
  /\ Len(observations') = Len(observations) => Ids' = Ids

LEMMA StepHistory == ASSUME TypeInv, [Next]_vars PROVE HistoryStays
<1>1. /\ now \in Nat /\ Ids = 1..Len(observations) /\ Len(observations) \in Nat
      /\ \A i \in Ids : i \in Nat /\ observations[i].at \in Nat
      /\ 0 \notin Ids'
  <2>1. TypeInv'
    BY TypeInvStep
  <2>2. observations' \in Seq(Observation)
    BY <2>1 DEF TypeInv, TypedSource
  <2> QED BY <2>2, IdsAre DEF Observation, TypeInv, TypedSource, Ids
<1>2. ASSUME observations' = observations, now' = now \/ now' = now + 1 PROVE HistoryStays
  BY <1>1, <1>2 DEF HistoryStays, Ids
<1>3. CASE Tick \/ UNCHANGED vars \/ \E t \in Thread, d \in Definitions : AddSource(t, d) \/ UpdateSource(t, d)
  BY <1>2, <1>3 DEF Tick, vars, sourceVars, AddSource, UpdateSource, UpsertSource
<1>4. ASSUME NEW t \in Thread, QuietSteps(t) PROVE HistoryStays
  BY <1>2, <1>4 DEF QuietSteps, CheckSource, ListDue, Decide, CheckDue, RequestPromotion,
     PromoteCheck, PromoteReview, PromoteReadSource, EvaluatePending, EvaluateList, Onboard,
     ReadPrevious, ReadBaseline, PruneReadBaseline, PruneList, ReadOnly, sourceVars
<1>5. ASSUME NEW t \in Thread,
             \/ Abandon(t) \/ PromoteWrite(t) \/ OnboardWrite(t)
             \/ \E c \in work[t].todo : \E e : EvaluatedAs(t, c, e)
      PROVE  HistoryStays
  BY <1>2, <1>5 DEF Abandon, PromoteWrite, OnboardWrite, UpsertSource, EvaluatedAs, sourceVars
<1>6. ASSUME NEW t \in Thread, PruneWrite(t) PROVE HistoryStays
  <2>1. now' = now
    BY <1>6 DEF PruneWrite
  <2> QED BY <1>1, <1>6, <2>1, HistoryPruned DEF HistoryStays
<1>7. ASSUME NEW t \in Thread, NEW r \in Results, NEW o, SavedAs(t, r, o) PROVE HistoryStays
  <2>1. now' = now /\ observations' = Append(observations, o)
    BY <1>7 DEF SavedAs
  <2>2. o \in Observation /\ observations \in Seq(Observation)
    BY <1>7, HistoryGrows DEF TypeInv, TypedSource
  <2>3. Len(observations') # Len(observations)
    BY <1>1, <2>1, <2>2
  <2> QED BY <1>1, <1>7, <2>1, <2>3, HistoryGrows DEF HistoryStays
<1> QED BY <1>3, <1>4, <1>5, <1>6, <1>7, StepsOf

\* What a thread has not missed has not changed since it read it.
LEMMA NotMissed ==
  ASSUME Overtake, NEW t \in Thread, pc'[t] # "idle", NEW x \in Readable, x \notin missed'[t]
  PROVE  /\ Moves(t) => x \notin missed[t] \/ x \in JustRead(pc'[t])
         /\ ~Moves(t) => x \notin missed[t] /\ x \notin Changed /\ pc'[t] = pc[t] /\ work'[t] = work[t]
<1>1. /\ Moves(t)  => missed'[t] = missed[t] \ JustRead(pc'[t])
      /\ ~Moves(t) => missed'[t] = missed[t] \cup Changed
  BY DEF Overtake
<1> QED BY <1>1 DEF Moves

-----------------------------------------------------------------------------
(* The baseline and the window, for threads that overlap.                  *)

\* What a thread has read of the baseline is still so, unless it missed a
\* change of it; what it was asked to promote may be promoted.
BaselineSeen(t) ==
  /\ "baseline" \notin missed[t] =>
       /\ pc[t] = "save" /\ work[t].baseline = 0 => baseline = 0
       /\ pc[t] \in {"promoteReview", "promoteWrite"} => baseline # 0 /\ work[t].expected = baseline
       /\ pc[t] \in {"pruneList", "pruneWrite"} => {baseline} \cap Raw \subseteq work[t].keep
  /\ "rows" \notin missed[t] =>
       (pc[t] = "pruneWrite" => KeptSnapshots \subseteq work[t].keep)
  /\ pc[t] = "promoteWrite" => Promotable(work[t].target)

LEMMA BaselineSeenStep ==
  ASSUME TypeInv, [Next]_vars, Overtake, NEW t \in Thread, BaselineSeen(t) PROVE BaselineSeen(t)'
<1>1. HistoryStays
  BY StepHistory
<1>2. \A i : Promotable(i) => Promotable(i)'
  BY <1>1 DEF Promotable, HistoryStays
<1>3. CASE pc'[t] \notin Relying
  BY <1>3 DEF BaselineSeen, Relying
<1>4. CASE Moves(t) /\ pc'[t] \in Relying
  <2>1. Arrived(t)
    BY <1>4, Arrives
  <2>2. /\ baseline' = baseline /\ Raw' = Raw /\ KeptSnapshots' = KeptSnapshots
        /\ \A i : Promotable(i)' <=> Promotable(i)
    BY <2>1 DEF Arrived, Raw, KeptSnapshots, NewestOf, Newer, Promotable, Ids
  <2>3. ASSUME "baseline" \notin missed'[t]
        PROVE  /\ pc'[t] = "save" /\ work'[t].baseline = 0 => baseline = 0
               /\ pc'[t] \in {"promoteReview", "promoteWrite"} => baseline # 0 /\ work'[t].expected = baseline
               /\ pc'[t] \in {"pruneList", "pruneWrite"} => {baseline} \cap Raw \subseteq work'[t].keep
    <3>1. pc'[t] \in {"promoteWrite", "pruneWrite"} => "baseline" \notin missed[t]
      BY <1>4, <2>3, NotMissed DEF Readable, JustRead, Relying
    <3> QED BY <2>1, <3>1 DEF Arrived, BaselineSeen
  <2> QED BY <2>1, <2>2, <2>3 DEF Arrived, BaselineSeen
<1>5. CASE ~Moves(t) /\ pc'[t] \in Relying
  <2>1. pc'[t] = pc[t] /\ work'[t] = work[t] /\ pc'[t] # "idle"
    BY <1>5 DEF Moves, Relying
  <2>2. ASSUME "baseline" \notin missed'[t] PROVE "baseline" \notin missed[t] /\ baseline' = baseline
    BY <1>5, <2>1, <2>2, NotMissed DEF Readable, Changed
  <2>3. ASSUME "rows" \notin missed'[t] PROVE "rows" \notin missed[t] /\ observations' = observations
    BY <1>5, <2>1, <2>3, NotMissed DEF Readable, Changed
  <2>4. observations' = observations => KeptSnapshots' = KeptSnapshots
    BY DEF KeptSnapshots, NewestOf, Newer, Raw, Ids
  <2>5. baseline' = baseline => {baseline'} \cap Raw' \subseteq {baseline} \cap Raw
    <3>1. baseline \in Ids \cup {0}
      BY DEF TypeInv, TypedSource
    <3> QED BY <1>1, <3>1 DEF HistoryStays, Raw
  <2> QED BY <1>2, <2>1, <2>2, <2>3, <2>4, <2>5 DEF BaselineSeen
<1> QED BY <1>3, <1>4, <1>5

LEMMA BaselineSeenInit == OInit => \A t \in Thread : BaselineSeen(t)
  BY DEF OInit, Init, BaselineSeen

LEMMA BaselineSeenNext ==
  (\A t \in Thread : BaselineSeen(t)) /\ TypeInv /\ [ONext]_allVars => (\A t \in Thread : BaselineSeen(t))'
<1> SUFFICES ASSUME \A t \in Thread : BaselineSeen(t), TypeInv, [ONext]_allVars, NEW t \in Thread
             PROVE  BaselineSeen(t)'
  OBVIOUS
<1>1. CASE ONext
  BY <1>1, BaselineSeenStep DEF ONext
<1>2. CASE UNCHANGED allVars
  <2>1. UNCHANGED <<observations, baseline, pc, work, missed>>
    BY <1>2 DEF allVars, vars, overlapVars
  <2>2. Raw' = Raw /\ KeptSnapshots' = KeptSnapshots /\ \A i : Promotable(i)' <=> Promotable(i)
    BY <2>1 DEF KeptSnapshots, NewestOf, Newer, Raw, Ids, Promotable
  <2> QED BY <2>1, <2>2 DEF BaselineSeen
<1> QED BY <1>1, <1>2

\* The steps of overlapping threads are those of Monitoring.
LEMMA OTyped == OSpec => []TypeInv
<1>1. OInit => Init
  BY DEF OInit
<1>2. [ONext]_allVars => [Next]_vars
  BY DEF ONext, allVars
<1> QED BY <1>1, <1>2, TypeInvInit, TypeInvStep, PTL DEF OSpec

LEMMA BaselinesSeen == OSpec => [](TypeInv /\ \A t \in Thread : BaselineSeen(t))
  BY OTyped, BaselineSeenInit, BaselineSeenNext, PTL DEF OSpec

LEMMA PromotionStep ==
  ASSUME TypeInv, \A t \in Thread : BaselineSeen(t), [ONext]_allVars, baseline # 0, baseline' # baseline
  PROVE  /\ observations'[baseline'].usable
         /\ \E t \in Thread :
              /\ Moves(t)
              /\ \/ /\ pc[t] = "promoteWrite"
                    /\ baseline' = work[t].target
                    /\ observations[baseline'].health = "Healthy"
                    /\ work[t].expected = baseline \/ "baseline" \in missed[t]
                 \/ /\ pc[t] = "save"
                    /\ "baseline" \in missed[t]
<1>1. [Next]_vars
  BY DEF ONext, allVars
<1>2. ASSUME NEW t \in Thread, NEW r \in Results, NEW o, SavedAs(t, r, o)
      PROVE  /\ observations'[baseline'].usable
             /\ Moves(t) /\ pc[t] = "save" /\ "baseline" \in missed[t]
  <2>1. /\ pc[t] = "save" /\ work[t].baseline = 0 /\ r.usable /\ baseline' = Len(observations) + 1
        /\ pc'[t] # "save"
    BY <1>2 DEF SavedAs, BecomesBaseline, Finish, Goto, TypeInv
  <2>2. observations'[baseline'].usable
    BY <1>2, <2>1, HistoryGrows
  <2> QED BY <2>1, <2>2 DEF BaselineSeen, Moves
<1>3. ASSUME NEW t \in Thread, PromoteWrite(t)
      PROVE  /\ observations'[baseline'].usable
             /\ Moves(t) /\ pc[t] = "promoteWrite" /\ baseline' = work[t].target
             /\ observations[baseline'].health = "Healthy"
             /\ work[t].expected = baseline \/ "baseline" \in missed[t]
  <2>1. /\ pc[t] = "promoteWrite" /\ baseline' = work[t].target /\ observations' = observations
        /\ pc'[t] # "promoteWrite"
    BY <1>3 DEF PromoteWrite, Goto, TypeInv
  <2> QED BY <2>1 DEF BaselineSeen, Promotable, Moves
<1>4. ASSUME NEW t \in Thread, QuietSteps(t) PROVE FALSE
  BY <1>4 DEF QuietSteps, CheckSource, ListDue, Decide, CheckDue, RequestPromotion,
     PromoteCheck, PromoteReview, PromoteReadSource, EvaluatePending, EvaluateList, Onboard,
     ReadPrevious, ReadBaseline, PruneReadBaseline, PruneList, ReadOnly, sourceVars
<1>5. ASSUME \/ Tick \/ UNCHANGED vars
             \/ \E t \in Thread, d \in Definitions : AddSource(t, d) \/ UpdateSource(t, d)
             \/ \E t \in Thread : \/ Abandon(t) \/ PruneWrite(t) \/ OnboardWrite(t)
                                  \/ \E c \in work[t].todo : \E e : EvaluatedAs(t, c, e)
      PROVE  FALSE
  BY <1>5 DEF Tick, vars, sourceVars, AddSource, UpdateSource, UpsertSource, Abandon, PruneWrite,
     OnboardWrite, EvaluatedAs
<1> QED BY <1>1, <1>2, <1>3, <1>4, <1>5, StepsOf

\* However many threads check and promote, an established baseline moves only
\* to the Healthy observation a reviewer asked for, from the baseline it saw,
\* or by a thread behind whose back it had moved (service.py:440-454, 592).
THEOREM PromotionIsGuarded == OSpec => GuardedPromotion
<1>1. TypeInv /\ (\A t \in Thread : BaselineSeen(t)) /\ [ONext]_allVars =>
        (baseline # 0 /\ baseline' # baseline =>
           /\ observations'[baseline'].usable
           /\ \E t \in Thread :
                /\ Moves(t)
                /\ \/ /\ pc[t] = "promoteWrite"
                      /\ baseline' = work[t].target
                      /\ observations[baseline'].health = "Healthy"
                      /\ work[t].expected = baseline \/ "baseline" \in missed[t]
                   \/ /\ pc[t] = "save"
                      /\ "baseline" \in missed[t])
  BY PromotionStep
<1> QED BY <1>1, BaselinesSeen, PTL DEF OSpec, GuardedPromotion

LEMMA PruningStep ==
  ASSUME TypeInv, \A t \in Thread : BaselineSeen(t), [ONext]_allVars, NEW i \in Raw, ~observations'[i].raw
  PROVE  \E t \in Thread :
           /\ Moves(t)
           /\ pc[t] = "pruneWrite"
           /\ i # baseline \/ "baseline" \in missed[t]
           /\ \/ Cardinality({j \in Raw : Newer(j, i)}) >= Retention
              \/ Cardinality({j \in Ids : Newer(j, i)}) >= PruneLimit
              \/ "rows" \in missed[t]
<1>1. [Next]_vars /\ i \in Ids /\ observations[i].raw
  BY DEF ONext, allVars, Raw
<1>2. PICK t \in Thread : PruneWrite(t)
  <2>1. ASSUME observations' = observations PROVE FALSE
    BY <1>1, <2>1
  <2>2. ASSUME NEW t \in Thread, NEW r \in Results, NEW o, SavedAs(t, r, o) PROVE FALSE
    BY <1>1, <2>2, HistoryGrows
  <2>3. ASSUME NEW t \in Thread, QuietSteps(t) PROVE observations' = observations
    BY <2>3 DEF QuietSteps, CheckSource, ListDue, Decide, CheckDue, RequestPromotion,
       PromoteCheck, PromoteReview, PromoteReadSource, EvaluatePending, EvaluateList, Onboard,
       ReadPrevious, ReadBaseline, PruneReadBaseline, PruneList, ReadOnly, sourceVars
  <2>4. ASSUME \/ Tick \/ UNCHANGED vars
               \/ \E t \in Thread, d \in Definitions : AddSource(t, d) \/ UpdateSource(t, d)
               \/ \E t \in Thread : \/ Abandon(t) \/ PromoteWrite(t) \/ OnboardWrite(t)
                                    \/ \E c \in work[t].todo : \E e : EvaluatedAs(t, c, e)
        PROVE  observations' = observations
    BY <2>4 DEF Tick, vars, sourceVars, AddSource, UpdateSource, UpsertSource, Abandon, PromoteWrite,
       OnboardWrite, EvaluatedAs
  <2> QED BY <1>1, <2>1, <2>2, <2>3, <2>4, StepsOf
<1>3. pc[t] = "pruneWrite" /\ Moves(t) /\ i \notin work[t].keep
  <2>1. pc[t] = "pruneWrite" /\ pc'[t] = "idle"
    BY <1>2 DEF PruneWrite, Finish, Goto, TypeInv
  <2> QED BY <1>1, <1>2, <2>1, HistoryPruned DEF Moves
<1>4. i # baseline \/ "baseline" \in missed[t]
  BY <1>1, <1>3 DEF BaselineSeen, Raw
<1>5. ASSUME "rows" \notin missed[t]
      PROVE  \/ Cardinality({j \in Raw : Newer(j, i)}) >= Retention
             \/ Cardinality({j \in Ids : Newer(j, i)}) >= PruneLimit
  <2>1. i \notin KeptSnapshots
    BY <1>3, <1>5 DEF BaselineSeen
  <2>2. PICK listed : listed = NewestOf(Ids, PruneLimit) \cap Raw
    OBVIOUS
  <2>3. PICK newer, kept : newer = {j \in Raw : Newer(j, i)} /\ kept = {j \in listed : Newer(j, i)}
    OBVIOUS
  <2>4. PICK older : older = {j \in Ids : Newer(j, i)}
    OBVIOUS
  <2>5. /\ newer \in SUBSET Ids /\ kept \in SUBSET newer /\ kept \in SUBSET Ids
        /\ older \in SUBSET Ids
    BY <2>2, <2>3, <2>4 DEF Raw
  <2>6. /\ Cardinality(newer) \in Nat /\ Cardinality(kept) \in Nat /\ Cardinality(older) \in Nat
        /\ Cardinality(kept) <= Cardinality(newer)
    BY <2>5, IdsFinite, FS_Subset
  <2>7. CASE i \in listed
    <3>1. ~(Cardinality(kept) < Retention)
      BY <2>1, <2>2, <2>3, <2>7 DEF KeptSnapshots, NewestOf
    <3> QED BY <2>3, <2>6, <3>1
  <2>8. CASE i \notin listed
    <3>1. ~(Cardinality(older) < PruneLimit)
      BY <1>1, <2>2, <2>4, <2>8 DEF NewestOf
    <3> QED BY <2>4, <2>6, <3>1
  <2> QED BY <2>7, <2>8
<1> QED BY <1>3, <1>4, <1>5

\* However many threads check, promote and prune, and however long the history
\* is, pruning spares the baseline and the newest snapshots but for those that
\* came after it had read them (service.py:420-438).
THEOREM WindowSurvives == OSpec => PruneKeepsWindow
<1>1. TypeInv /\ (\A t \in Thread : BaselineSeen(t)) /\ [ONext]_allVars =>
        \A i \in Raw : ~observations'[i].raw =>
          \E t \in Thread :
            /\ Moves(t)
            /\ pc[t] = "pruneWrite"
            /\ i # baseline \/ "baseline" \in missed[t]
            /\ \/ Cardinality({j \in Raw : Newer(j, i)}) >= Retention
               \/ Cardinality({j \in Ids : Newer(j, i)}) >= PruneLimit
               \/ "rows" \in missed[t]
  BY PruningStep
<1> QED BY <1>1, BaselinesSeen, PTL DEF OSpec, PruneKeepsWindow

-----------------------------------------------------------------------------
(* Checks and the history, for threads that overlap.                       *)

\* What a check has read of the history is still so, unless it missed a change
\* of it.
HistorySeen(t) ==
  "history" \notin missed[t] =>
    /\ pc[t] = "check" => \A j \in Ids : now >= observations[j].at + Interval
    /\ pc[t] \in {"previous", "baseline", "save"} =>
         \A j \in Ids : /\ observations[j].at <= work[t].at
                        /\ work[t].due => work[t].at >= observations[j].at + Interval
    /\ pc[t] \in {"baseline", "save"} => IsNewest(work[t].previous)

\* Nothing was saved with a time to come, and a thread at rest missed nothing.
TimesInv ==
  /\ \A i \in Ids : observations[i].at <= now
  /\ \A t \in Thread : pc[t] \in {"previous", "baseline", "save"} => work[t].at <= now
  /\ \A t \in Thread : pc[t] = "idle" => missed[t] = {}

SeenInv == TimesInv /\ \A t \in Thread : HistorySeen(t)

\* An observation that is new was saved.
LEMMA NewIsSaved ==
  ASSUME TypeInv, [Next]_vars, NEW i \in Ids' \ Ids
  PROVE  \E t \in Thread, r \in Results : \E o : SavedAs(t, r, o)
<1>1. ASSUME observations' = observations PROVE FALSE
  BY <1>1 DEF Ids
<1>2. ASSUME NEW t \in Thread, PruneWrite(t) PROVE FALSE
  BY <1>2, HistoryPruned
<1>3. ASSUME NEW t \in Thread, QuietSteps(t) PROVE observations' = observations
  BY <1>3 DEF QuietSteps, CheckSource, ListDue, Decide, CheckDue, RequestPromotion,
     PromoteCheck, PromoteReview, PromoteReadSource, EvaluatePending, EvaluateList, Onboard,
     ReadPrevious, ReadBaseline, PruneReadBaseline, PruneList, ReadOnly, sourceVars
<1>4. ASSUME \/ Tick \/ UNCHANGED vars
             \/ \E t \in Thread, d \in Definitions : AddSource(t, d) \/ UpdateSource(t, d)
             \/ \E t \in Thread : \/ Abandon(t) \/ PromoteWrite(t) \/ OnboardWrite(t)
                                  \/ \E c \in work[t].todo : \E e : EvaluatedAs(t, c, e)
      PROVE  observations' = observations
  BY <1>4 DEF Tick, vars, sourceVars, AddSource, UpdateSource, UpsertSource, Abandon, PromoteWrite,
     OnboardWrite, EvaluatedAs
<1> QED BY <1>1, <1>2, <1>3, <1>4, StepsOf

LEMMA TimesStep ==
  ASSUME TypeInv, SeenInv, [Next]_vars, Overtake PROVE TimesInv'
<1>1. HistoryStays
  BY StepHistory
<1>2. ASSUME NEW t \in Thread, pc'[t] \in {"previous", "baseline", "save"} PROVE work'[t].at <= now'
  <2>1. CASE Moves(t)
    <3>1. Arrived(t) /\ work[t].at \in Nat
      BY <1>2, <2>1, Arrives DEF Relying, TypeInv, Work
    <3> QED BY <1>1, <1>2, <3>1 DEF Arrived, HistoryStays, SeenInv, TimesInv
  <2>2. CASE ~Moves(t)
    <3>1. pc'[t] = pc[t] /\ work'[t] = work[t] /\ work[t].at \in Nat
      BY <2>2 DEF Moves, TypeInv, Work
    <3> QED BY <1>1, <1>2, <3>1 DEF HistoryStays, SeenInv, TimesInv
  <2> QED BY <2>1, <2>2
<1>3. ASSUME NEW i \in Ids' PROVE observations'[i].at <= now'
  <2>1. CASE i \in Ids
    BY <1>1, <2>1 DEF HistoryStays, SeenInv, TimesInv
  <2>2. CASE i \notin Ids
    <3>1. PICK t \in Thread, r \in Results : \E o : SavedAs(t, r, o)
      BY <1>3, <2>2, NewIsSaved
    <3>2. PICK o : SavedAs(t, r, o)
      BY <3>1
    <3>3. pc[t] = "save" /\ now' = now
      BY <3>2 DEF SavedAs
    <3>4. i = Len(observations) + 1
      BY <1>3, <2>2, <3>2, HistoryGrows
    <3>5. observations'[i].at = work[t].at
      BY <3>2, <3>4, HistoryGrows
    <3> QED BY <3>3, <3>5 DEF SeenInv, TimesInv
  <2> QED BY <2>1, <2>2
<1>4. \A t \in Thread : pc'[t] = "idle" => missed'[t] = {}
  BY DEF Overtake
<1> QED BY <1>2, <1>3, <1>4 DEF TimesInv

LEMMA HistorySeenStep ==
  ASSUME TypeInv, SeenInv, [Next]_vars, Overtake, NEW t \in Thread PROVE HistorySeen(t)'
<1>1. HistoryStays
  BY StepHistory
<1> SUFFICES ASSUME "history" \notin missed'[t], pc'[t] \in {"check", "previous", "baseline", "save"}
             PROVE  HistorySeen(t)'
  BY DEF HistorySeen
<1>2. pc'[t] \in Relying /\ pc'[t] # "idle"
  BY DEF Relying
<1>3. CASE Moves(t)
  <2>1. Arrived(t)
    BY <1>2, <1>3, Arrives
  <2>2. /\ Ids' = Ids /\ observations' = observations /\ now' = now /\ Ids \subseteq Nat
        /\ \A j \in Ids : observations[j].at \in Nat /\ observations[j].at <= now
        /\ now \in Nat
    BY <1>1, <2>1 DEF Arrived, Ids, HistoryStays, SeenInv, TimesInv
  <2>3. \A x : IsNewest(x)' <=> IsNewest(x)
    BY <2>2 DEF IsNewest, Newer
  <2>4. CASE pc'[t] = "check"
    <3>1. IntervalElapsed /\ Latest \in Ids \cup {0} /\ (Latest = 0 <=> Ids = {})
      BY <2>1, <2>4, LatestIsNewest DEF Arrived
    <3>2. ASSUME NEW j \in Ids PROVE now >= observations[j].at + Interval
      <4>1. Latest \in Ids /\ now >= observations[Latest].at + Interval
        BY <3>1 DEF IntervalElapsed
      <4>2. j = Latest \/ Newer(Latest, j)
        BY LatestIsNewest
      <4>3. observations[j].at <= observations[Latest].at
        BY <2>2, <4>1, <4>2 DEF Newer
      <4> QED BY <2>2, <4>1, <4>3
    <3> QED BY <2>2, <2>4, <3>2 DEF HistorySeen
  <2>5. CASE pc'[t] = "previous"
    <3>1. work'[t].at = now /\ (work'[t].due => pc[t] = "check")
      BY <2>1, <2>5 DEF Arrived
    <3>2. pc[t] = "check" => "history" \notin missed[t]
      BY <1>2, <1>3, <2>5, NotMissed DEF Readable, JustRead
    <3>3. work'[t].due => \A j \in Ids : now >= observations[j].at + Interval
      BY <3>1, <3>2 DEF SeenInv, HistorySeen
    <3> QED BY <2>2, <2>5, <3>1, <3>3 DEF HistorySeen
  <2>6. CASE pc'[t] \in {"baseline", "save"}
    <3>1. /\ pc[t] \in {"previous", "baseline"} /\ work'[t].at = work[t].at /\ work'[t].due = work[t].due
          /\ IsNewest(work'[t].previous) \/ (pc[t] = "baseline" /\ work'[t].previous = work[t].previous)
      BY <2>1, <2>6 DEF Arrived
    <3>2. "history" \notin missed[t]
      BY <1>2, <1>3, <2>6, NotMissed DEF Readable, JustRead
    <3> QED BY <2>2, <2>3, <2>6, <3>1, <3>2 DEF SeenInv, HistorySeen
  <2> QED BY <2>4, <2>5, <2>6
<1>4. CASE ~Moves(t)
  <2>1. /\ pc'[t] = pc[t] /\ work'[t] = work[t] /\ "history" \notin missed[t]
        /\ Len(observations') = Len(observations)
    BY <1>2, <1>4, NotMissed DEF Readable, Changed
  <2>2. Ids' = Ids
    BY <1>1, <2>1 DEF HistoryStays
  <2>3. \A j \in Ids : now >= observations[j].at + Interval => now' >= observations'[j].at + Interval
    BY <1>1 DEF HistoryStays
  <2>4. \A x : IsNewest(x) => IsNewest(x)'
    BY <1>1, <2>2 DEF IsNewest, Newer, HistoryStays
  <2> QED BY <1>1, <2>1, <2>2, <2>3, <2>4 DEF SeenInv, HistorySeen, HistoryStays
<1> QED BY <1>3, <1>4

\* i comes next after b in time; b is 0 when nothing is before i.
Precedes(b, i) ==
  \/ b = 0 /\ \A j \in Ids : ~Newer(i, j)
  \/ b \in Ids /\ Newer(i, b) /\ \A j \in Ids : ~(Newer(i, j) /\ Newer(j, b))

LEMMA BeforePrecedes ==
  ASSUME TypeInv, NEW i \in Ids PROVE Precedes(Before(i), i)
<1>1. PICK older : older = {j \in Ids : Newer(i, j)}
  OBVIOUS
<1>2. Before(i) = IF older = {} THEN 0 ELSE CHOOSE j \in older : \A k \in older \ {j} : Newer(j, k)
  BY <1>1 DEF Before
<1>3. CASE older = {}
  BY <1>1, <1>2, <1>3 DEF Precedes
<1>4. CASE older # {}
  <2>1. older \in SUBSET Ids
    BY <1>1
  <2>2. \E j \in older : \A k \in older \ {j} : Newer(j, k)
    BY <1>4, <2>1, NewestExists
  <2>3. Before(i) \in older /\ \A k \in older \ {Before(i)} : Newer(Before(i), k)
    BY <1>2, <1>4, <2>2
  <2>4. \A j \in Ids : ~(Newer(i, j) /\ Newer(j, Before(i)))
    BY <1>1, <2>1, <2>3, NewerOrders
  <2> QED BY <1>1, <2>3, <2>4 DEF Precedes
<1> QED BY <1>3, <1>4

\* What observation i raises after b, and a candidate that says so.
RaisedAfter(b, i) == IncidentTransition(HealthOf(b), observations[i].health)
SaysSo(c, b) == c.transition = RaisedAfter(b, c.observation) /\ c.previous_health = HealthOf(b)

\* What is promised of observation i, when b came before it.
Told(b, i) ==
  /\ \A c \in candidates : c.observation = i => SaysSo(c, b)
  /\ \A t \in Thread : \A c \in work[t].todo : c.observation = i => SaysSo(c, b)
  /\ RaisedAfter(b, i) # Null => \E c \in candidates : c.observation = i
  /\ i \in scheduled /\ b # 0 => observations[i].at >= observations[b].at + Interval

ToldInv == \A i \in Ids \ raced : \A b \in Ids \cup {0} : Precedes(b, i) /\ b < i => Told(b, i)

\* The order among the observations there were is not touched.
LEMMA OrderStays ==
  ASSUME TypeInv, HistoryStays
  PROVE  /\ \A i, j \in Ids : Newer(i, j)' <=> Newer(i, j)
         /\ \A i \in Ids, b \in Ids \cup {0} :
              /\ HealthOf(b)' = HealthOf(b) /\ RaisedAfter(b, i)' = RaisedAfter(b, i)
              /\ Precedes(b, i)' => Precedes(b, i)
<1>1. \A i, j \in Ids : Newer(i, j)' <=> Newer(i, j)
  BY DEF Newer, HistoryStays
<1>2. \A b \in Ids \cup {0} : HealthOf(b)' = HealthOf(b)
  BY DEF HealthOf, HistoryStays
<1>3. \A i \in Ids, b \in Ids \cup {0} : RaisedAfter(b, i)' = RaisedAfter(b, i)
  BY <1>2 DEF RaisedAfter, HistoryStays
<1>4. ASSUME NEW i \in Ids, NEW b \in Ids \cup {0}, Precedes(b, i)' PROVE Precedes(b, i)
  <2>1. Ids \subseteq Ids' /\ 0 \notin Ids /\ 0 \notin Ids'
    BY DEF HistoryStays
  <2> QED BY <1>1, <1>4, <2>1 DEF Precedes
<1> QED BY <1>1, <1>2, <1>3, <1>4

\* A step that saves nothing.
LEMMA ToldFrame ==
  ASSUME TypeInv, ToldInv, HistoryStays, Ids' = Ids, raced \subseteq raced', scheduled' = scheduled,
         \A c \in candidates' : \/ c \in candidates
                                \/ \E t \in Thread : \E d \in work[t].todo :
                                     /\ c.observation = d.observation /\ c.transition = d.transition
                                     /\ c.previous_health = d.previous_health,
         \A c \in candidates : \E d \in candidates' : d.observation = c.observation,
         \A t \in Thread : work'[t].todo \subseteq work[t].todo \cup candidates
  PROVE  ToldInv'
<1> SUFFICES ASSUME NEW i \in Ids \ raced, NEW b \in Ids \cup {0}, Precedes(b, i), b < i
             PROVE  Told(b, i)'
  BY OrderStays DEF ToldInv
<1>1. Told(b, i)
  BY DEF ToldInv
<1>2. /\ RaisedAfter(b, i)' = RaisedAfter(b, i) /\ HealthOf(b)' = HealthOf(b)
      /\ observations'[i].at = observations[i].at
      /\ b # 0 => observations'[b].at = observations[b].at
  BY OrderStays DEF HistoryStays
<1>3. \A c : c.observation = i /\ SaysSo(c, b) => SaysSo(c, b)'
  BY <1>2 DEF SaysSo
<1>4. \A c \in candidates' : c.observation = i => SaysSo(c, b)
  BY <1>1 DEF Told, SaysSo
<1>5. \A t \in Thread : \A c \in work'[t].todo : c.observation = i => SaysSo(c, b)
  BY <1>1 DEF Told
<1>6. RaisedAfter(b, i) # Null => \E c \in candidates' : c.observation = i
  BY <1>1 DEF Told
<1> QED BY <1>1, <1>2, <1>3, <1>4, <1>5, <1>6 DEF Told

LEMMA ToldSave ==
  ASSUME TypeInv, SeenInv, ToldInv, [Next]_vars, Overtake,
         NEW t \in Thread, NEW r \in Results, NEW o, SavedAs(t, r, o)
  PROVE  ToldInv'
<1>0. PICK id : id = Len(observations) + 1
  OBVIOUS
<1>1. HistoryStays
  BY StepHistory
<1>2. /\ Ids' = Ids \cup {id} /\ id \notin Ids /\ observations'[id].at = work[t].at
      /\ observations'[id].health = r.health /\ Ids = 1..Len(observations) /\ Len(observations) \in Nat
      /\ work[t].at \in Nat
  BY <1>0, HistoryGrows, IdsAre DEF TypeInv, Work
<1>3. /\ pc[t] = "save" /\ pc'[t] # "save"
      /\ scheduled' = IF work[t].due THEN scheduled \cup {id} ELSE scheduled
      /\ \A s \in Thread : work'[s].todo \subseteq work[s].todo
  BY <1>0, NoWorkTyped DEF SavedAs, Finish, Goto, TypeInv, NoWork
<1>4. /\ candidates \subseteq candidates'
      /\ \A c \in candidates' \ candidates :
           /\ c.observation = id /\ c.previous_health = HealthOf(work[t].previous)
           /\ c.transition = IncidentTransition(HealthOf(work[t].previous), r.health)
      /\ IncidentTransition(HealthOf(work[t].previous), r.health) # Null =>
           \E c \in candidates' : c.observation = id
  BY <1>0, CandidatesRaised
<1>5. ASSUME NEW i \in Ids \ raced', NEW b \in Ids' \cup {0}, Precedes(b, i)', b < i
      PROVE  Told(b, i)'
  <2>1. i \notin raced /\ b # id /\ b \in Ids \cup {0} /\ i # id
    BY <1>0, <1>2, <1>5 DEF Overtake
  <2>2. Precedes(b, i)
    BY <1>1, <1>5, <2>1, OrderStays
  <2>3. Told(b, i)
    BY <1>5, <2>1, <2>2 DEF ToldInv
  <2>4. /\ RaisedAfter(b, i)' = RaisedAfter(b, i) /\ HealthOf(b)' = HealthOf(b)
        /\ observations'[i].at = observations[i].at
        /\ b # 0 => observations'[b].at = observations[b].at
    BY <1>1, <1>5, <2>1, OrderStays DEF HistoryStays
  <2>5. \A c : c.observation = i /\ SaysSo(c, b) => SaysSo(c, b)'
    BY <2>4 DEF SaysSo
  <2>6. \A c \in candidates' : c.observation = i => SaysSo(c, b)
    BY <1>4, <2>1, <2>3 DEF Told
  <2>7. \A s \in Thread : \A c \in work'[s].todo : c.observation = i => SaysSo(c, b)
    BY <1>3, <2>3 DEF Told
  <2>8. RaisedAfter(b, i) # Null => \E c \in candidates' : c.observation = i
    BY <1>4, <2>3 DEF Told
  <2>9. i \in scheduled' => i \in scheduled
    BY <1>3, <2>1
  <2> QED BY <2>3, <2>4, <2>5, <2>6, <2>7, <2>8, <2>9 DEF Told
<1>6. ASSUME id \notin raced', NEW b \in Ids' \cup {0}, Precedes(b, id)', b < id PROVE Told(b, id)'
  <2>1. "history" \notin missed[t]
    BY <1>2, <1>3, <1>6 DEF Overtake, Moves, Ids
  <2>2. /\ \A j \in Ids : /\ observations[j].at <= work[t].at
                          /\ work[t].due => work[t].at >= observations[j].at + Interval
        /\ IsNewest(work[t].previous)
    BY <1>3, <2>1 DEF SeenInv, HistorySeen
  <2>3. ASSUME NEW j \in Ids PROVE Newer(id, j)'
    <3>1. /\ observations'[j].at <= observations'[id].at /\ id > j
          /\ observations'[j].at \in Nat /\ observations'[id].at \in Nat
      <4>1. j \in Nat /\ id > j
        BY <1>0, <1>2
      <4>2. observations'[j].at = observations[j].at /\ observations[j].at \in Nat
        BY <1>1 DEF HistoryStays
      <4>3. observations[j].at <= work[t].at
        BY <2>2
      <4> QED BY <1>2, <4>1, <4>2, <4>3
    <3> QED BY <3>1 DEF Newer
  <2>4. b \in Ids \cup {0} /\ b = work[t].previous
    <3>0. PICK p : p = work[t].previous
      OBVIOUS
    <3>1. b \in Ids \cup {0} /\ 0 \notin Ids
      BY <1>2, <1>6
    <3>2. CASE Ids = {}
      BY <2>2, <3>1, <3>2 DEF IsNewest
    <3>3. CASE Ids # {}
      <4>1. p \in Ids /\ \A j \in Ids \ {p} : Newer(p, j)
        BY <2>2, <3>0, <3>3 DEF IsNewest
      <4>2. b \in Ids
        BY <1>2, <1>6, <2>3, <3>1, <3>3, <4>1 DEF Precedes
      <4>3. ~Newer(p, b)'
        BY <1>2, <1>6, <2>3, <3>1, <4>1, <4>2 DEF Precedes
      <4> QED BY <1>1, <3>0, <4>1, <4>2, <4>3, OrderStays
    <3> QED BY <3>2, <3>3
  <2>5. HealthOf(b)' = HealthOf(b) /\ RaisedAfter(b, id)' = IncidentTransition(HealthOf(b), r.health)
    BY <1>1, <1>2, <2>4 DEF HealthOf, RaisedAfter, HistoryStays
  <2>6. \A c \in candidates' : c.observation = id => SaysSo(c, b)'
    <3>1. \A c \in candidates : c.observation # id
      BY <1>2 DEF TypeInv, TypedSource
    <3> QED BY <1>4, <2>4, <2>5, <3>1 DEF SaysSo
  <2>7. \A s \in Thread : \A c \in work'[s].todo : c.observation # id
    <3>1. \A s \in Thread : \A c \in work[s].todo : c.observation \in Ids
      BY DEF TypeInv, TypedThread
    <3> QED BY <1>2, <1>3, <3>1
  <2>8. RaisedAfter(b, id)' # Null => \E c \in candidates' : c.observation = id
    BY <1>4, <2>4, <2>5
  <2>9. id \in scheduled' /\ b # 0 => observations'[id].at >= observations'[b].at + Interval
    <3>1. id \in scheduled' => work[t].due
      BY <1>2, <1>3 DEF TypeInv, TypedSource
    <3> QED BY <1>1, <1>2, <2>2, <2>4, <3>1 DEF HistoryStays
  <2> QED BY <2>6, <2>7, <2>8, <2>9 DEF Told
<1> QED BY <1>2, <1>5, <1>6 DEF ToldInv

LEMMA ToldStep ==
  ASSUME TypeInv, SeenInv, ToldInv, [Next]_vars, Overtake PROVE ToldInv'
<1>1. HistoryStays /\ raced \subseteq raced'
  BY StepHistory DEF Overtake
<1>2. ASSUME NEW t \in Thread, NEW r \in Results, NEW o, SavedAs(t, r, o) PROVE ToldInv'
  BY <1>2, ToldSave
<1>3. ASSUME NEW t \in Thread, NEW c \in work[t].todo, NEW e, EvaluatedAs(t, c, e) PROVE ToldInv'
  <2>1. /\ observations' = observations /\ scheduled' = scheduled
        /\ candidates' = {d \in candidates : d.observation # c.observation} \cup {e}
        /\ e.observation = c.observation /\ e.transition = c.transition
        /\ e.previous_health = c.previous_health
    BY <1>3, CandidateEvaluated DEF EvaluatedAs
  <2>2. \A s \in Thread : work'[s].todo \subseteq work[s].todo
    BY <1>3, NoWorkTyped DEF EvaluatedAs, Goto, Finish, Work, TypeInv, NoWork
  <2>3. Ids' = Ids
    BY <2>1 DEF Ids
  <2>4. \A d \in candidates : \E f \in candidates' : f.observation = d.observation
    BY <2>1
  <2> QED BY <1>1, <2>1, <2>2, <2>3, <2>4, ToldFrame
<1>4. CASE Tick \/ UNCHANGED vars \/ \E t \in Thread, d \in Definitions : AddSource(t, d) \/ UpdateSource(t, d)
  <2>1. UNCHANGED <<observations, candidates, work, scheduled>> /\ Ids' = Ids
    BY <1>4 DEF Tick, vars, sourceVars, AddSource, UpdateSource, UpsertSource, Ids
  <2> QED BY <1>1, <2>1, ToldFrame
<1>5. ASSUME NEW t \in Thread,
             QuietSteps(t) \/ Abandon(t) \/ PruneWrite(t) \/ PromoteWrite(t) \/ OnboardWrite(t)
      PROVE  ToldInv'
  <2>1. /\ candidates' = candidates /\ Ids' = Ids
        /\ \A s \in Thread : work'[s].todo \subseteq work[s].todo \cup candidates
    BY <1>5, TodoGrows
  <2>2. scheduled' = scheduled
    BY <1>5 DEF QuietSteps, CheckSource, ListDue, Decide, CheckDue, RequestPromotion,
       PromoteCheck, PromoteReview, PromoteReadSource, EvaluatePending, EvaluateList, Onboard,
       ReadPrevious, ReadBaseline, PruneReadBaseline, PruneList, ReadOnly, Abandon, PruneWrite,
       PromoteWrite, OnboardWrite, UpsertSource
  <2> QED BY <1>1, <2>1, <2>2, ToldFrame
<1> QED BY <1>2, <1>3, <1>4, <1>5, StepsOf

LEMMA ToldInit == OInit => SeenInv /\ ToldInv
<1> SUFFICES ASSUME OInit PROVE SeenInv /\ ToldInv
  OBVIOUS
<1>1. Init /\ TypeInv /\ OrderInv /\ CandidatesInv
  BY TypeInvInit, OrderInit, CandidatesInit DEF OInit
<1>2. SeenInv
  BY <1>1 DEF OInit, Init, SeenInv, TimesInv, HistorySeen, OrderInv
<1>3. ASSUME NEW i \in Ids, NEW b \in Ids \cup {0}, Precedes(b, i) PROVE Told(b, i)
  <2>1. b = i - 1
    <3>1. Ids = {} \/ Ids = {1}
      BY <1>1 DEF Init, Ids
    <3>2. i = 1 /\ ~Newer(1, 1)
      BY <1>1, <3>1, NewerOrders
    <3> QED BY <1>3, <3>1, <3>2 DEF Precedes
  <2>2. scheduled = {}
    BY <1>1 DEF Init
  <2> QED BY <1>1, <2>1, <2>2 DEF Told, SaysSo, RaisedAfter, CandidatesInv, Matches, Raises
<1> QED BY <1>2, <1>3 DEF ToldInv

LEMMA HistoriesTold == OSpec => [](TypeInv /\ SeenInv /\ ToldInv)
<1>1. TypeInv /\ SeenInv /\ ToldInv /\ [ONext]_allVars => (SeenInv /\ ToldInv)'
  <2> SUFFICES ASSUME TypeInv, SeenInv, ToldInv, [ONext]_allVars PROVE (SeenInv /\ ToldInv)'
    OBVIOUS
  <2>1. CASE ONext
    <3>1. Overtake /\ [Next]_vars
      BY <2>1 DEF ONext
    <3> QED BY <3>1, TimesStep, HistorySeenStep, ToldStep DEF SeenInv
  <2>2. CASE UNCHANGED allVars
    BY <2>2 DEF allVars, vars, sourceVars, overlapVars, SeenInv, TimesInv, HistorySeen, IsNewest, ToldInv, Told,
       SaysSo, RaisedAfter, HealthOf, Precedes, Newer, Ids
  <2> QED BY <2>1, <2>2
<1> QED BY <1>1, OTyped, ToldInit, PTL DEF OSpec

\* However many threads check, a check that ran because it was due and was not
\* overtaken comes at least the interval after the observation before it
\* (scheduler.py:9-42, service.py:471-477).
THEOREM DueChecksAreSpaced == OSpec => []DueChecksSpaced
<1>1. TypeInv /\ ToldInv => DueChecksSpaced
  <2> SUFFICES ASSUME TypeInv, ToldInv, NEW i \in scheduled \ raced, Before(i) < i, Before(i) # 0
               PROVE  observations[i].at >= observations[Before(i)].at + Interval
    BY DEF DueChecksSpaced
  <2>1. i \in Ids /\ Precedes(Before(i), i)
    BY BeforePrecedes DEF TypeInv, TypedSource
  <2>2. Told(Before(i), i)
    BY <2>1 DEF ToldInv, Precedes
  <2> QED BY <2>2 DEF Told
<1> QED BY <1>1, HistoriesTold, PTL

\* The candidates of an observation, when they are what it raises.
LEMMA CandidatesTell ==
  ASSUME TypeInv, NEW i \in Ids, NEW b, Told(b, i)
  PROVE  {<<c.transition, c.previous_health>> : c \in {d \in candidates : d.observation = i}} =
         {<<c.transition, c.previous_health>> :
            c \in NotificationCandidate(HealthOf(b), i, observations[i].health)}
<1>2. PICK tr, ph : tr = RaisedAfter(b, i) /\ ph = HealthOf(b)
  OBVIOUS
<1>3. \A c \in NotificationCandidate(ph, i, observations[i].health) :
        c.transition = tr /\ c.previous_health = ph /\ tr # Null
  BY <1>2 DEF NotificationCandidate, RaisedAfter
<1>4. tr # Null => NotificationCandidate(ph, i, observations[i].health) # {}
  BY <1>2 DEF NotificationCandidate, RaisedAfter
<1>5. \A c \in candidates : c.observation = i =>
        c.transition = tr /\ c.previous_health = ph /\ tr # Null
  BY <1>2, NullIsNone DEF Told, SaysSo, TypeInv, TypedSource, CandidateRow
<1>6. tr # Null => \E c \in candidates : c.observation = i
  BY <1>2 DEF Told
<1>7. PICK raised : raised = {d \in candidates : d.observation = i}
  OBVIOUS
<1>8. PICK due : due = NotificationCandidate(ph, i, observations[i].health)
  OBVIOUS
<1>9. {<<c.transition, c.previous_health>> : c \in raised} = {<<c.transition, c.previous_health>> : c \in due}
  <2>1. CASE tr = Null
    <3>1. raised = {} /\ due = {}
      BY <1>3, <1>5, <1>7, <1>8, <2>1
    <3> QED BY <3>1
  <2>2. CASE tr # Null
    <3>1. /\ \A c \in raised : c.transition = tr /\ c.previous_health = ph
          /\ \A c \in due : c.transition = tr /\ c.previous_health = ph
      BY <1>3, <1>5, <1>7, <1>8
    <3>2. PICK c \in raised : TRUE
      BY <1>6, <1>7, <2>2
    <3>3. PICK d \in due : TRUE
      BY <1>4, <1>8, <2>2
    <3> QED BY <3>1, <3>2, <3>3
  <2> QED BY <2>1, <2>2
<1> QED BY <1>2, <1>7, <1>8, <1>9

\* However many threads check, the candidates of a check that was not overtaken
\* are those the whole history gives (service.py:503-605, scorecards.py:77-104).
THEOREM CandidatesTellHistory == OSpec => []CandidatesMatchHistory
<1>1. TypeInv /\ ToldInv => CandidatesMatchHistory
  <2> SUFFICES ASSUME TypeInv, ToldInv, NEW i \in Ids \ raced, Before(i) < i
               PROVE  {<<c.transition, c.previous_health>> : c \in {d \in candidates : d.observation = i}} =
                      {<<c.transition, c.previous_health>> :
                         c \in NotificationCandidate(HealthOf(Before(i)), i, observations[i].health)}
    BY DEF CandidatesMatchHistory
  <2>1. Precedes(Before(i), i)
    BY BeforePrecedes
  <2>2. Told(Before(i), i)
    BY <2>1 DEF ToldInv, Precedes
  <2> QED BY <2>2, CandidatesTell
<1> QED BY <1>1, HistoriesTold, PTL
=============================================================================

----------------------------- MODULE Scorecards -----------------------------
(***************************************************************************)
(* The reliability scorecard of the source of Monitoring: incidents and    *)
(* recovery times derived again from as much of the history as it takes,   *)
(* read in pages that double.  Percentages and finding kinds are left out. *)
(***************************************************************************)
EXTENDS Monitoring

CONSTANTS
  Windows,         \* lengths of the windows reported: 7 and 30 days
  MinimumHistory,  \* observations the first page lists
  MaximumHistory   \* observations listed at most

ASSUME ScorecardAssumption ==
  /\ Windows \subseteq Nat \ {0} /\ Windows # {} /\ IsFiniteSet(Windows)
  /\ MinimumHistory \in Nat \ {0} /\ MaximumHistory \in Nat
  /\ MinimumHistory <= MaximumHistory

Longest == CHOOSE d \in Windows : \A e \in Windows : e <= d

UpTo(ids, as_of) == {i \in ids : observations[i].at <= as_of}

Within(ids, as_of, days) == {i \in UpTo(ids, as_of) : observations[i].at + days >= as_of}

OldestOf(ids) == CHOOSE i \in ids : \A j \in ids \ {i} : Newer(j, i)

\* The sizes of the pages tried, in the order of their size.
Limits ==
  {n \in MinimumHistory..MaximumHistory :
     n = MaximumHistory \/ \E k \in 0..MaximumHistory : n = MinimumHistory * 2^k}

\* Mutant: reaching back beyond the longest window is enough.
SufficientInTime(ids, n, as_of) ==
  \/ Cardinality(ids) < n
  \/ /\ UpTo(ids, as_of) # {}
     /\ observations[OldestOf(ids)].at + Longest < as_of

\* A page that reaches back to the beginning, or to a Healthy observation
\* before the longest window, shows every incident in the windows whole.
Sufficient(ids, n, as_of) ==
  \/ Cardinality(ids) < n
  \/ /\ UpTo(ids, as_of) # {}
     /\ LET oldest == observations[OldestOf(ids)]
        IN  oldest.at + Longest < as_of /\ oldest.health = "Healthy"

\* The first page that is sufficient, or the largest.
History(as_of) ==
  LET enough == {n \in Limits : Sufficient(NewestOf(Ids, n), n, as_of)}
      first  == CHOOSE n \in enough : \A m \in enough : n <= m
  IN  IF enough = {}
      THEN [ids |-> NewestOf(Ids, MaximumHistory), complete |-> FALSE]
      ELSE [ids |-> NewestOf(Ids, first), complete |-> TRUE]

\* What happened at observation i, as far as the observations ids tell.
TransitionAt(ids, i, complete) ==
  LET older == {j \in ids : Newer(i, j)}
  IN  CASE older # {} ->
             LET previous == CHOOSE j \in older : \A k \in older \ {j} : Newer(j, k)
             IN  IncidentTransition(observations[previous].health, observations[i].health)
        [] older = {} /\ complete -> IncidentTransition(Null, observations[i].health)
        [] OTHER -> Null

\* Minutes since the incident that ends at i was opened, Null if that was not seen.
RecoveryMinutes(ids, i, complete) ==
  LET opened == {j \in ids : Newer(i, j) /\ TransitionAt(ids, j, complete) = "Opened"}
      unended == {j \in opened : \A k \in ids :
                    Newer(i, k) /\ Newer(k, j) => TransitionAt(ids, k, complete) # "Recovered"}
  IN  IF unended = {} THEN Null
      ELSE observations[i].at -
             observations[CHOOSE j \in unended : \A k \in unended \ {j} : Newer(j, k)].at

IncidentEvents(ids, complete) ==
  {[observation |-> i, transition |-> TransitionAt(ids, i, complete),
    minutes |-> IF TransitionAt(ids, i, complete) = "Recovered"
                THEN RecoveryMinutes(ids, i, complete) ELSE Null] :
     i \in {j \in ids : TransitionAt(ids, j, complete) # Null}}

Window(ids, events, as_of, days) ==
  [checks |-> Within(ids, as_of, days),
   events |-> {e \in events : e.observation \in Within(ids, as_of, days)}]

Scorecard(as_of) ==
  LET history == History(as_of)
      ids     == UpTo(history.ids, as_of)
      events  == IncidentEvents(ids, history.complete)
  IN  [current_health   |-> HealthOf(IF ids = {} THEN 0
                                     ELSE CHOOSE i \in ids : \A j \in ids \ {i} : Newer(i, j)),
       history_complete |-> history.complete,
       windows          |-> [d \in Windows |-> Window(ids, events, as_of, d)]]

-----------------------------------------------------------------------------
(* Properties.  Observations made at the very same time are put in the     *)
(* order of their random ids, so there are none.                           *)

TimesDiffer == \A i, j \in Ids : observations[i].at = observations[j].at => i = j

\* The candidates of the observations ids, and how long ago the incident that
\* ends with a recovery was opened.
Announced(ids) ==
  {[observation |-> c.observation, transition |-> c.transition,
    minutes |->
      IF c.transition # "Recovered" THEN Null
      ELSE LET opened == {b \in candidates : /\ b.transition = "Opened"
                                             /\ Newer(c.observation, b.observation)}
               last   == CHOOSE b \in opened : \A a \in opened \ {b} :
                            Newer(b.observation, a.observation)
           IN  observations[c.observation].at - observations[last.observation].at] :
     c \in {x \in candidates : x.observation \in ids}}

\* A scorecard that calls its history complete counts, for its windows, every
\* check, the incidents that were announced when they happened and no others,
\* with the time from the announcement of each to its recovery, although it
\* read only the end of the history; one that does not invents no incident
\* (scorecard_service.py:59-94, scorecards.py:77-103).
ScorecardTellsIncidents ==
  TimesDiffer =>
    \A as_of \in 0..now : LET card == Scorecard(as_of) IN
      \A d \in Windows :
        LET shown == card.windows[d]
            there == Within(Ids, as_of, d)
        IN  /\ card.history_complete =>
                 shown.checks = there /\ shown.events = Announced(there)
            /\ \A e \in shown.events :
                 \E a \in Announced(there) :
                   a.observation = e.observation /\ a.transition = e.transition
=============================================================================

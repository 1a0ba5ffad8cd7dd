------------------------------ MODULE Judgement ------------------------------
(* The health of one source over a sequence of checks.  Each is judged by the  *)
(* detectors of Detection, against the baseline or against the median of the   *)
(* recent Healthy observations, which its own verdict then changes for the     *)
(* checks that follow.  Reviewers promote Healthy observations to be the new   *)
(* baseline.  Overlapping checks are in Monitoring; here one follows another.  *)
EXTENDS Detection

CONSTANTS
  Datasets,   \* what the source may have: a profile, and the age of its content
  ScanLimit   \* how many observations are searched for Healthy ones

ASSUME JudgementAssumption ==
  /\ ScanLimit \in Nat /\ ScanLimit > HistoryWindow
  /\ \A d \in Datasets : IsProfile(d.profile)

VARIABLES
  baseline,   \* the profile of the baseline, or Null
  recent,     \* the newest ScanLimit observations, newest first
  promotable, \* the profiles of the Healthy observations, however old
  since       \* history: how many of recent were made against this baseline

vars == <<baseline, recent, promotable, since>>

Init == baseline = Null /\ recent = <<>> /\ promotable = {} /\ since = 0

\* Of an observation: its profile, whether it is Healthy, and whether the
\* detectors found something else than its age.
Unavailable == [profile |-> Null, healthy |-> FALSE, flagged |-> TRUE]

Reference(o) == o.profile # Null /\ o.healthy

\* The n-th of the positions ids.
Nth(ids, n) == CHOOSE i \in ids : Cardinality({j \in ids : j <= i}) = n

\* The profiles of the newest of the observations at the positions ids.
NewestProfiles(observations, ids) ==
  [n \in 1..Smaller(Cardinality(ids), HistoryWindow) |-> observations[Nth(ids, n)].profile]

\* Mutant: what is not Healthy is part of the history, too.
AvailableReferences(observations) ==
  NewestProfiles(observations, {i \in DOMAIN observations : observations[i].profile # Null})

\* Mutant: the search ends at the first observation that is not Healthy.
ReferencesInARow(observations) ==
  NewestProfiles(observations,
    {i \in DOMAIN observations : \A j \in 1..i : Reference(observations[j])})

\* The profiles of the newest Healthy observations among those searched.
ReferenceObservations(observations) ==
  NewestProfiles(observations, {i \in DOMAIN observations : Reference(observations[i])})

\* What the detectors find in the data, whatever their age.
Findings(profile) ==
  EvaluateDataRules(profile) \cup
    IF baseline = Null THEN {}
    ELSE DetectProfileChanges(baseline, profile, ReferenceObservations(recent))

Saved(o) ==
  /\ recent' = SubSeq(<<o>> \o recent, 1, Smaller(Len(recent) + 1, ScanLimit))
  /\ promotable' = promotable \cup {x.profile : x \in {y \in {o} : Reference(y)}}

\* The first dataset that can be read becomes the baseline, whatever it is like.
Check(profile, age) ==
  /\ LET found == Findings(profile)
     IN  Saved([profile |-> profile, flagged |-> found # {},
                healthy |-> HealthFromFindings(found \cup DetectFreshness(age)) = "Healthy"])
  /\ since' = IF baseline = Null THEN 0 ELSE Smaller(since + 1, ScanLimit)
  /\ baseline' = IF baseline = Null THEN profile ELSE baseline

CheckUnavailable ==
  /\ Saved(Unavailable)
  /\ since' = IF baseline = Null THEN 0 ELSE Smaller(since + 1, ScanLimit)
  /\ UNCHANGED baseline

\* A reviewer promotes a Healthy observation, which may be one of long ago.
PromoteAfterReview(profile) ==
  /\ baseline # Null
  /\ baseline' = profile
  /\ since' = IF baseline' = baseline THEN since ELSE 0
  /\ UNCHANGED <<recent, promotable>>

Next ==
  \/ \E d \in Datasets : Check(d.profile, d.age)
  \/ CheckUnavailable
  \/ \E profile \in promotable : PromoteAfterReview(profile)

Spec == Init /\ [][Next]_vars

-----------------------------------------------------------------------------
(* Properties *)

HealthyBefore(k) == Cardinality({i \in (k + 1)..Len(recent) : Reference(recent[i])})

\* Observation k was made against this baseline, with a history that is still
\* within reach, and nothing Healthy was observed since.
SameReference(k) ==
  /\ k <= since
  /\ HealthyBefore(k) >= HistoryWindow \/ Len(recent) < ScanLimit
  /\ \A i \in 1..(k - 1) : ~Reference(recent[i])

\* An alarm does not fade by being repeated: data once flagged are flagged as
\* long as nothing Healthy was observed and no baseline promoted in between,
\* and the history they were compared with is within reach, however often they
\* or other bad data were seen since (detectors.py:53-68, storage.py:352-363).
AlarmPersists ==
  \A k \in DOMAIN recent :
    SameReference(k) /\ recent[k].profile # Null /\ recent[k].flagged =>
      Findings(recent[k].profile) # {}

Alike(p, q) ==
  /\ DOMAIN p.columns = DOMAIN q.columns
  /\ \A c \in DOMAIN p.columns :
       LET before == p.columns[c]
           after  == q.columns[c]
       IN  /\ before.spread = after.spread
           /\ before.median = Null <=> after.median = Null
           /\ before.median = Null \/ before.median > 0

\* The window is odd; a null rate is not a finding without an increase; all that
\* is Healthy has the same columns with numbers, which are positive and vary alike.
OddWindowOfLikeProfiles ==
  /\ HistoryWindow % 2 = 1 /\ WarningNullIncrease > 0
  /\ \A i, j \in DOMAIN recent :
       Reference(recent[i]) /\ Reference(recent[j]) => Alike(recent[i].profile, recent[j].profile)

\* A short outage is forgiven: data that were Healthy against enough history
\* are Healthy when they come back fresh, whatever was observed in between,
\* although the history by now includes themselves and has lost its oldest
\* member (detectors.py:53-68, service.py:508-514).  It takes a median of an odd
\* number of values, which only moves towards a value that is added, numbers
\* that vary alike, and positive ones: from a median of 0, any is Healthy that is
\* within the deviations, but it is a multiple of the median it then moves.  A
\* null rate that must not grow at all is a finding when its median falls to it.
ShortOutageForgiven ==
  OddWindowOfLikeProfiles =>
    \A k \in DOMAIN recent :
       SameReference(k) /\ Reference(recent[k]) /\ HealthyBefore(k) >= MinHistory =>
         Findings(recent[k].profile) = {}
=============================================================================

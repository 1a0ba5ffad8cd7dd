--------------------------- MODULE JudgementProofs ---------------------------
(***************************************************************************)
(* For every threshold, rule, dataset and length of the history: an alarm  *)
(* does not fade by being repeated, whatever the detectors compute from    *)
(* the history they are given, because they are given the same; and after  *)
(* a short outage data that were Healthy are Healthy again, because the    *)
(* history differs by these data alone, a median only moves towards a      *)
(* value that is added, and each detector finds nothing nearer to it.      *)
(***************************************************************************)
EXTENDS Judgement, FiniteSetTheorems, SequenceTheorems, WellFoundedInduction, TLAPS

-----------------------------------------------------------------------------
(* Severities.                                                             *)

Severities == {"Warning", "Critical"}

LEMMA GradedSeverity ==
  ASSUME NEW amount, NEW warning, NEW critical
  PROVE  Graded(amount, warning, critical) \subseteq Severities
  BY DEF Graded, Severities

LEMMA NumericSeverity ==
  ASSUME NEW before, NEW after, NEW stddev
  PROVE  NumericDrift(before, after, stddev) \subseteq Severities
<1>1. PICK graded, shift :
        /\ graded = Graded(Larger(Abs(before), Abs(after)),
                           WarningNumericFactor * Smaller(Abs(before), Abs(after)),
                           CriticalNumericFactor * Smaller(Abs(before), Abs(after)))
        /\ shift = Graded(Abs(after - before), 3 * stddev, 5 * stddev)
  OBVIOUS
<1>2. graded \subseteq Severities /\ shift \subseteq Severities
  BY <1>1, GradedSeverity
<1>3. NumericDrift(before, after, stddev) \in {graded, shift, {}}
  BY <1>1 DEF NumericDrift
<1> QED BY <1>2, <1>3

\* Whatever is found is a Warning or Critical.
LEMMA FindingsGraded ==
  ASSUME NEW profile, NEW base, NEW observed
  PROVE  /\ EvaluateDataRules(profile) \subseteq Severities
         /\ DetectProfileChanges(base, profile, observed) \subseteq Severities
<1>1. EvaluateDataRules(profile) \subseteq Severities
  BY DetectionAssumption DEF EvaluateDataRules, Severities
<1>2. PICK history : history = SubSeq(observed, 1, Smaller(Len(observed), HistoryWindow))
  OBVIOUS
<1>3. DetectSchema(base, profile) \subseteq Severities
  BY DEF DetectSchema, Severities
<1>4. DetectRowCount(base, profile, history) \subseteq Severities
  <2>1. PICK twice : twice = HistoricalReference([i \in DOMAIN history |-> history[i].rows], base.rows)
    OBVIOUS
  <2>2. PICK graded : graded = Graded(100 * Abs(2 * profile.rows - twice),
                                      WarningRowChange * twice, CriticalRowChange * twice)
    OBVIOUS
  <2>3. graded \subseteq Severities
    BY <2>2, GradedSeverity
  <2>4. DetectRowCount(base, profile, history) \in {{}, {"Warning"}, graded}
    BY <2>1, <2>2 DEF DetectRowCount
  <2> QED BY <2>3, <2>4 DEF Severities
<1>5. DetectNulls(base, profile, history) \subseteq Severities
  BY GradedSeverity DEF DetectNulls
<1>6. DetectNumeric(base, profile, history) \subseteq Severities
  BY NumericSeverity DEF DetectNumeric
<1>7. DetectCategories(base, profile) \subseteq Severities
  <2>1. ASSUME NEW before, NEW after PROVE CategoryDrift(before, after) \subseteq Severities
    BY DEF CategoryDrift, Severities
  <2> QED BY <2>1 DEF DetectCategories
<1>8. DetectUniqueness(base, profile, history) \subseteq Severities
  BY GradedSeverity DEF DetectUniqueness
<1> QED BY <1>1, <1>2, <1>3, <1>4, <1>5, <1>6, <1>7, <1>8 DEF DetectProfileChanges

-----------------------------------------------------------------------------
(* Positions, and the n-th of them.                                        *)

LEMMA LeastOf ==
  ASSUME NEW T \in SUBSET Nat, T # {} PROVE \E m \in T : \A n \in T : m <= n
<1>1. PICK R : R = {p \in Nat \X Nat : p[1] < p[2]}
  OBVIOUS
<1>2. IsWellFoundedOn(R, Nat)
  BY <1>1, NatLessThanWellFounded DEF OpToRel
<1>3. \E m \in T : \A n \in T : <<n, m>> \notin R
  BY <1>2, WFMin
<1>4. \A m, n \in Nat : <<n, m>> \in R <=> n < m
  BY <1>1
<1>5. \A m, n \in Nat : ~(n < m) => m <= n
  OBVIOUS
<1> QED BY <1>3, <1>4, <1>5

\* How many of the positions ids come up to i.
Count(ids, i) == Cardinality({j \in ids : j <= i})

LEMMA CountIs ==
  ASSUME NEW last \in Nat, NEW ids \in SUBSET (1..last)
  PROVE  /\ IsFiniteSet(ids) /\ Cardinality(ids) \in Nat
         /\ \A i \in Nat : IsFiniteSet({j \in ids : j <= i}) /\ Count(ids, i) \in Nat
         /\ Count(ids, 0) = 0 /\ Count(ids, last) = Cardinality(ids)
<1>0. \A j \in ids : j \in Nat /\ 1 <= j /\ j <= last
  OBVIOUS
<1>1. IsFiniteSet(ids) /\ Cardinality(ids) \in Nat
  <2>1. IsFiniteSet(1..last)
    BY FS_Interval
  <2> QED BY <2>1, FS_Subset, FS_CardinalityType
<1>2. \A i \in Nat : IsFiniteSet({j \in ids : j <= i}) /\ Count(ids, i) \in Nat
  BY <1>1, FS_Subset, FS_CardinalityType DEF Count
<1>3. Count(ids, 0) = 0
  <2>1. {j \in ids : j <= 0} = {}
    <3>1. ASSUME NEW j \in ids PROVE ~(j <= 0)
      BY <1>0
    <3> QED BY <3>1
  <2> QED BY <2>1, FS_EmptySet DEF Count
<1>4. Count(ids, last) = Cardinality(ids)
  <2>1. {j \in ids : j <= last} = ids
    BY <1>0
  <2> QED BY <2>1 DEF Count
<1> QED BY <1>1, <1>2, <1>3, <1>4

LEMMA CountGrows ==
  ASSUME NEW last \in Nat, NEW ids \in SUBSET (1..last), NEW i \in ids, NEW h \in Nat, h < i
  PROVE  Count(ids, h) < Count(ids, i)
<1>1. PICK fewer, more : fewer = {j \in ids : j <= h} /\ more = {j \in ids : j <= i}
  OBVIOUS
<1>0. \A j \in ids : j \in Nat
  OBVIOUS
<1>2. i \in Nat /\ i \in more /\ i \notin fewer /\ fewer \in SUBSET more
  <2>1. i \in Nat /\ i \in more /\ i \notin fewer
    BY <1>0, <1>1
  <2>2. ASSUME NEW j \in fewer PROVE j \in more
    <3>1. j \in ids /\ j \in Nat /\ j <= h
      BY <1>0, <1>1
    <3>2. j <= i
      BY <2>1, <3>1
    <3> QED BY <1>1, <3>1, <3>2
  <2> QED BY <2>1, <2>2
<1>3. IsFiniteSet(more) /\ Cardinality(more) \in Nat /\ Cardinality(fewer) \in Nat
  BY <1>1, <1>2, CountIs DEF Count
<1>4. Cardinality(fewer) <= Cardinality(more) /\ Cardinality(fewer) # Cardinality(more)
  BY <1>2, <1>3, FS_Subset
<1> QED BY <1>1, <1>3, <1>4 DEF Count

LEMMA NthIs ==
  ASSUME NEW last \in Nat, NEW ids \in SUBSET (1..last), NEW n \in 1..Cardinality(ids)
  PROVE  /\ Nth(ids, n) \in ids /\ Count(ids, Nth(ids, n)) = n
         /\ \A i \in ids : Count(ids, i) = n => i = Nth(ids, n)
<1>0. /\ Cardinality(ids) \in Nat
      /\ \A i \in Nat : IsFiniteSet({j \in ids : j <= i}) /\ Count(ids, i) \in Nat
      /\ Count(ids, 0) = 0 /\ Count(ids, last) = Cardinality(ids)
  BY CountIs
<1>1. /\ n \in Nat \ {0} /\ n <= Cardinality(ids)
      /\ \A i \in Nat : Count(ids, i) \in Nat
      /\ Count(ids, 0) = 0 /\ Count(ids, last) = Cardinality(ids)
  <2>1. Cardinality(ids) \in Nat
    BY <1>0
  <2>2. n \in Nat \ {0} /\ n <= Cardinality(ids)
    BY <2>1
  <2> QED BY <1>0, <2>2
<1>2. PICK i \in {m \in Nat : Count(ids, m) >= n} : \A m \in {m \in Nat : Count(ids, m) >= n} : i <= m
  <2>1. last \in {m \in Nat : Count(ids, m) >= n}
    BY <1>1
  <2> QED BY <2>1, LeastOf
<1>3. i \in Nat \ {0} /\ Count(ids, i) >= n /\ i - 1 \in Nat
  BY <1>1, <1>2
<1>4. Count(ids, i - 1) < n
  <2>1. ~(i <= i - 1)
    BY <1>3
  <2>2. i - 1 \notin {m \in Nat : Count(ids, m) >= n}
    BY <1>2, <2>1
  <2> QED BY <1>1, <1>3, <2>2
<1>5. PICK fewer : fewer = {j \in ids : j <= i - 1}
  OBVIOUS
<1>6. IsFiniteSet(fewer) /\ Cardinality(fewer) = Count(ids, i - 1) /\ i \notin fewer
  <2>1. IsFiniteSet(fewer) /\ Cardinality(fewer) = Count(ids, i - 1)
    BY <1>0, <1>3, <1>5 DEF Count
  <2>2. ~(i <= i - 1)
    BY <1>3
  <2> QED BY <1>5, <2>1, <2>2
<1>7. i \in ids /\ Count(ids, i) = n
  <2>1. \A j \in ids : j <= i <=> j <= i - 1 \/ j = i
    BY <1>3
  <2>2. CASE i \notin ids
    <3>1. {j \in ids : j <= i} = fewer
      BY <1>5, <2>1, <2>2
    <3>2. Count(ids, i) = Count(ids, i - 1)
      BY <1>6, <3>1 DEF Count
    <3> QED BY <1>1, <1>3, <1>4, <3>2
  <2>3. CASE i \in ids
    <3>1. {j \in ids : j <= i} = fewer \cup {i}
      BY <1>3, <1>5, <2>1, <2>3
    <3>2. Count(ids, i) = Count(ids, i - 1) + 1
      BY <1>6, <3>1, FS_AddElement DEF Count
    <3> QED BY <1>1, <1>3, <1>4, <2>3, <3>2
  <2> QED BY <2>2, <2>3
<1>8. ASSUME NEW j \in ids, NEW k \in ids, Count(ids, j) = n, Count(ids, k) = n PROVE j = k
  <2>1. j \in Nat /\ k \in Nat
    OBVIOUS
  <2>3. /\ j < k => Count(ids, j) < Count(ids, k)
        /\ k < j => Count(ids, k) < Count(ids, j)
    BY <2>1, CountGrows
  <2>2. ~(j < k) /\ ~(k < j)
    BY <1>1, <1>8, <2>3
  <2> QED BY <2>1, <2>2
<1>9. Nth(ids, n) = CHOOSE j \in ids : Count(ids, j) = n
  BY DEF Nth, Count
<1>10. Nth(ids, n) \in ids /\ Count(ids, Nth(ids, n)) = n
  BY <1>7, <1>9
<1> QED BY <1>8, <1>10

Moved(ids, k) == {i - k : i \in ids}

\* Positions that all move by k are as many as before.
LEMMA MovedAsMany ==
  ASSUME NEW A, IsFiniteSet(A), A \subseteq Nat, NEW k \in Nat
  PROVE  Cardinality(Moved(A, k)) = Cardinality(A)
<1>0. PICK B : B = Moved(A, k)
  OBVIOUS
<1>1. PICK f : f = [a \in A |-> a - k]
  OBVIOUS
<1>2. f \in [A -> B] /\ (\A b \in B : \E a \in A : f[a] = b)
  BY <1>0, <1>1 DEF Moved
<1>3. \A a, b \in A : f[a] = f[b] => a = b
  BY <1>1
<1>4. f \in Bijection(A, B)
  BY <1>2, <1>3 DEF Bijection, Injection, Surjection, IsInjective
<1> QED BY <1>0, <1>4, FS_Bijection DEF ExistsBijection

\* Positions that move by k because k observations came before them, and some that
\* were farther back than is listed now.
LEMMA ShiftedNth ==
  ASSUME NEW last \in Nat, NEW ids \in SUBSET (1..last), NEW k \in 0..last, \A i \in ids : i > k,
         NEW end \in Nat, NEW before \in SUBSET (1..end), end >= last - k,
         \A i \in 1..(last - k) : i \in before <=> i + k \in ids
  PROVE  /\ Cardinality(ids) <= Cardinality(before)
         /\ end = last - k => Cardinality(ids) = Cardinality(before)
         /\ \A n \in 1..Cardinality(ids) : Nth(before, n) = Nth(ids, n) - k
<1>1. /\ IsFiniteSet(ids) /\ Cardinality(ids) \in Nat /\ IsFiniteSet(before)
      /\ Cardinality(before) \in Nat /\ ids \subseteq Nat
      /\ \A i \in Nat : IsFiniteSet({j \in ids : j <= i})
  BY CountIs
<1>8. k \in Nat
  OBVIOUS
<1>2. PICK moved : moved = Moved(ids, k) /\ moved = {i - k : i \in ids}
  BY DEF Moved
<1>3. moved \in SUBSET before
  <2>1. ASSUME NEW i \in ids PROVE i - k \in before
    <3>1. i - k \in 1..(last - k) /\ (i - k) + k = i
      OBVIOUS
    <3> QED BY <3>1
  <2> QED BY <1>2, <2>1
<1>4. Cardinality(moved) = Cardinality(ids)
  BY <1>1, <1>2, <1>8, MovedAsMany
<1>5. Cardinality(ids) <= Cardinality(before)
  BY <1>1, <1>3, <1>4, FS_Subset
<1>6. ASSUME end = last - k PROVE Cardinality(ids) = Cardinality(before)
  <2>1. ASSUME NEW i \in before PROVE i \in moved
    <3>1. i \in 1..(last - k) /\ i = (i + k) - k
      BY <1>6
    <3>2. i + k \in ids
      BY <3>1
    <3> QED BY <1>2, <3>1, <3>2
  <2>2. moved = before
    BY <1>3, <2>1
  <2> QED BY <1>4, <2>2
<1>7. ASSUME NEW n \in 1..Cardinality(ids) PROVE Nth(before, n) = Nth(ids, n) - k
  <2>1. PICK i \in ids : i = Nth(ids, n) /\ Count(ids, i) = n
    BY NthIs
  <2>2. PICK mine, theirs : mine = {j \in ids : j <= i} /\ theirs = {j \in before : j <= i - k}
    OBVIOUS
  <2>3. theirs = Moved(mine, k)
    <3>1. ASSUME NEW j \in mine PROVE j - k \in theirs
      <4>1. j \in ids /\ j - k <= i - k /\ j - k \in 1..(last - k) /\ (j - k) + k = j
        BY <2>2
      <4> QED BY <2>2, <4>1
    <3>2. ASSUME NEW j \in theirs PROVE j + k \in mine /\ j = (j + k) - k
      <4>1. j \in before /\ j \in Nat /\ j <= i - k /\ j \in 1..(last - k)
        BY <2>2
      <4>2. j + k \in ids /\ j + k <= i /\ j = (j + k) - k
        BY <4>1
      <4> QED BY <2>2, <4>2
    <3> QED BY <3>1, <3>2 DEF Moved
  <2>4. mine \subseteq Nat /\ IsFiniteSet(mine)
    BY <1>1, <2>2
  <2>5. Count(before, i - k) = n
    <3>1. Cardinality(theirs) = Cardinality(mine)
      BY <1>8, <2>3, <2>4, MovedAsMany
    <3> QED BY <2>1, <2>2, <3>1 DEF Count
  <2>6. i - k \in before
    BY <1>2, <1>3
  <2>7. n \in 1..Cardinality(before)
    BY <1>1, <1>5
  <2> QED BY <2>1, <2>5, <2>6, <2>7, NthIs
<1> QED BY <1>5, <1>6, <1>7

-----------------------------------------------------------------------------
(* What is remembered of the observations.                                 *)

Profiles == {d.profile : d \in Datasets}

Observation == [profile : Profiles \cup {Null}, healthy : BOOLEAN, flagged : BOOLEAN]

TypeInv ==
  /\ baseline \in Profiles \cup {Null}
  /\ recent \in Seq(Observation)
  /\ Len(recent) <= ScanLimit
  /\ promotable \subseteq Profiles \ {Null}
  /\ since \in Nat
  /\ since > 0 => baseline # Null

FindingsOf(base, profile, before) ==
  EvaluateDataRules(profile) \cup
    IF base = Null THEN {}
    ELSE DetectProfileChanges(base, profile, ReferenceObservations(before))

\* Observation k was judged against this baseline when before was there, of
\* which the list has lost no more than it had to.
Judged(k, before) ==
  /\ Len(before) >= Len(recent) - k
  /\ Len(recent) < ScanLimit => Len(before) = Len(recent) - k
  /\ \A i \in 1..(Len(recent) - k) : before[i] = recent[i + k]
  /\ recent[k].profile # Null =>
       (recent[k].flagged <=> FindingsOf(baseline, recent[k].profile, before) # {})

\* Every observation since the baseline was set was judged against it, and what
\* is Healthy was not flagged.
HistoryInv ==
  /\ \A k \in DOMAIN recent : recent[k].healthy => ~recent[k].flagged
  /\ \A k \in DOMAIN recent : k <= since => \E before \in Seq(Observation) : Judged(k, before)

LEMMA ScanLimitIs == ScanLimit \in Nat /\ HistoryWindow \in Nat /\ ScanLimit > 0
  BY JudgementAssumption, DetectionAssumption

LEMMA RecentIs ==
  ASSUME TypeInv
  PROVE  /\ recent \in Seq(Observation) /\ Len(recent) \in Nat /\ Len(recent) <= ScanLimit
         /\ DOMAIN recent = 1..Len(recent) /\ \A i \in DOMAIN recent : recent[i] \in Observation
  BY DEF TypeInv

\* The list after an observation was saved.
LEMMA SavedIs ==
  ASSUME TypeInv, NEW o \in Observation, Saved(o)
  PROVE  /\ recent' \in Seq(Observation)
         /\ Len(recent') = IF Len(recent) < ScanLimit THEN Len(recent) + 1 ELSE ScanLimit
         /\ DOMAIN recent' = 1..Len(recent') /\ recent'[1] = o
         /\ \A i \in 1..(Len(recent') - 1) : i \in DOMAIN recent /\ recent'[i + 1] = recent[i]
<1>1. PICK s, n : s = <<o>> \o recent /\ n = Smaller(Len(recent) + 1, ScanLimit)
  OBVIOUS
<1>2. /\ Len(recent) \in Nat /\ Len(recent) <= ScanLimit /\ recent \in Seq(Observation)
      /\ ScanLimit \in Nat /\ ScanLimit > 0 /\ DOMAIN recent = 1..Len(recent)
  BY RecentIs, ScanLimitIs
<1>3. /\ n = IF Len(recent) < ScanLimit THEN Len(recent) + 1 ELSE ScanLimit
      /\ n \in Nat \ {0} /\ n <= Len(recent) + 1
  BY <1>1, <1>2 DEF Smaller
<1>4. <<o>> \in Seq(Observation) /\ Len(<<o>>) = 1 /\ <<o>>[1] = o
  OBVIOUS
<1>5. /\ s \in Seq(Observation) /\ Len(s) = 1 + Len(recent)
      /\ \A i \in 1..(1 + Len(recent)) : s[i] = IF i <= 1 THEN <<o>>[i] ELSE recent[i - 1]
  BY <1>1, <1>2, <1>4, ConcatProperties
<1>6. s[1] = o /\ \A i \in 1..Len(recent) : s[i + 1] = recent[i]
  <2>1. s[1] = o
    BY <1>2, <1>4, <1>5
  <2>2. ASSUME NEW i \in 1..Len(recent) PROVE s[i + 1] = recent[i]
    <3>1. i + 1 \in 1..(1 + Len(recent)) /\ ~(i + 1 <= 1) /\ (i + 1) - 1 = i
      BY <1>2
    <3> QED BY <1>5, <3>1
  <2> QED BY <2>1, <2>2
<1>7. recent' = SubSeq(s, 1, n)
  BY <1>1 DEF Saved
<1>8. \A i \in 1..n : s[i] \in Observation
  BY <1>2, <1>3, <1>5
<1>9. /\ recent' \in Seq(Observation) /\ Len(recent') = n
      /\ \A i \in 1..n : recent'[i] = s[i]
  <2>1. 1 \in Int /\ n \in Int /\ 1 <= n /\ n - 1 + 1 = n /\ \A i \in 1..n : 1 + i - 1 = i
    BY <1>3
  <2> QED BY <1>7, <1>8, <2>1, SubSeqProperties
<1>10. recent'[1] = o
  BY <1>3, <1>6, <1>9
<1>11. ASSUME NEW i \in 1..(n - 1) PROVE i \in DOMAIN recent /\ recent'[i + 1] = recent[i]
  <2>1. i \in 1..Len(recent) /\ i + 1 \in 1..n
    BY <1>2, <1>3
  <2> QED BY <1>2, <1>6, <1>9, <2>1
<1>12. DOMAIN recent' = 1..Len(recent')
  BY <1>9
<1> QED BY <1>3, <1>9, <1>10, <1>11, <1>12

\* An observation o is made, and judged if it is to be read.
Observed(o) ==
  /\ o \in Observation
  /\ o.profile # Null => (o.flagged <=> Findings(o.profile) # {})
  /\ o.healthy => ~o.flagged
  /\ Saved(o)
  /\ since' = IF baseline = Null THEN 0 ELSE Smaller(since + 1, ScanLimit)
  /\ baseline' = IF baseline = Null THEN o.profile ELSE baseline

LEMMA CheckObserves ==
  ASSUME NEW d \in Datasets, Check(d.profile, d.age) PROVE \E o : Observed(o)
<1>1. PICK found, health :
        /\ found = Findings(d.profile)
        /\ health = HealthFromFindings(found \cup DetectFreshness(d.age))
  OBVIOUS
<1>2. PICK o : o = [profile |-> d.profile, flagged |-> found # {}, healthy |-> health = "Healthy"]
  OBVIOUS
<1>3. o \in Observation /\ o.profile = d.profile /\ (o.flagged <=> found # {}) /\ (o.healthy <=> health = "Healthy")
  BY <1>2 DEF Observation, Profiles
<1>4. health = "Healthy" => found = {}
  <2>1. found \subseteq Severities
    BY <1>1, FindingsGraded DEF Findings
  <2>2. "Warning" \notin found /\ "Critical" \notin found => found = {}
    BY <2>1 DEF Severities
  <2>3. health = "Healthy" => "Warning" \notin found /\ "Critical" \notin found
    BY <1>1 DEF HealthFromFindings
  <2> QED BY <2>2, <2>3
<1>5. /\ Saved(o)
      /\ since' = IF baseline = Null THEN 0 ELSE Smaller(since + 1, ScanLimit)
      /\ baseline' = IF baseline = Null THEN o.profile ELSE baseline
  BY <1>1, <1>2, <1>3 DEF Check
<1> QED BY <1>1, <1>3, <1>4, <1>5 DEF Observed

LEMMA UnavailableObserves ==
  ASSUME CheckUnavailable PROVE \E o : Observed(o)
<1>1. /\ Unavailable \in Observation /\ Unavailable.profile = Null /\ ~Unavailable.healthy
  BY DEF Unavailable, Observation
<1> QED BY <1>1 DEF CheckUnavailable, Observed

LEMMA ObservedTyped ==
  ASSUME TypeInv, NEW o, Observed(o) PROVE TypeInv'
<1>1. o \in Observation /\ Saved(o) /\ ScanLimit \in Nat /\ since \in Nat /\ Len(recent) \in Nat
  BY ScanLimitIs, RecentIs DEF Observed, TypeInv
<1>2. recent' \in Seq(Observation) /\ Len(recent') <= ScanLimit
  BY <1>1, SavedIs
<1>3. since' \in Nat /\ (since' > 0 => baseline # Null)
  BY <1>1 DEF Observed, Smaller
<1>4. baseline # Null => baseline' = baseline
  BY DEF Observed
<1>5. baseline' \in Profiles \cup {Null}
  <2>1. o.profile \in Profiles \cup {Null} /\ baseline \in Profiles \cup {Null}
    BY <1>1 DEF Observation, TypeInv
  <2> QED BY <2>1 DEF Observed
<1>6. promotable' \subseteq Profiles \ {Null}
  BY <1>1 DEF Saved, Reference, Observation, TypeInv
<1> QED BY <1>2, <1>3, <1>4, <1>5, <1>6 DEF TypeInv

LEMMA ObservedJudged ==
  ASSUME TypeInv, HistoryInv, NEW o, Observed(o) PROVE HistoryInv'
<1>1. /\ o \in Observation /\ Saved(o) /\ ScanLimit \in Nat /\ ScanLimit > 0 /\ since \in Nat
      /\ Len(recent) \in Nat /\ Len(recent) <= ScanLimit /\ DOMAIN recent = 1..Len(recent)
      /\ recent \in Seq(Observation)
  BY ScanLimitIs, RecentIs DEF Observed, TypeInv
<1>2. /\ Len(recent') = IF Len(recent) < ScanLimit THEN Len(recent) + 1 ELSE ScanLimit
      /\ DOMAIN recent' = 1..Len(recent') /\ recent'[1] = o
      /\ \A i \in 1..(Len(recent') - 1) : i \in DOMAIN recent /\ recent'[i + 1] = recent[i]
  BY <1>1, SavedIs
<1>3. ASSUME NEW k \in DOMAIN recent', k # 1
      PROVE  k - 1 \in DOMAIN recent /\ recent'[k] = recent[k - 1]
  <2>1. Len(recent') \in Nat /\ k \in Nat /\ k - 1 \in 1..(Len(recent') - 1) /\ (k - 1) + 1 = k
    BY <1>1, <1>2, <1>3
  <2> QED BY <1>2, <2>1
<1>4. ASSUME NEW k \in DOMAIN recent' PROVE recent'[k].healthy => ~recent'[k].flagged
  BY <1>2, <1>3 DEF Observed, HistoryInv
<1>5. ASSUME NEW k \in DOMAIN recent', k <= since'
      PROVE  \E before \in Seq(Observation) : Judged(k, before)'
  <2>1. k \in Nat \ {0} /\ baseline # Null /\ baseline' = baseline /\ since' <= since + 1
    BY <1>1, <1>2, <1>5 DEF Observed, Smaller
  <2>2. CASE k = 1
    <3>1. PICK before \in Seq(Observation) : before = recent
      BY <1>1
    <3>2. /\ Len(before) >= Len(recent') - 1
          /\ Len(recent') < ScanLimit => Len(before) = Len(recent') - 1
      BY <1>1, <1>2, <3>1
    <3>3. \A i \in 1..(Len(recent') - 1) : before[i] = recent'[i + 1]
      BY <1>2, <3>1
    <3>4. recent'[1].profile # Null =>
            (recent'[1].flagged <=> FindingsOf(baseline', recent'[1].profile, before) # {})
      BY <1>2, <2>1, <3>1 DEF Observed, Findings, FindingsOf
    <3>5. Judged(1, before)'
      BY <3>2, <3>3, <3>4 DEF Judged
    <3> QED BY <2>2, <3>5
  <2>3. CASE k # 1
    <3>1. k - 1 \in DOMAIN recent /\ recent'[k] = recent[k - 1] /\ k - 1 <= since
      BY <1>1, <1>3, <1>5, <2>1, <2>3 DEF Observed, Smaller
    <3>2. PICK before \in Seq(Observation) : Judged(k - 1, before)
      BY <3>1 DEF HistoryInv
    <3>3. /\ Len(before) >= Len(recent) - (k - 1)
          /\ Len(recent) < ScanLimit => Len(before) = Len(recent) - (k - 1)
          /\ \A i \in 1..(Len(recent) - (k - 1)) : before[i] = recent[i + (k - 1)]
          /\ recent[k - 1].profile # Null =>
               (recent[k - 1].flagged <=> FindingsOf(baseline, recent[k - 1].profile, before) # {})
      BY <3>2 DEF Judged
    <3>4. /\ Len(before) >= Len(recent') - k
          /\ Len(recent') < ScanLimit => Len(before) = Len(recent') - k
      <4>1. Len(before) \in Nat
        OBVIOUS
      <4> QED BY <1>1, <1>2, <2>1, <3>3, <4>1
    <3>5. ASSUME NEW i \in 1..(Len(recent') - k) PROVE before[i] = recent'[i + k]
      <4>0. Len(recent') \in Nat /\ Len(recent') <= Len(recent) + 1
        BY <1>1, <1>2
      <4>1. /\ i \in 1..(Len(recent) - (k - 1)) /\ i + (k - 1) \in 1..(Len(recent') - 1)
            /\ (i + (k - 1)) + 1 = i + k
        BY <1>1, <2>1, <4>0
      <4> QED BY <1>2, <3>3, <4>1
    <3>6. recent'[k].profile # Null =>
            (recent'[k].flagged <=> FindingsOf(baseline', recent'[k].profile, before) # {})
      BY <2>1, <3>1, <3>3
    <3>7. Judged(k, before)'
      BY <3>4, <3>5, <3>6 DEF Judged
    <3> QED BY <3>7
  <2> QED BY <2>2, <2>3
<1> QED BY <1>4, <1>5 DEF HistoryInv

LEMMA PromotionJudged ==
  ASSUME TypeInv, HistoryInv, NEW p \in promotable, PromoteAfterReview(p)
  PROVE  TypeInv' /\ HistoryInv'
<1>1. /\ recent' = recent /\ baseline' # Null /\ baseline' \in Profiles \cup {Null}
      /\ since' = IF baseline' = baseline THEN since ELSE 0
  <2>1. p \in Profiles /\ p # Null
    BY DEF TypeInv
  <2> QED BY <2>1 DEF PromoteAfterReview
<1>2. TypeInv'
  BY <1>1 DEF TypeInv, PromoteAfterReview
<1>3. ASSUME NEW k \in DOMAIN recent' PROVE recent'[k].healthy => ~recent'[k].flagged
  BY <1>1 DEF HistoryInv
<1>4. ASSUME NEW k \in DOMAIN recent', k <= since'
      PROVE  \E before \in Seq(Observation) : Judged(k, before)'
  <2>1. CASE baseline' = baseline
    <3>1. PICK before \in Seq(Observation) : Judged(k, before)
      BY <1>1, <1>4, <2>1 DEF HistoryInv
    <3>2. Judged(k, before)'
      BY <1>1, <2>1, <3>1 DEF Judged
    <3> QED BY <3>2
  <2>2. CASE baseline' # baseline
    <3>1. k \in Nat \ {0} /\ since' = 0
      BY <1>1, <2>2, RecentIs
    <3> QED BY <1>4, <3>1
  <2> QED BY <2>1, <2>2
<1>5. HistoryInv'
  BY <1>3, <1>4 DEF HistoryInv
<1> QED BY <1>2, <1>5

LEMMA InvInit == Init => TypeInv /\ HistoryInv
<1> SUFFICES ASSUME Init PROVE TypeInv /\ HistoryInv
  OBVIOUS
<1>1. recent = <<>> /\ baseline = Null /\ since = 0 /\ promotable = {} /\ Len(recent) = 0 /\ DOMAIN recent = {}
  BY DEF Init
<1> QED BY <1>1, ScanLimitIs DEF TypeInv, HistoryInv

LEMMA InvStep == TypeInv /\ HistoryInv /\ [Next]_vars => TypeInv' /\ HistoryInv'
<1> SUFFICES ASSUME TypeInv, HistoryInv, [Next]_vars PROVE TypeInv' /\ HistoryInv'
  OBVIOUS
<1>1. CASE UNCHANGED vars
  <2>1. recent' = recent /\ since' = since /\ baseline' = baseline /\ promotable' = promotable
    BY <1>1 DEF vars
  <2>2. TypeInv'
    BY <2>1 DEF TypeInv
  <2>3. ASSUME NEW k \in DOMAIN recent', k <= since'
        PROVE  \E before \in Seq(Observation) : Judged(k, before)'
    <3>1. PICK before \in Seq(Observation) : Judged(k, before)
      BY <2>1, <2>3 DEF HistoryInv
    <3>2. Judged(k, before)'
      BY <2>1, <3>1 DEF Judged
    <3> QED BY <3>2
  <2>4. ASSUME NEW k \in DOMAIN recent' PROVE recent'[k].healthy => ~recent'[k].flagged
    BY <2>1 DEF HistoryInv
  <2>5. HistoryInv'
    BY <2>3, <2>4 DEF HistoryInv
  <2> QED BY <2>2, <2>5
<1>2. ASSUME NEW o, Observed(o) PROVE TypeInv' /\ HistoryInv'
  BY <1>2, ObservedTyped, ObservedJudged
<1>3. ASSUME NEW p \in promotable, PromoteAfterReview(p) PROVE TypeInv' /\ HistoryInv'
  BY <1>3, PromotionJudged
<1>4. ASSUME NEW d \in Datasets, Check(d.profile, d.age) PROVE TypeInv' /\ HistoryInv'
  BY <1>2, <1>4, CheckObserves
<1>5. CASE CheckUnavailable
  BY <1>2, <1>5, UnavailableObserves
<1> QED BY <1>1, <1>3, <1>4, <1>5 DEF Next

-----------------------------------------------------------------------------
(* Alarms.                                                                 *)

References(observations) == {i \in DOMAIN observations : Reference(observations[i])}

Older(k) == {i \in References(recent) : i > k}

\* The history that the data of an observation were compared with is that of the
\* Healthy observations before it.
LEMMA ReferencesBefore ==
  ASSUME TypeInv, NEW k \in DOMAIN recent, NEW before \in Seq(Observation), Judged(k, before),
         HealthyBefore(k) >= HistoryWindow \/ Len(recent) < ScanLimit
  PROVE  /\ ReferenceObservations(before) = NewestProfiles(recent, Older(k))
         /\ HealthyBefore(k) = Cardinality(Older(k))
<1>1. PICK ids, old : ids = Older(k) /\ old = References(before)
  OBVIOUS
<1>2. PICK last, end : last = Len(recent) /\ end = Len(before)
  OBVIOUS
<1>3. /\ last \in Nat /\ end \in Nat /\ DOMAIN recent = 1..last /\ DOMAIN before = 1..end
      /\ ids \in SUBSET (1..last) /\ old \in SUBSET (1..end) /\ HistoryWindow \in Nat
      /\ k \in 1..last
  BY <1>1, <1>2, RecentIs, ScanLimitIs DEF References, Older
<1>4. /\ end >= last - k /\ (last < ScanLimit => end = last - k)
      /\ \A i \in 1..(last - k) : before[i] = recent[i + k]
  BY <1>2 DEF Judged
<1>5. \A i \in ids : i > k
  BY <1>1 DEF Older
<1>6. ASSUME NEW i \in 1..(last - k) PROVE i \in old <=> i + k \in ids
  <2>1. i \in 1..end /\ i + k \in 1..last /\ i + k > k
    BY <1>3, <1>4
  <2> QED BY <1>1, <1>3, <1>4, <2>1 DEF References, Older
<1>7. /\ Cardinality(ids) <= Cardinality(old)
      /\ end = last - k => Cardinality(ids) = Cardinality(old)
      /\ \A n \in 1..Cardinality(ids) : Nth(old, n) = Nth(ids, n) - k
  <2>1. k \in 0..last
    BY <1>3
  <2> QED BY <1>3, <1>4, <1>5, <1>6, <2>1, ShiftedNth
<1>8. Cardinality(ids) \in Nat /\ Cardinality(old) \in Nat
  BY <1>3, CountIs
<1>9. HealthyBefore(k) = Cardinality(ids)
  <2>1. {i \in (k + 1)..Len(recent) : Reference(recent[i])} = ids
    <3>1. ASSUME NEW i \in ids PROVE i \in (k + 1)..last /\ Reference(recent[i])
      <4>1. i \in Nat /\ i > k /\ i <= last
        BY <1>3, <1>5
      <4> QED BY <1>1, <1>3, <4>1 DEF References, Older
    <3>2. ASSUME NEW i \in (k + 1)..last, Reference(recent[i]) PROVE i \in ids
      <4>1. i \in 1..last /\ i > k
        BY <1>3
      <4> QED BY <1>1, <1>3, <3>2, <4>1 DEF References, Older
    <3> QED BY <1>2, <3>1, <3>2
  <2> QED BY <2>1 DEF HealthyBefore
<1>10. PICK n : n = Smaller(Cardinality(ids), HistoryWindow)
  OBVIOUS
<1>11. n = Smaller(Cardinality(old), HistoryWindow) /\ n \in Nat /\ n <= Cardinality(ids)
  <2>1. CASE Cardinality(ids) >= HistoryWindow
    BY <1>3, <1>7, <1>8, <1>10, <2>1 DEF Smaller
  <2>2. CASE ~(Cardinality(ids) >= HistoryWindow)
    <3>1. Cardinality(ids) = Cardinality(old)
      BY <1>2, <1>4, <1>7, <1>9, <2>2
    <3> QED BY <1>3, <1>8, <1>10, <3>1 DEF Smaller
  <2> QED BY <2>1, <2>2
<1>12. ASSUME NEW m \in 1..n PROVE before[Nth(old, m)].profile = recent[Nth(ids, m)].profile
  <2>1. m \in 1..Cardinality(ids)
    BY <1>8, <1>11
  <2>2. Nth(ids, m) \in ids /\ Nth(old, m) = Nth(ids, m) - k
    BY <1>3, <1>7, <2>1, NthIs
  <2>3. Nth(ids, m) - k \in 1..(last - k) /\ (Nth(ids, m) - k) + k = Nth(ids, m)
    <3>1. PICK i \in ids : i = Nth(ids, m)
      BY <2>2
    <3>2. i \in Nat /\ i > k /\ i <= last
      BY <1>3, <1>5
    <3> QED BY <1>3, <3>1, <3>2
  <2> QED BY <1>4, <2>2, <2>3
<1>13. [m \in 1..n |-> before[Nth(old, m)].profile] = [m \in 1..n |-> recent[Nth(ids, m)].profile]
  BY <1>12
<1> QED BY <1>1, <1>9, <1>10, <1>11, <1>13 DEF ReferenceObservations, NewestProfiles, References

\* If none was Healthy since, it is the one they would be compared with now.
LEMMA ReferencesStay ==
  ASSUME TypeInv, NEW k \in DOMAIN recent, NEW before \in Seq(Observation), Judged(k, before),
         \A i \in 1..k : ~Reference(recent[i]),
         HealthyBefore(k) >= HistoryWindow \/ Len(recent) < ScanLimit
  PROVE  ReferenceObservations(before) = ReferenceObservations(recent)
<1>1. DOMAIN recent = 1..Len(recent) /\ Len(recent) \in Nat /\ k \in Nat
  BY RecentIs
<1>2. ASSUME NEW i \in References(recent) PROVE i > k
  <2>1. i \in 1..Len(recent) /\ Reference(recent[i])
    BY <1>1 DEF References
  <2>2. ~(i > k) => i \in 1..k
    BY <1>1, <2>1
  <2> QED BY <2>1, <2>2
<1>3. Older(k) = References(recent)
  BY <1>2 DEF Older
<1> QED BY <1>3, ReferencesBefore DEF ReferenceObservations, References

LEMMA AlarmStays ==
  ASSUME TypeInv, HistoryInv PROVE AlarmPersists
<1> SUFFICES ASSUME NEW k \in DOMAIN recent, SameReference(k), recent[k].profile # Null,
                    recent[k].flagged
             PROVE  Findings(recent[k].profile) # {}
  BY DEF AlarmPersists
<1>1. PICK before \in Seq(Observation) : Judged(k, before)
  BY DEF HistoryInv, SameReference
<1>2. \A i \in 1..k : ~Reference(recent[i])
  <2>1. ~Reference(recent[k])
    BY DEF HistoryInv, Reference
  <2>2. k \in Nat /\ \A i \in 1..k : i \in 1..(k - 1) \/ i = k
    BY RecentIs
  <2> QED BY <2>1, <2>2 DEF SameReference
<1>3. ReferenceObservations(before) = ReferenceObservations(recent)
  BY <1>1, <1>2, ReferencesStay DEF SameReference
<1>4. FindingsOf(baseline, recent[k].profile, before) # {}
  BY <1>1 DEF Judged
<1> QED BY <1>3, <1>4 DEF Findings, FindingsOf

\* An alarm does not fade by being repeated: data once flagged are flagged as long
\* as nothing Healthy was observed and no baseline promoted in between, and the
\* history they were compared with is within reach, for all thresholds, rules and
\* data and however often they were seen since (detectors.py:53-68,
\* storage.py:352-363).
THEOREM AlarmsPersist == Spec => []AlarmPersists
<1>1. TypeInv /\ HistoryInv => AlarmPersists
  BY AlarmStays
<1> QED BY <1>1, InvInit, InvStep, PTL DEF Spec

-----------------------------------------------------------------------------
(* Medians.                                                                *)

\* How many of the values are at most v.
AtMost(s, v) == Cardinality({i \in DOMAIN s : s[i] <= v})

LEMMA AtMostIs ==
  ASSUME NEW n \in Nat, NEW s \in [1..n -> Int], NEW v \in Int
  PROVE  /\ IsFiniteSet({i \in DOMAIN s : s[i] <= v})
         /\ AtMost(s, v) \in Nat /\ AtMost(s, v) <= n
<1>1. IsFiniteSet(1..n) /\ Cardinality(1..n) = n
  BY FS_Interval
<1>2. PICK T : T = {i \in DOMAIN s : s[i] <= v}
  OBVIOUS
<1>3. T \in SUBSET (1..n)
  BY <1>2
<1>4. IsFiniteSet(T) /\ Cardinality(T) <= n
  <2>1. PICK all : all = 1..n
    OBVIOUS
  <2>2. IsFiniteSet(all) /\ Cardinality(all) = n /\ T \in SUBSET all
    BY <1>1, <1>3, <2>1
  <2> QED BY <2>2, FS_Subset
<1> QED BY <1>2, <1>4, FS_CardinalityType DEF AtMost

LEMMA GreatestOf ==
  ASSUME NEW n \in Nat, NEW s \in [1..n -> Int], NEW ids \in SUBSET (1..n), ids # {}
  PROVE  \E i \in ids : \A j \in ids : s[j] <= s[i]
<1> DEFINE Under(i) == {j \in ids : s[j] <= s[i]}
<1>1. IsFiniteSet(ids) /\ Cardinality(ids) \in Nat
  BY CountIs
<1>2. ASSUME NEW i \in ids
      PROVE  IsFiniteSet(Under(i)) /\ Cardinality(Under(i)) \in Nat
             /\ Cardinality(ids) - Cardinality(Under(i)) \in Nat
  <2>1. Under(i) \in SUBSET ids
    OBVIOUS
  <2> HIDE DEF Under
  <2>2. IsFiniteSet(Under(i)) /\ Cardinality(Under(i)) <= Cardinality(ids)
    BY <1>1, <2>1, FS_Subset
  <2>3. Cardinality(Under(i)) \in Nat
    BY <2>2, FS_CardinalityType
  <2> QED BY <1>1, <2>2, <2>3
<1>3. PICK T : T = {Cardinality(ids) - Cardinality(Under(i)) : i \in ids}
  OBVIOUS
<1>4. PICK i \in ids : \A j \in ids :
        Cardinality(ids) - Cardinality(Under(i)) <= Cardinality(ids) - Cardinality(Under(j))
  <2> HIDE DEF Under
  <2>1. T \in SUBSET Nat /\ T # {}
    BY <1>2, <1>3
  <2>2. PICK m \in T : \A c \in T : m <= c
    BY <2>1, LeastOf
  <2> QED BY <1>3, <2>2
<1>5. ASSUME NEW j \in ids, ~(s[j] <= s[i]) PROVE FALSE
  <2>1. s[i] \in Int /\ s[j] \in Int
    OBVIOUS
  <2>2. Under(i) \in SUBSET Under(j)
    <3>1. ASSUME NEW l \in ids, s[l] <= s[i] PROVE s[l] <= s[j]
      <4>1. s[l] \in Int
        OBVIOUS
      <4> QED BY <1>5, <2>1, <3>1, <4>1
    <3> QED BY <3>1
  <2>3. j \in Under(j) /\ j \notin Under(i)
    BY <1>5, <2>1
  <2> HIDE DEF Under
  <2>4. Under(i) # Under(j)
    BY <2>3
  <2>5. Cardinality(Under(i)) <= Cardinality(Under(j)) /\ Cardinality(Under(i)) # Cardinality(Under(j))
    BY <1>2, <2>2, <2>4, FS_Subset
  <2>6. Cardinality(ids) - Cardinality(Under(i)) <= Cardinality(ids) - Cardinality(Under(j))
    BY <1>4
  <2> QED BY <1>1, <1>2, <2>5, <2>6
<1> QED BY <1>5

\* The k-th smallest value is at most v if and only if k values are.
LEMMA RankedIs ==
  ASSUME NEW n \in Nat \ {0}, NEW s \in [1..n -> Int], NEW k \in 1..n
  PROVE  /\ Ranked(s, k) \in Int
         /\ \E i \in 1..n : Ranked(s, k) = s[i]
         /\ \A v \in Int : Ranked(s, k) <= v <=> AtMost(s, v) >= k
<1> DEFINE Under(v) == {i \in DOMAIN s : s[i] < v}
           UpTo(v)  == {i \in DOMAIN s : s[i] <= v}
<1>1. n \in Nat /\ k \in Nat /\ k >= 1 /\ k <= n /\ DOMAIN s = 1..n
  OBVIOUS
<1>2. ASSUME NEW v \in Int
      PROVE  IsFiniteSet(UpTo(v)) /\ Cardinality(UpTo(v)) = AtMost(s, v) /\ AtMost(s, v) \in Nat
  BY <1>1, AtMostIs DEF AtMost
<1>3. PICK T : T = {AtMost(s, s[i]) : i \in {j \in 1..n : AtMost(s, s[j]) >= k}}
  OBVIOUS
<1>4. T \in SUBSET Nat /\ T # {}
  <2>1. PICK i \in 1..n : \A j \in 1..n : s[j] <= s[i]
    <3>1. PICK ids : ids = 1..n
      OBVIOUS
    <3>2. ids # {} /\ ids \in SUBSET (1..n)
      BY <1>1, <3>1
    <3> QED BY <1>1, <3>1, <3>2, GreatestOf
  <2>2. {j \in DOMAIN s : s[j] <= s[i]} = 1..n
    BY <1>1, <2>1
  <2>3. AtMost(s, s[i]) = n
    <3>1. Cardinality(1..n) = n
      BY FS_Interval
    <3> QED BY <2>2, <3>1 DEF AtMost
  <2>4. \A j \in 1..n : s[j] \in Int
    OBVIOUS
  <2> QED BY <1>1, <1>2, <1>3, <2>3, <2>4
<1>5. PICK i \in 1..n : /\ AtMost(s, s[i]) >= k
                        /\ \A j \in 1..n : AtMost(s, s[j]) >= k => AtMost(s, s[i]) <= AtMost(s, s[j])
  <2>1. PICK m \in T : \A c \in T : m <= c
    BY <1>4, LeastOf
  <2> QED BY <1>3, <2>1
<1>6. PICK v \in Int : v = s[i]
  OBVIOUS
<1>7. Under(v) \in SUBSET (1..n) /\ Under(v) \in SUBSET UpTo(v) /\ i \in UpTo(v) /\ i \notin Under(v)
  BY <1>1, <1>6
<1>8. Cardinality(Under(v)) < k
  <2>1. SUFFICES ASSUME ~(Cardinality(Under(v)) < k) PROVE FALSE
    OBVIOUS
  <2> HIDE DEF Under, UpTo
  <2>2. /\ IsFiniteSet(Under(v)) /\ Cardinality(Under(v)) \in Nat
        /\ Cardinality(Under(v)) < AtMost(s, v)
    <3>1. IsFiniteSet(Under(v)) /\ Cardinality(Under(v)) <= Cardinality(UpTo(v))
      BY <1>2, <1>7, FS_Subset
    <3>2. Under(v) # UpTo(v)
      BY <1>7
    <3>3. Cardinality(Under(v)) # Cardinality(UpTo(v))
      BY <1>2, <1>7, <3>2, FS_Subset
    <3>4. Cardinality(Under(v)) \in Nat
      BY <3>1, FS_CardinalityType
    <3> QED BY <1>2, <3>1, <3>3, <3>4
  <2>3. Under(v) # {}
    BY <1>1, <2>1, <2>2, FS_EmptySet
  <2>4. PICK j \in Under(v) : \A l \in Under(v) : s[l] <= s[j]
    BY <1>1, <1>7, <2>3, GreatestOf
  <2>5. j \in 1..n /\ s[j] \in Int /\ s[j] < v
    BY <1>7 DEF Under
  <2>6. UpTo(s[j]) = Under(v)
    <3>1. ASSUME NEW l \in 1..n PROVE s[l] <= s[j] <=> s[l] < v
      <4>1. s[l] \in Int
        OBVIOUS
      <4>2. s[l] < v => s[l] <= s[j]
        BY <1>1, <2>4 DEF Under
      <4> QED BY <2>5, <4>1, <4>2
    <3> QED BY <1>1, <3>1 DEF UpTo, Under
  <2>7. AtMost(s, s[j]) = Cardinality(Under(v))
    BY <1>2, <2>5, <2>6
  <2>8. AtMost(s, v) <= AtMost(s, s[j])
    BY <1>1, <1>5, <1>6, <2>1, <2>2, <2>5, <2>7
  <2> QED BY <1>2, <2>2, <2>7, <2>8
<1>9. PICK r : r = Ranked(s, k)
  OBVIOUS
<1>10. r \in Range(s) /\ Cardinality(Under(r)) < k /\ Cardinality(UpTo(r)) >= k
  <2>1. v \in Range(s) /\ Cardinality(Under(v)) < k /\ Cardinality(UpTo(v)) >= k
    BY <1>1, <1>2, <1>5, <1>6, <1>8 DEF Range
  <2> QED BY <1>9, <2>1 DEF Ranked
<1>11. PICK j \in 1..n : r = s[j]
  BY <1>1, <1>10 DEF Range
<1>12. r \in Int
  BY <1>11
<1>13. ASSUME NEW w \in Int PROVE r <= w <=> AtMost(s, w) >= k
  <2>1. IsFiniteSet(UpTo(w)) /\ Cardinality(UpTo(w)) = AtMost(s, w) /\ AtMost(s, w) \in Nat
    BY <1>2
  <2>2. CASE r <= w
    <3>1. UpTo(r) \in SUBSET UpTo(w)
      <4>1. ASSUME NEW l \in 1..n, s[l] <= r PROVE s[l] <= w
        <5>1. s[l] \in Int
          OBVIOUS
        <5> QED BY <1>12, <2>2, <4>1, <5>1
      <4> QED BY <1>1, <4>1
    <3>2. Cardinality(UpTo(r)) <= Cardinality(UpTo(w)) /\ Cardinality(UpTo(r)) \in Nat
      <4> HIDE DEF UpTo
      <4> QED BY <1>2, <1>12, <2>1, <3>1, FS_Subset
    <3> QED BY <1>1, <1>10, <2>1, <2>2, <3>2
  <2>3. CASE ~(r <= w)
    <3>1. UpTo(w) \in SUBSET Under(r)
      <4>1. ASSUME NEW l \in 1..n, s[l] <= w PROVE s[l] < r
        <5>1. s[l] \in Int
          OBVIOUS
        <5> QED BY <1>12, <2>3, <4>1, <5>1
      <4> QED BY <1>1, <4>1
    <3>2. IsFiniteSet(Under(r)) /\ Cardinality(Under(r)) \in Nat
      <4>1. Under(r) \in SUBSET (1..n) /\ IsFiniteSet(1..n)
        BY <1>1, FS_Interval
      <4> HIDE DEF Under
      <4> QED BY <4>1, FS_Subset, FS_CardinalityType
    <3>3. Cardinality(UpTo(w)) <= Cardinality(Under(r))
      <4> HIDE DEF UpTo, Under
      <4> QED BY <3>1, <3>2, FS_Subset
    <3> QED BY <1>1, <1>10, <2>1, <2>3, <3>2, <3>3
  <2> QED BY <2>2, <2>3
<1> QED BY <1>9, <1>11, <1>12, <1>13

\* A value put first.
LEMMA AtMostAdded ==
  ASSUME NEW m \in Nat, NEW u \in [1..m -> Int], NEW t \in [1..(m + 1) -> Int],
         \A i \in 1..m : t[i + 1] = u[i], NEW v \in Int
  PROVE  /\ t[1] <= v => AtMost(t, v) = AtMost(u, v) + 1
         /\ ~(t[1] <= v) => AtMost(t, v) = AtMost(u, v)
<1>1. PICK T, U, W : /\ T = {i \in DOMAIN t : t[i] <= v} /\ U = {i \in DOMAIN u : u[i] <= v}
                     /\ W = {i \in T : i # 1}
  OBVIOUS
<1>2. DOMAIN t = 1..(m + 1) /\ DOMAIN u = 1..m
  OBVIOUS
<1>3. IsFiniteSet(T) /\ IsFiniteSet(U) /\ AtMost(u, v) \in Nat
  <2>1. m + 1 \in Nat
    OBVIOUS
  <2>2. IsFiniteSet(T)
    BY <1>1, <2>1, AtMostIs
  <2> QED BY <1>1, <2>2, AtMostIs
<1>4. W \in SUBSET T /\ W \subseteq Nat /\ 1 \notin W
  BY <1>1, <1>2
<1>5. IsFiniteSet(W)
  BY <1>3, <1>4, FS_Subset
<1>6. U = Moved(W, 1)
  <2>1. ASSUME NEW i \in W PROVE i - 1 \in U
    <3>1. i \in 1..(m + 1) /\ t[i] <= v /\ i # 1
      BY <1>1, <1>2
    <3>2. i - 1 \in 1..m /\ (i - 1) + 1 = i
      BY <3>1
    <3> QED BY <1>1, <1>2, <3>1, <3>2
  <2>2. ASSUME NEW i \in U PROVE i + 1 \in W /\ (i + 1) - 1 = i
    <3>1. i \in 1..m /\ u[i] <= v
      BY <1>1, <1>2
    <3>2. i + 1 \in 1..(m + 1) /\ i + 1 # 1 /\ (i + 1) - 1 = i
      BY <3>1
    <3> QED BY <1>1, <1>2, <3>1, <3>2
  <2> QED BY <2>1, <2>2 DEF Moved
<1>7. Cardinality(U) = Cardinality(W)
  BY <1>4, <1>5, <1>6, MovedAsMany
<1>8. CASE t[1] <= v
  <2>1. T = W \cup {1}
    BY <1>1, <1>2, <1>8
  <2>2. Cardinality(T) = Cardinality(W) + 1
    BY <1>4, <1>5, <2>1, FS_AddElement
  <2> QED BY <1>1, <1>7, <1>8, <2>2 DEF AtMost
<1>9. CASE ~(t[1] <= v)
  <2>1. T = W
    BY <1>1, <1>9
  <2>2. AtMost(t, v) = AtMost(u, v)
    BY <1>1, <1>7, <2>1 DEF AtMost
  <2> QED BY <1>3, <1>9, <2>2
<1> QED BY <1>8, <1>9

\* The last value left out.
LEMMA AtMostCut ==
  ASSUME NEW n \in Nat \ {0}, NEW s \in [1..n -> Int], NEW u \in [1..(n - 1) -> Int],
         \A i \in 1..(n - 1) : u[i] = s[i], NEW v \in Int
  PROVE  AtMost(u, v) <= AtMost(s, v) /\ AtMost(s, v) <= AtMost(u, v) + 1
<1>1. PICK S, U : S = {i \in DOMAIN s : s[i] <= v} /\ U = {i \in DOMAIN u : u[i] <= v}
  OBVIOUS
<1>2. n - 1 \in Nat /\ DOMAIN s = 1..n /\ DOMAIN u = 1..(n - 1)
  OBVIOUS
<1>3. IsFiniteSet(S) /\ IsFiniteSet(U) /\ Cardinality(S) \in Nat /\ Cardinality(U) \in Nat
  <2>1. IsFiniteSet(S) /\ Cardinality(S) \in Nat
    BY <1>1, AtMostIs DEF AtMost
  <2> QED BY <1>1, <1>2, <2>1, AtMostIs DEF AtMost
<1>4. U \in SUBSET S /\ n \notin U /\ (S = U \/ S = U \cup {n})
  <2>1. \A i \in 1..n : i # n => i \in 1..(n - 1)
    OBVIOUS
  <2>2. \A i \in 1..(n - 1) : i \in 1..n /\ i # n
    OBVIOUS
  <2> QED BY <1>1, <1>2, <2>1, <2>2
<1>5. Cardinality(U \cup {n}) = Cardinality(U) + 1
  BY <1>3, <1>4, FS_AddElement
<1>6. AtMost(s, v) = Cardinality(S) /\ AtMost(u, v) = Cardinality(U)
  BY <1>1 DEF AtMost
<1>7. Cardinality(S) = Cardinality(U) \/ Cardinality(S) = Cardinality(U) + 1
  BY <1>4, <1>5
<1> QED BY <1>3, <1>6, <1>7

LEMMA TwiceMedianIs ==
  ASSUME NEW n \in Nat \ {0}, NEW s \in [1..n -> Int]
  PROVE  /\ (n + 1) \div 2 \in 1..n /\ n \div 2 + 1 \in 1..n
         /\ TwiceMedian(s) = Ranked(s, (n + 1) \div 2) + Ranked(s, n \div 2 + 1)
         /\ TwiceMedian(s) \in Int
<1>1. Cardinality(DOMAIN s) = n
  <2>1. DOMAIN s = 1..n /\ Cardinality(1..n) = n
    BY FS_Interval
  <2> QED BY <2>1
<1>2. (n + 1) \div 2 \in 1..n /\ n \div 2 + 1 \in 1..n
  OBVIOUS
<1>3. Ranked(s, (n + 1) \div 2) \in Int /\ Ranked(s, n \div 2 + 1) \in Int
  BY <1>2, RankedIs
<1>4. TwiceMedian(s) = Ranked(s, (n + 1) \div 2) + Ranked(s, n \div 2 + 1)
  BY <1>1 DEF TwiceMedian
<1> QED BY <1>2, <1>3, <1>4

Between(p, q, r) == (p <= q /\ q <= r) \/ (r <= q /\ q <= p)

\* Counts of values up to v, with a value x more, and those of rank k.
Counts(A, B, x) ==
  /\ A \in [Int -> Int] /\ B \in [Int -> Int] /\ x \in Int
  /\ \A v \in Int : x <= v => B[v] = A[v] + 1
  /\ \A v \in Int : ~(x <= v) => B[v] = A[v]

Rank(A, k, a) == k \in Int /\ a \in Int /\ \A v \in Int : a <= v <=> A[v] >= k

\* The lower and the upper middle of an even number of values, and the middle of
\* these and x.
LEMMA EvenGrows ==
  ASSUME NEW A, NEW B, NEW x, NEW h, NEW a, NEW b, NEW c, Counts(A, B, x),
         Rank(A, h, a), Rank(A, h + 1, b), Rank(B, h + 1, c)
  PROVE  Between(a + b, c + c, 2 * x)
<1>1. /\ A \in [Int -> Int] /\ B \in [Int -> Int]
      /\ h \in Int /\ a \in Int /\ b \in Int /\ c \in Int /\ x \in Int
  BY DEF Counts, Rank
<1>2. /\ \A v \in Int : x <= v => B[v] = A[v] + 1
      /\ \A v \in Int : ~(x <= v) => B[v] = A[v]
  BY DEF Counts
<1>3. /\ \A v \in Int : a <= v <=> A[v] >= h
      /\ \A v \in Int : b <= v <=> A[v] >= h + 1
      /\ \A v \in Int : c <= v <=> B[v] >= h + 1
  BY DEF Rank
<1>4. a - 1 \in Int /\ b - 1 \in Int /\ x - 1 \in Int
  BY <1>1
<1>5. a <= b
  BY <1>1, <1>3
<1>6. CASE b <= x
  <2>1. c <= b
    BY <1>1, <1>2, <1>3
  <2>2. ~(c <= b - 1)
    BY <1>1, <1>2, <1>3, <1>4, <1>6
  <2> QED BY <1>1, <1>5, <1>6, <2>1, <2>2 DEF Between
<1>7. CASE x <= a
  <2>1. c <= a
    BY <1>1, <1>2, <1>3, <1>7
  <2>2. ~(c <= a - 1)
    <3>1. ~(A[a - 1] >= h)
      BY <1>1, <1>3, <1>4
    <3> QED BY <1>1, <1>2, <1>3, <1>4, <3>1
  <2> QED BY <1>1, <1>5, <1>7, <2>1, <2>2 DEF Between
<1>8. CASE a < x /\ x < b
  <2>1. c <= x
    BY <1>1, <1>2, <1>3, <1>8
  <2>2. ~(c <= x - 1)
    BY <1>1, <1>2, <1>3, <1>4, <1>8
  <2> QED BY <1>1, <1>8, <2>1, <2>2 DEF Between
<1> QED BY <1>1, <1>6, <1>7, <1>8

\* The middle of an odd number of values, and the middles of these and x.
LEMMA OddGrows ==
  ASSUME NEW A, NEW B, NEW x, NEW k, NEW a, NEW p, NEW q, Counts(A, B, x),
         Rank(A, k, a), Rank(B, k, p), Rank(B, k + 1, q)
  PROVE  Between(a + a, p + q, 2 * x)
<1>1. /\ A \in [Int -> Int] /\ B \in [Int -> Int]
      /\ k \in Int /\ a \in Int /\ p \in Int /\ q \in Int /\ x \in Int
  BY DEF Counts, Rank
<1>2. /\ \A v \in Int : x <= v => B[v] = A[v] + 1
      /\ \A v \in Int : ~(x <= v) => B[v] = A[v]
  BY DEF Counts
<1>3. /\ \A v \in Int : a <= v <=> A[v] >= k
      /\ \A v \in Int : p <= v <=> B[v] >= k
      /\ \A v \in Int : q <= v <=> B[v] >= k + 1
  BY DEF Rank
<1>4. a - 1 \in Int /\ x - 1 \in Int
  BY <1>1
<1>5. p <= q
  BY <1>1, <1>3
<1>6. CASE a <= x
  <2>1. p <= a
    BY <1>1, <1>2, <1>3
  <2>2. ~(p <= a - 1)
    BY <1>1, <1>2, <1>3, <1>4, <1>6
  <2>3. q <= x
    BY <1>1, <1>2, <1>3, <1>6
  <2> QED BY <1>1, <1>5, <1>6, <2>1, <2>2, <2>3 DEF Between
<1>7. CASE x <= a
  <2>1. q <= a
    BY <1>1, <1>2, <1>3, <1>7
  <2>2. ~(q <= a - 1)
    <3>1. ~(A[a - 1] >= k)
      BY <1>1, <1>3, <1>4
    <3> QED BY <1>1, <1>2, <1>3, <1>4, <3>1
  <2>3. ~(p <= x - 1)
    BY <1>1, <1>2, <1>3, <1>4, <1>7
  <2> QED BY <1>1, <1>5, <1>7, <2>1, <2>2, <2>3 DEF Between
<1> QED BY <1>1, <1>6, <1>7

\* The middle of an odd number of values, and of these with x for another one.
LEMMA OddExchanges ==
  ASSUME NEW A, NEW B, NEW C, NEW x, NEW k, NEW a, NEW c, Counts(C, B, x),
         A \in [Int -> Int], \A v \in Int : C[v] <= A[v] /\ A[v] <= C[v] + 1,
         Rank(A, k, a), Rank(B, k, c)
  PROVE  Between(a + a, c + c, 2 * x)
<1>1. /\ A \in [Int -> Int] /\ B \in [Int -> Int] /\ C \in [Int -> Int]
      /\ k \in Int /\ a \in Int /\ c \in Int /\ x \in Int
  BY DEF Counts, Rank
<1>2. /\ \A v \in Int : x <= v => B[v] = C[v] + 1
      /\ \A v \in Int : ~(x <= v) => B[v] = C[v]
  BY DEF Counts
<1>3. /\ \A v \in Int : a <= v <=> A[v] >= k
      /\ \A v \in Int : c <= v <=> B[v] >= k
  BY DEF Rank
<1>4. a - 1 \in Int /\ x - 1 \in Int
  BY <1>1
<1>5. CASE a <= x
  <2>1. c <= x
    BY <1>1, <1>2, <1>3, <1>5
  <2>2. ~(c <= a - 1)
    BY <1>1, <1>2, <1>3, <1>4, <1>5
  <2> QED BY <1>1, <1>5, <2>1, <2>2 DEF Between
<1>6. CASE x <= a
  <2>1. c <= a
    BY <1>1, <1>2, <1>3, <1>6
  <2>2. ~(c <= x - 1)
    BY <1>1, <1>2, <1>3, <1>4, <1>6
  <2> QED BY <1>1, <1>6, <2>1, <2>2 DEF Between
<1> QED BY <1>1, <1>5, <1>6

LEMMA CountsOf ==
  ASSUME NEW n \in Nat, NEW s \in [1..n -> Int]
  PROVE  \E A \in [Int -> Int] : \A v \in Int : A[v] = AtMost(s, v)
<1>1. \A v \in Int : AtMost(s, v) \in Int
  <2>1. ASSUME NEW v \in Int PROVE AtMost(s, v) \in Int
    <3>1. AtMost(s, v) \in Nat
      BY AtMostIs
    <3> QED BY <3>1
  <2> QED BY <2>1
<1>2. PICK A : A = [v \in Int |-> AtMost(s, v)]
  OBVIOUS
<1>3. A \in [Int -> Int] /\ \A v \in Int : A[v] = AtMost(s, v)
  BY <1>1, <1>2, Zenon
<1> QED BY <1>3

\* Values with x put first, all of the others or all but the last of an odd number.
Renewed(s, n, t, m) ==
  /\ n \in Nat \ {0} /\ s \in [1..n -> Int] /\ t \in [1..m -> Int]
  /\ m = n + 1 \/ (m = n /\ n % 2 = 1)
  /\ \A i \in 1..(m - 1) : t[i + 1] = s[i]

\* A median only moves towards a value that is put first.
LEMMA MedianMoves ==
  ASSUME NEW n, NEW s, NEW m, NEW t, Renewed(s, n, t, m)
  PROVE  Between(TwiceMedian(s), TwiceMedian(t), 2 * t[1])
<1>1. /\ n \in Nat \ {0} /\ s \in [1..n -> Int] /\ t \in [1..m -> Int] /\ m \in Nat \ {0}
      /\ m = n + 1 \/ (m = n /\ n % 2 = 1)
      /\ \A i \in 1..(m - 1) : t[i + 1] = s[i]
  BY DEF Renewed
<1>2. PICK A \in [Int -> Int] : \A v \in Int : A[v] = AtMost(s, v)
  <2>1. n \in Nat
    BY <1>1
  <2> QED BY <1>1, <2>1, CountsOf
<1>3. PICK B \in [Int -> Int] : \A v \in Int : B[v] = AtMost(t, v)
  <2>1. m \in Nat
    BY <1>1
  <2> QED BY <1>1, <2>1, CountsOf
<1>4. PICK u, C : /\ u \in [1..(m - 1) -> Int] /\ C \in [Int -> Int]
                  /\ \A i \in 1..(m - 1) : u[i] = s[i]
                  /\ \A v \in Int : C[v] = AtMost(u, v)
  <2>1. PICK u : u = [i \in 1..(m - 1) |-> s[i]]
    OBVIOUS
  <2>2. \A i \in 1..(m - 1) : i \in 1..n
    BY <1>1
  <2>3. u \in [1..(m - 1) -> Int] /\ \A i \in 1..(m - 1) : u[i] = s[i]
    BY <1>1, <2>1, <2>2
  <2>4. m - 1 \in Nat
    BY <1>1
  <2>5. PICK C \in [Int -> Int] : \A v \in Int : C[v] = AtMost(u, v)
    BY <2>3, <2>4, CountsOf
  <2> QED BY <2>3, <2>5
<1>5. PICK x : x = t[1] /\ x \in Int
  <2>1. 1 \in 1..m
    BY <1>1
  <2> QED BY <1>1, <2>1
<1>6. Counts(C, B, x)
  <2>1. m - 1 \in Nat /\ t \in [1..((m - 1) + 1) -> Int] /\ \A i \in 1..(m - 1) : t[i + 1] = u[i]
    <3>1. m - 1 \in Nat /\ (m - 1) + 1 = m
      BY <1>1
    <3>2. t \in [1..((m - 1) + 1) -> Int]
      BY <1>1, <3>1, Zenon
    <3>3. \A i \in 1..(m - 1) : t[i + 1] = u[i]
      BY <1>1, <1>4, Zenon
    <3> QED BY <3>1, <3>2, <3>3
  <2>2. ASSUME NEW v \in Int
        PROVE  /\ x <= v => B[v] = C[v] + 1
               /\ ~(x <= v) => B[v] = C[v]
    <3>1. /\ t[1] <= v => AtMost(t, v) = AtMost(u, v) + 1
          /\ ~(t[1] <= v) => AtMost(t, v) = AtMost(u, v)
      BY <1>4, <2>1, AtMostAdded
    <3> QED BY <1>3, <1>4, <1>5, <3>1
  <2> QED BY <1>3, <1>4, <1>5, <2>2 DEF Counts
<1>7. ASSUME NEW k \in 1..n PROVE Rank(A, k, Ranked(s, k))
  <2>1. k \in Int
    OBVIOUS
  <2>2. Ranked(s, k) \in Int /\ \A v \in Int : Ranked(s, k) <= v <=> AtMost(s, v) >= k
    BY <1>1, RankedIs
  <2> QED BY <1>2, <2>1, <2>2 DEF Rank
<1>8. ASSUME NEW k \in 1..m PROVE Rank(B, k, Ranked(t, k))
  <2>1. k \in Int
    OBVIOUS
  <2>2. Ranked(t, k) \in Int /\ \A v \in Int : Ranked(t, k) <= v <=> AtMost(t, v) >= k
    BY <1>1, RankedIs
  <2> QED BY <1>3, <2>1, <2>2 DEF Rank
<1>9. /\ (n + 1) \div 2 \in 1..n /\ n \div 2 + 1 \in 1..n
      /\ TwiceMedian(s) = Ranked(s, (n + 1) \div 2) + Ranked(s, n \div 2 + 1)
      /\ (m + 1) \div 2 \in 1..m /\ m \div 2 + 1 \in 1..m
      /\ TwiceMedian(t) = Ranked(t, (m + 1) \div 2) + Ranked(t, m \div 2 + 1)
  BY <1>1, TwiceMedianIs
<1>10. CASE m = n + 1
  <2>1. PICK h \in Nat : n = 2 * h \/ n = 2 * h + 1
    <3>1. n \in Nat
      BY <1>1
    <3>2. n \div 2 \in Nat /\ (n = 2 * (n \div 2) \/ n = 2 * (n \div 2) + 1)
      BY <3>1
    <3> QED BY <3>2
  <2>2. Counts(A, B, x)
    <3>1. \A i \in 1..n : i \in 1..(m - 1)
      BY <1>1, <1>10
    <3>2. m - 1 = n
      BY <1>1, <1>10
    <3>3. u = s
      BY <1>1, <1>4, <3>1, <3>2
    <3>4. C = A
      BY <1>2, <1>4, <3>3
    <3> QED BY <1>6, <3>4
  <2>3. CASE n = 2 * h
    <3>1. /\ (n + 1) \div 2 = h /\ n \div 2 + 1 = h + 1
          /\ (m + 1) \div 2 = h + 1 /\ m \div 2 + 1 = h + 1
      BY <1>1, <1>10, <2>1, <2>3
    <3>2. Rank(A, h, Ranked(s, h)) /\ Rank(A, h + 1, Ranked(s, h + 1))
          /\ Rank(B, h + 1, Ranked(t, h + 1))
      BY <1>7, <1>8, <1>9, <3>1
    <3>3. Between(Ranked(s, h) + Ranked(s, h + 1), Ranked(t, h + 1) + Ranked(t, h + 1), 2 * x)
      BY <2>2, <3>2, EvenGrows
    <3> QED BY <1>5, <1>9, <3>1, <3>3
  <2>4. CASE n = 2 * h + 1
    <3>1. /\ (n + 1) \div 2 = h + 1 /\ n \div 2 + 1 = h + 1
          /\ (m + 1) \div 2 = h + 1 /\ m \div 2 + 1 = (h + 1) + 1
      <4>1. m = 2 * h + 2 /\ h \in Nat
        BY <1>10, <2>1, <2>4
      <4> QED BY <2>4, <4>1
    <3>2. Rank(A, h + 1, Ranked(s, h + 1)) /\ Rank(B, h + 1, Ranked(t, h + 1))
          /\ Rank(B, (h + 1) + 1, Ranked(t, (h + 1) + 1))
      BY <1>7, <1>8, <1>9, <3>1
    <3>3. Between(Ranked(s, h + 1) + Ranked(s, h + 1),
                  Ranked(t, h + 1) + Ranked(t, (h + 1) + 1), 2 * x)
      BY <2>2, <3>2, OddGrows
    <3> QED BY <1>5, <1>9, <3>1, <3>3
  <2> QED BY <2>1, <2>3, <2>4
<1>11. CASE m = n /\ n % 2 = 1
  <2>1. PICK k : k = (n + 1) \div 2
    OBVIOUS
  <2>2. /\ (n + 1) \div 2 = k /\ n \div 2 + 1 = k
        /\ (m + 1) \div 2 = k /\ m \div 2 + 1 = k
    <3>1. n \in Nat
      BY <1>1
    <3>2. n \div 2 + 1 = (n + 1) \div 2
      BY <1>11, <3>1
    <3> QED BY <1>11, <2>1, <3>2
  <2>3. Rank(A, k, Ranked(s, k)) /\ Rank(B, k, Ranked(t, k))
    BY <1>7, <1>8, <1>9, <2>2
  <2>4. \A v \in Int : C[v] <= A[v] /\ A[v] <= C[v] + 1
    <3>1. ASSUME NEW v \in Int PROVE AtMost(u, v) <= AtMost(s, v) /\ AtMost(s, v) <= AtMost(u, v) + 1
      BY <1>1, <1>4, <1>11, AtMostCut
    <3> QED BY <1>2, <1>4, <3>1
  <2>5. Between(Ranked(s, k) + Ranked(s, k), Ranked(t, k) + Ranked(t, k), 2 * x)
    BY <1>2, <1>6, <2>3, <2>4, OddExchanges
  <2> QED BY <1>5, <1>9, <2>2, <2>5
<1> QED BY <1>1, <1>10, <1>11

LEMMA MiddlesAre ==
  ASSUME NEW n \in Nat \ {0}, NEW s \in [1..n -> Int]
  PROVE  \E i, j \in 1..n : TwiceMedian(s) = s[i] + s[j]
<1>1. /\ (n + 1) \div 2 \in 1..n /\ n \div 2 + 1 \in 1..n
      /\ TwiceMedian(s) = Ranked(s, (n + 1) \div 2) + Ranked(s, n \div 2 + 1)
  BY TwiceMedianIs
<1>2. PICK i \in 1..n : Ranked(s, (n + 1) \div 2) = s[i]
  BY <1>1, RankedIs
<1>3. PICK j \in 1..n : Ranked(s, n \div 2 + 1) = s[j]
  BY <1>1, RankedIs
<1> QED BY <1>1, <1>2, <1>3

-----------------------------------------------------------------------------
(* What the detectors find against a history that x was added to.          *)

\* The profiles of a history and of the next, which x is the first of.
RenewedHistory(old, n, new, m, x) ==
  /\ n \in Nat \ {0} /\ m \in Nat \ {0} /\ MinHistory <= n /\ MinHistory <= m
  /\ m = n + 1 \/ (m = n /\ n % 2 = 1)
  /\ DOMAIN old = 1..n /\ DOMAIN new = 1..m
  /\ new[1] = x /\ \A i \in 1..(m - 1) : new[i + 1] = old[i]
  /\ \A i \in 1..n : IsProfile(old[i]) /\ Alike(old[i], x)
  /\ \A i \in 1..m : IsProfile(new[i]) /\ Alike(new[i], x)

LEMMA ReferenceMoves ==
  ASSUME NEW n, NEW s, NEW m, NEW t, Renewed(s, n, t, m), MinHistory <= n, MinHistory <= m, NEW base
  PROVE  /\ HistoricalReference(s, base) = TwiceMedian(s)
         /\ HistoricalReference(t, base) = TwiceMedian(t)
         /\ TwiceMedian(s) \in Int /\ TwiceMedian(t) \in Int
         /\ Between(TwiceMedian(s), TwiceMedian(t), 2 * t[1])
<1>1. n \in Nat \ {0} /\ m \in Nat \ {0} /\ s \in [1..n -> Int] /\ t \in [1..m -> Int]
  BY DEF Renewed
<1>2. Cardinality(DOMAIN s) = n /\ Cardinality(DOMAIN t) = m
  <2>1. Cardinality(1..n) = n
    BY <1>1, FS_Interval
  <2>2. Cardinality(1..m) = m
    BY <1>1, FS_Interval
  <2>3. DOMAIN s = 1..n /\ DOMAIN t = 1..m
    BY <1>1
  <2> QED BY <2>1, <2>2, <2>3
<1>3. ~(n < MinHistory) /\ ~(m < MinHistory)
  BY <1>1, DetectionAssumption
<1>4. HistoricalReference(s, base) = TwiceMedian(s) /\ HistoricalReference(t, base) = TwiceMedian(t)
  BY <1>2, <1>3 DEF HistoricalReference
<1>5. TwiceMedian(s) \in Int /\ TwiceMedian(t) \in Int
  BY <1>1, TwiceMedianIs
<1> QED BY <1>4, <1>5, MedianMoves

LEMMA GradedIs ==
  ASSUME NEW amount \in Int, NEW warning \in Int, NEW critical
  PROVE  Graded(amount, warning, critical) = {} <=> amount < warning
  BY DEF Graded

LEMMA RowsNear ==
  ASSUME NEW t \in Nat, NEW u \in Nat, NEW y \in Nat, NEW w \in Nat, Between(t, u, y),
         t = 0 => y = 0, t # 0 => 100 * Abs(y - t) < w * t
  PROVE  (u = 0 => y = 0) /\ (u # 0 => 100 * Abs(y - u) < w * u)
<1>1. CASE t <= u /\ u <= y
  <2>1. w * t <= w * u
    <3>1. w * u = w * t + w * (u - t) /\ w * (u - t) >= 0
      <4>1. u - t \in Nat
        BY <1>1
      <4> QED BY <4>1
    <3> QED BY <3>1
  <2>2. CASE t = 0
    BY <1>1, <2>2 DEF Abs
  <2>3. CASE t # 0
    <3>1. Abs(y - t) = y - t /\ Abs(y - u) = y - u
      BY <1>1 DEF Abs
    <3>2. 100 * (y - t) < w * t
      BY <2>3, <3>1
    <3>3. 100 * (y - u) <= 100 * (y - t)
      BY <1>1
    <3>4. w * t \in Int /\ w * u \in Int
      OBVIOUS
    <3>5. 100 * (y - u) < w * u
      BY <2>1, <3>2, <3>3, <3>4
    <3> QED BY <1>1, <2>3, <3>1, <3>5
  <2> QED BY <2>2, <2>3
<1>2. CASE y <= u /\ u <= t
  <2>1. CASE u = 0
    BY <1>2, <2>1
  <2>2. CASE u # 0
    <3>1. Abs(y - t) = t - y /\ Abs(y - u) = u - y
      BY <1>2 DEF Abs
    <3>2. 100 * (t - y) < w * t
      BY <1>2, <2>2, <3>1
    <3>3. 100 * (u - y) < w * u
      <4>1. CASE w <= 100
        <5>1. PICK d \in Nat : d = 100 - w
          BY <4>1
        <5>2. d * t = 100 * t - w * t /\ d * u = 100 * u - w * u
          BY <5>1
        <5>3. d * u <= d * t
          <6>1. t - u \in Nat /\ d * t = d * u + d * (t - u)
            BY <1>2
          <6>2. d * (t - u) >= 0
            BY <6>1
          <6> QED BY <6>1, <6>2
        <5>4. w * t \in Int /\ w * u \in Int /\ d * u \in Int /\ d * t \in Int
          OBVIOUS
        <5> QED BY <3>2, <5>2, <5>3, <5>4
      <4>2. CASE w > 100
        <5>1. PICK d \in Nat \ {0} : w = 100 + d
          BY <4>2
        <5>2. w * u = 100 * u + d * u /\ d * u > 0
          BY <2>2, <5>1
        <5>3. d * u \in Int
          OBVIOUS
        <5> QED BY <5>2, <5>3
      <4> QED BY <4>1, <4>2
    <3> QED BY <2>2, <3>1, <3>3
  <2> QED BY <2>1, <2>2
<1> QED BY <1>1, <1>2 DEF Between

LEMMA RowCountStays ==
  ASSUME NEW old, NEW n, NEW new, NEW m, NEW x, NEW base, RenewedHistory(old, n, new, m, x),
         DetectRowCount(base, x, old) = {}
  PROVE  DetectRowCount(base, x, new) = {}
<1>1. PICK s, t : s = [i \in DOMAIN old |-> old[i].rows] /\ t = [i \in DOMAIN new |-> new[i].rows]
  OBVIOUS
<1>2. /\ n \in Nat \ {0} /\ m \in Nat \ {0} /\ DOMAIN old = 1..n /\ DOMAIN new = 1..m /\ new[1] = x
      /\ \A i \in 1..(m - 1) : new[i + 1] = old[i]
      /\ m = n + 1 \/ (m = n /\ n % 2 = 1)
  BY DEF RenewedHistory
<1>3. s \in [1..n -> Nat] /\ t \in [1..m -> Nat]
  <2>1. \A i \in 1..n : old[i].rows \in Nat
    BY DEF RenewedHistory, IsProfile
  <2>2. \A i \in 1..m : new[i].rows \in Nat
    BY DEF RenewedHistory, IsProfile
  <2> QED BY <1>1, <1>2, <2>1, <2>2
<1>4. Renewed(s, n, t, m)
  <2>1. s \in [1..n -> Int] /\ t \in [1..m -> Int]
    BY <1>3
  <2>2. \A i \in 1..(m - 1) : i \in 1..n /\ i + 1 \in 1..m
    BY <1>2
  <2>3. \A i \in 1..(m - 1) : t[i + 1] = s[i]
    BY <1>1, <1>2, <2>2
  <2> QED BY <1>2, <2>1, <2>3 DEF Renewed
<1>5. t[1] = x.rows /\ x.rows \in Nat
  <2>1. 1 \in 1..m
    BY <1>2
  <2> QED BY <1>1, <1>2, <1>3, <2>1
<1>6. PICK p, q : p = TwiceMedian(s) /\ q = TwiceMedian(t)
  OBVIOUS
<1>7. p \in Nat /\ q \in Nat
  <2>1. s \in [1..n -> Int] /\ t \in [1..m -> Int]
    BY <1>3
  <2>2. PICK i, j \in 1..n : p = s[i] + s[j]
    BY <1>2, <1>6, <2>1, MiddlesAre
  <2>3. PICK k, l \in 1..m : q = t[k] + t[l]
    BY <1>2, <1>6, <2>1, MiddlesAre
  <2> QED BY <1>3, <2>2, <2>3
<1>8. /\ HistoricalReference(s, base.rows) = p /\ HistoricalReference(t, base.rows) = q
      /\ Between(p, q, 2 * x.rows)
  <2>1. MinHistory <= n /\ MinHistory <= m
    BY DEF RenewedHistory
  <2> QED BY <1>4, <1>5, <1>6, <2>1, ReferenceMoves
<1>9. WarningRowChange \in Nat
  BY DetectionAssumption
<1>10. /\ p = 0 => 2 * x.rows = 0
       /\ p # 0 => 100 * Abs(2 * x.rows - p) < WarningRowChange * p
  <2>1. p = 0 => x.rows = 0
    BY <1>1, <1>8 DEF DetectRowCount
  <2>2. ASSUME p # 0 PROVE 100 * Abs(2 * x.rows - p) < WarningRowChange * p
    <3>1. Graded(100 * Abs(2 * x.rows - p), WarningRowChange * p, CriticalRowChange * p) = {}
      BY <1>1, <1>8, <2>2 DEF DetectRowCount
    <3>2. 100 * Abs(2 * x.rows - p) \in Int /\ WarningRowChange * p \in Int
      BY <1>5, <1>7, <1>9 DEF Abs
    <3> QED BY <3>1, <3>2, GradedIs
  <2> QED BY <2>1, <2>2
<1>11. /\ q = 0 => 2 * x.rows = 0
       /\ q # 0 => 100 * Abs(2 * x.rows - q) < WarningRowChange * q
  <2>1. 2 * x.rows \in Nat
    BY <1>5
  <2> QED BY <1>7, <1>8, <1>9, <1>10, <2>1, RowsNear
<1>12. q # 0 => Graded(100 * Abs(2 * x.rows - q), WarningRowChange * q, CriticalRowChange * q) = {}
  <2>1. 100 * Abs(2 * x.rows - q) \in Int /\ WarningRowChange * q \in Int
    BY <1>5, <1>7, <1>9 DEF Abs
  <2> QED BY <1>11, <2>1, GradedIs
<1>13. q = 0 => x.rows = 0
  BY <1>5, <1>11
<1> QED BY <1>1, <1>8, <1>12, <1>13 DEF DetectRowCount

LEMMA MeasuresAre ==
  ASSUME NEW history, NEW n \in Nat, DOMAIN history = 1..n, NEW c, NEW measure,
         \A i \in 1..n : /\ c \in DOMAIN history[i].columns
                         /\ history[i].columns[c][measure] \in Int
  PROVE  /\ Measures(history, c, measure) \in [1..n -> Int]
         /\ \A i \in 1..n : Measures(history, c, measure)[i] = history[i].columns[c][measure]
<1>1. PICK have : have = {i \in DOMAIN history : /\ c \in DOMAIN history[i].columns
                                                 /\ history[i].columns[c][measure] # Null}
  OBVIOUS
<1>2. have = 1..n
  BY <1>1, DetectionAssumption
<1>3. Measures(history, c, measure) = [i \in 1..n |-> history[i].columns[c][measure]]
  BY <1>1, <1>2 DEF Measures
<1> QED BY <1>3

LEMMA MeasuresRenewed ==
  ASSUME NEW old, NEW n, NEW new, NEW m, NEW x, RenewedHistory(old, n, new, m, x),
         NEW c, NEW measure,
         \A i \in 1..n : c \in DOMAIN old[i].columns /\ old[i].columns[c][measure] \in Int,
         \A i \in 1..m : c \in DOMAIN new[i].columns /\ new[i].columns[c][measure] \in Int
  PROVE  /\ Renewed(Measures(old, c, measure), n, Measures(new, c, measure), m)
         /\ Measures(new, c, measure)[1] = x.columns[c][measure]
<1>1. /\ n \in Nat /\ m \in Nat /\ n \in Nat \ {0} /\ m \in Nat \ {0}
      /\ DOMAIN old = 1..n /\ DOMAIN new = 1..m /\ new[1] = x
      /\ \A i \in 1..(m - 1) : new[i + 1] = old[i]
      /\ m = n + 1 \/ (m = n /\ n % 2 = 1)
  BY DEF RenewedHistory
<1>2. /\ Measures(old, c, measure) \in [1..n -> Int]
      /\ \A i \in 1..n : Measures(old, c, measure)[i] = old[i].columns[c][measure]
  BY <1>1, MeasuresAre
<1>3. /\ Measures(new, c, measure) \in [1..m -> Int]
      /\ \A i \in 1..m : Measures(new, c, measure)[i] = new[i].columns[c][measure]
  BY <1>1, MeasuresAre
<1>4. 1 \in 1..m /\ \A i \in 1..(m - 1) : i \in 1..n /\ i + 1 \in 1..m
  BY <1>1
<1>5. \A i \in 1..(m - 1) : Measures(new, c, measure)[i + 1] = Measures(old, c, measure)[i]
  BY <1>1, <1>2, <1>3, <1>4
<1> QED BY <1>1, <1>2, <1>3, <1>4, <1>5 DEF Renewed

\* The references before and after for a measure that all profiles have.
LEMMA MeasureMoves ==
  ASSUME NEW old, NEW n, NEW new, NEW m, NEW x, RenewedHistory(old, n, new, m, x),
         NEW c, NEW measure, NEW base,
         \A i \in 1..n : c \in DOMAIN old[i].columns /\ old[i].columns[c][measure] \in Int,
         \A i \in 1..m : c \in DOMAIN new[i].columns /\ new[i].columns[c][measure] \in Int
  PROVE  \E p, q \in Int :
           /\ HistoricalReference(Measures(old, c, measure), base) = p
           /\ HistoricalReference(Measures(new, c, measure), base) = q
           /\ Between(p, q, 2 * x.columns[c][measure])
           /\ \E i, j \in 1..n : p = old[i].columns[c][measure] + old[j].columns[c][measure]
           /\ \E i, j \in 1..m : q = new[i].columns[c][measure] + new[j].columns[c][measure]
<1>1. PICK s, t : s = Measures(old, c, measure) /\ t = Measures(new, c, measure)
  OBVIOUS
<1>2. /\ n \in Nat /\ m \in Nat /\ n \in Nat \ {0} /\ m \in Nat \ {0}
      /\ DOMAIN old = 1..n /\ DOMAIN new = 1..m /\ MinHistory <= n /\ MinHistory <= m
  BY DEF RenewedHistory
<1>3. Renewed(s, n, t, m) /\ t[1] = x.columns[c][measure]
  BY <1>1, MeasuresRenewed
<1>4. s \in [1..n -> Int] /\ \A i \in 1..n : s[i] = old[i].columns[c][measure]
  BY <1>1, <1>2, MeasuresAre
<1>5. t \in [1..m -> Int] /\ \A i \in 1..m : t[i] = new[i].columns[c][measure]
  BY <1>1, <1>2, MeasuresAre
<1>6. /\ HistoricalReference(s, base) = TwiceMedian(s)
      /\ HistoricalReference(t, base) = TwiceMedian(t)
      /\ TwiceMedian(s) \in Int /\ TwiceMedian(t) \in Int
      /\ Between(TwiceMedian(s), TwiceMedian(t), 2 * t[1])
  BY <1>2, <1>3, ReferenceMoves
<1>7. PICK i, j \in 1..n : TwiceMedian(s) = s[i] + s[j]
  BY <1>2, <1>4, MiddlesAre
<1>8. PICK k, l \in 1..m : TwiceMedian(t) = t[k] + t[l]
  BY <1>2, <1>5, MiddlesAre
<1>9. TwiceMedian(s) = old[i].columns[c][measure] + old[j].columns[c][measure]
  BY <1>4, <1>7
<1>10. TwiceMedian(t) = new[k].columns[c][measure] + new[l].columns[c][measure]
  BY <1>5, <1>8
<1> QED BY <1>1, <1>3, <1>6, <1>9, <1>10

\* Of a profile p that is like x: its column c.
LikeColumn(p, x, c) ==
  /\ c \in DOMAIN p.columns
  /\ p.columns[c].nulls \in Nat /\ p.columns[c].duplicates \in Nat
  /\ p.columns[c].median \in Int \cup {Null} /\ p.columns[c].spread \in Nat \cup {Null}
  /\ p.columns[c].spread = x.columns[c].spread
  /\ p.columns[c].median = Null <=> x.columns[c].median = Null
  /\ p.columns[c].median = Null \/ p.columns[c].median > 0

LEMMA ColumnsAre ==
  ASSUME NEW old, NEW n, NEW new, NEW m, NEW x, RenewedHistory(old, n, new, m, x),
         NEW c \in DOMAIN x.columns
  PROVE  /\ \A i \in 1..n : LikeColumn(old[i], x, c)
         /\ \A i \in 1..m : LikeColumn(new[i], x, c)
         /\ LikeColumn(x, x, c)
<1>1. /\ \A i \in 1..n : IsProfile(old[i]) /\ Alike(old[i], x)
      /\ \A i \in 1..m : IsProfile(new[i]) /\ Alike(new[i], x)
  BY DEF RenewedHistory
<1>2. ASSUME NEW p, IsProfile(p), Alike(p, x) PROVE LikeColumn(p, x, c)
  <2>1. c \in DOMAIN p.columns
    BY <1>2 DEF Alike
  <2> QED BY <1>2, <2>1 DEF Alike, IsProfile, LikeColumn
<1>3. 1 \in 1..m /\ new[1] = x
  BY DEF RenewedHistory
<1> QED BY <1>1, <1>2, <1>3

LEMMA NullsStay ==
  ASSUME NEW old, NEW n, NEW new, NEW m, NEW x, NEW base, RenewedHistory(old, n, new, m, x),
         WarningNullIncrease > 0, DetectNulls(base, x, old) = {}
  PROVE  DetectNulls(base, x, new) = {}
<1> DEFINE More(c, history) ==
             2 * x.columns[c].nulls
               - HistoricalReference(Measures(history, c, "nulls"), base.columns[c].nulls)
<1>1. WarningNullIncrease \in Nat /\ 2 * WarningNullIncrease \in Int
  BY DetectionAssumption
<1>2. ASSUME NEW c \in Shared(base, x)
      PROVE  Graded(More(c, new), 2 * WarningNullIncrease, 2 * CriticalNullIncrease) = {}
  <2>1. c \in DOMAIN x.columns
    BY DEF Shared
  <2>2. /\ \A i \in 1..n : LikeColumn(old[i], x, c)
        /\ \A i \in 1..m : LikeColumn(new[i], x, c)
        /\ LikeColumn(x, x, c)
    BY <2>1, ColumnsAre
  <2>3. /\ \A i \in 1..n : c \in DOMAIN old[i].columns /\ old[i].columns[c]["nulls"] \in Int
        /\ \A i \in 1..m : c \in DOMAIN new[i].columns /\ new[i].columns[c]["nulls"] \in Int
        /\ x.columns[c].nulls \in Nat
    BY <2>2 DEF LikeColumn
  <2>4. PICK p, q \in Int :
          /\ HistoricalReference(Measures(old, c, "nulls"), base.columns[c].nulls) = p
          /\ HistoricalReference(Measures(new, c, "nulls"), base.columns[c].nulls) = q
          /\ Between(p, q, 2 * x.columns[c]["nulls"])
    BY <2>3, MeasureMoves
  <2>5. PICK y \in Nat : y = x.columns[c].nulls /\ y = x.columns[c]["nulls"]
    BY <2>3
  <2>6. Graded(2 * y - p, 2 * WarningNullIncrease, 2 * CriticalNullIncrease) = {}
    BY <2>4, <2>5 DEF DetectNulls
  <2>7. 2 * y - p < 2 * WarningNullIncrease
    BY <1>1, <2>6, GradedIs
  <2>8. 2 * y - q < 2 * WarningNullIncrease
    BY <1>1, <2>4, <2>5, <2>7 DEF Between
  <2>9. Graded(2 * y - q, 2 * WarningNullIncrease, 2 * CriticalNullIncrease) = {}
    BY <1>1, <2>8, GradedIs
  <2> QED BY <2>4, <2>5, <2>9
<1> QED BY <1>2 DEF DetectNulls

LEMMA UniquenessStays ==
  ASSUME NEW old, NEW n, NEW new, NEW m, NEW x, NEW base, RenewedHistory(old, n, new, m, x),
         DetectUniqueness(base, x, old) = {}
  PROVE  DetectUniqueness(base, x, new) = {}
<1> DEFINE Repeated(c, history) ==
             IF 2 * x.columns[c].duplicates
                  - HistoricalReference(Measures(history, c, "duplicates"),
                                        base.columns[c].duplicates) < 2 * 2
             THEN {} ELSE Graded(x.columns[c].duplicates, 2, 10)
<1>1. ASSUME NEW c \in UniqueKeys \cap Shared(base, x) PROVE Repeated(c, new) = {}
  <2>1. c \in DOMAIN x.columns
    BY DEF Shared
  <2>2. /\ \A i \in 1..n : LikeColumn(old[i], x, c)
        /\ \A i \in 1..m : LikeColumn(new[i], x, c)
        /\ LikeColumn(x, x, c)
    BY <2>1, ColumnsAre
  <2>3. /\ \A i \in 1..n : c \in DOMAIN old[i].columns /\ old[i].columns[c]["duplicates"] \in Int
        /\ \A i \in 1..m : c \in DOMAIN new[i].columns /\ new[i].columns[c]["duplicates"] \in Int
        /\ x.columns[c].duplicates \in Nat
    BY <2>2 DEF LikeColumn
  <2>4. PICK p, q \in Int :
          /\ HistoricalReference(Measures(old, c, "duplicates"), base.columns[c].duplicates) = p
          /\ HistoricalReference(Measures(new, c, "duplicates"), base.columns[c].duplicates) = q
          /\ Between(p, q, 2 * x.columns[c]["duplicates"])
    BY <2>3, MeasureMoves
  <2>5. PICK y \in Nat : y = x.columns[c].duplicates /\ y = x.columns[c]["duplicates"]
    BY <2>3
  <2>6. (IF 2 * y - p < 2 * 2 THEN {} ELSE Graded(y, 2, 10)) = {}
    BY <2>4, <2>5 DEF DetectUniqueness
  <2>7. 2 * y - p < 2 * 2 => 2 * y - q < 2 * 2
    BY <2>4, <2>5 DEF Between
  <2>8. (IF 2 * y - q < 2 * 2 THEN {} ELSE Graded(y, 2, 10)) = {}
    BY <2>6, <2>7
  <2> QED BY <2>4, <2>5, <2>8
<1> QED BY <1>1 DEF DetectUniqueness

\* Twice the standard deviation that a history has for a column.
StdDev(c, base, history) ==
  IF /\ Cardinality(DOMAIN Measures(history, c, "median")) >= MinHistory
     /\ DOMAIN Measures(history, c, "spread") # {}
  THEN TwiceMedian(Measures(history, c, "spread"))
  ELSE IF base.columns[c].spread = Null THEN 0 ELSE 2 * base.columns[c].spread

\* It is the same for all histories of profiles that vary alike.
LEMMA StdDevIs ==
  ASSUME NEW history, NEW n \in Nat \ {0}, DOMAIN history = 1..n, MinHistory <= n, NEW c, NEW x,
         \A i \in 1..n : LikeColumn(history[i], x, c), LikeColumn(x, x, c),
         x.columns[c].median # Null, NEW base
  PROVE  StdDev(c, base, history) =
           IF x.columns[c].spread # Null THEN 2 * x.columns[c].spread
           ELSE IF base.columns[c].spread = Null THEN 0 ELSE 2 * base.columns[c].spread
<1>1. PICK medians, spreads : /\ medians = Measures(history, c, "median")
                              /\ spreads = Measures(history, c, "spread")
  OBVIOUS
<1>2. Cardinality(DOMAIN medians) >= MinHistory
  <2>1. \A i \in 1..n : /\ c \in DOMAIN history[i].columns
                        /\ history[i].columns[c]["median"] \in Int
    BY DEF LikeColumn
  <2>2. n \in Nat
    OBVIOUS
  <2>3. medians \in [1..n -> Int]
    BY <1>1, <2>1, <2>2, MeasuresAre
  <2>4. Cardinality(1..n) = n
    BY <2>2, FS_Interval
  <2>5. DOMAIN medians = 1..n
    BY <2>3
  <2> QED BY <2>4, <2>5, DetectionAssumption
<1>3. CASE x.columns[c].spread = Null
  <2>1. \A i \in 1..n : history[i].columns[c]["spread"] = Null
    BY <1>3 DEF LikeColumn
  <2>2. DOMAIN spreads = {}
    BY <1>1, <2>1 DEF Measures
  <2> QED BY <1>1, <1>3, <2>2 DEF StdDev
<1>4. CASE x.columns[c].spread # Null
  <2>1. PICK y \in Nat : y = x.columns[c].spread
    BY <1>4 DEF LikeColumn
  <2>2. \A i \in 1..n : /\ c \in DOMAIN history[i].columns
                        /\ history[i].columns[c]["spread"] = y
    BY <2>1 DEF LikeColumn
  <2>3. spreads \in [1..n -> Int] /\ \A i \in 1..n : spreads[i] = y
    BY <1>1, <2>2, MeasuresAre
  <2>4. PICK i, j \in 1..n : TwiceMedian(spreads) = spreads[i] + spreads[j]
    BY <2>3, MiddlesAre
  <2>5. TwiceMedian(spreads) = 2 * y
    BY <2>3, <2>4
  <2>6. DOMAIN spreads # {}
    BY <2>3
  <2> QED BY <1>1, <1>2, <1>4, <2>1, <2>5, <2>6 DEF StdDev
<1> QED BY <1>3, <1>4

\* A positive value that is no drift against a median is none against one nearer.
LEMMA DriftNear ==
  ASSUME NEW t \in Int, NEW u \in Int, NEW y \in Int, t > 0, u > 0, y > 0, Between(t, u, y),
         NEW sd \in Int, NumericDrift(t, y, sd) = {}
  PROVE  NumericDrift(u, y, sd) = {}
<1>1. PICK w, k : w \in Nat /\ w = WarningNumericFactor /\ k = CriticalNumericFactor
  BY DetectionAssumption
<1>2. PICK F : F = [v \in Int |-> Graded(Larger(Abs(v), Abs(y)), w * Smaller(Abs(v), Abs(y)),
                                         k * Smaller(Abs(v), Abs(y)))]
  OBVIOUS
<1>3. PICK G : G = [v \in Int |-> Graded(Abs(y - v), 3 * sd, 5 * sd)]
  OBVIOUS
<1>4. ASSUME NEW v \in Int, v > 0
      PROVE  NumericDrift(v, y, sd) =
               IF F[v] # {} THEN F[v]
               ELSE IF sd > 0 /\ 100 * Abs(y - v) >= 20 * Abs(v) THEN G[v] ELSE {}
  <2>1. v # 0 /\ y # 0 /\ (v > 0) = (y > 0)
    BY <1>4
  <2>2. F[v] = Graded(Larger(Abs(v), Abs(y)), w * Smaller(Abs(v), Abs(y)),
                      k * Smaller(Abs(v), Abs(y)))
    BY <1>2
  <2>3. G[v] = Graded(Abs(y - v), 3 * sd, 5 * sd)
    BY <1>3
  <2> QED BY <1>1, <2>1, <2>2, <2>3 DEF NumericDrift
<1>5. ASSUME NEW v \in Int, v > 0
      PROVE  F[v] = {} <=> (IF v > y THEN v ELSE y) < w * (IF v < y THEN v ELSE y)
  <2>1. F[v] = Graded(Larger(Abs(v), Abs(y)), w * Smaller(Abs(v), Abs(y)),
                      k * Smaller(Abs(v), Abs(y)))
    BY <1>2
  <2>2. Abs(v) = v /\ Abs(y) = y
    BY <1>5 DEF Abs
  <2>3. PICK big, small \in Int : /\ big = (IF v > y THEN v ELSE y) /\ big = Larger(v, y)
                                  /\ small = (IF v < y THEN v ELSE y) /\ small = Smaller(v, y)
    BY DEF Larger, Smaller
  <2>4. F[v] = Graded(big, w * small, k * small)
    BY <2>1, <2>2, <2>3
  <2>5. w * small \in Int
    BY <1>1
  <2> QED BY <2>3, <2>4, <2>5, GradedIs
<1>6. ASSUME NEW v \in Int PROVE G[v] = {} <=> Abs(y - v) < 3 * sd
  <2>1. Abs(y - v) \in Int /\ 3 * sd \in Int
    BY DEF Abs
  <2> QED BY <1>3, <2>1, GradedIs
<1>7. F[t] = {} /\ (sd > 0 /\ 100 * Abs(y - t) >= 20 * Abs(t) => G[t] = {})
  BY <1>4
<1>8. F[u] = {}
  <2>1. (IF t > y THEN t ELSE y) < w * (IF t < y THEN t ELSE y)
    BY <1>5, <1>7
  <2>2. CASE t <= u /\ u <= y
    <3>1. y < w * t
      BY <2>1, <2>2
    <3>2. w * t <= w * u
      <4>1. PICK d \in Nat : u = t + d
        BY <2>2
      <4>2. w * u = w * t + w * d /\ w * d >= 0
        BY <1>1, <4>1
      <4>3. w * t \in Int /\ w * d \in Int
        BY <1>1
      <4> QED BY <4>2, <4>3
    <3>3. w * t \in Int /\ w * u \in Int
      BY <1>1
    <3>4. y < w * u
      BY <3>1, <3>2, <3>3
    <3> QED BY <1>5, <2>2, <3>4
  <2>3. CASE y <= u /\ u <= t
    <3>1. t < w * y
      BY <2>1, <2>3
    <3>2. w * y \in Int
      BY <1>1
    <3>3. u < w * y
      BY <2>3, <3>1, <3>2
    <3> QED BY <1>5, <2>3, <3>3
  <2> QED BY <2>2, <2>3 DEF Between
<1>9. sd > 0 /\ 100 * Abs(y - u) >= 20 * Abs(u) => G[u] = {}
  <2>1. \/ ~(sd > 0) \/ 100 * Abs(y - t) < 20 * Abs(t) \/ Abs(y - t) < 3 * sd
    <3>1. 100 * Abs(y - t) \in Int /\ 20 * Abs(t) \in Int
      BY DEF Abs
    <3> QED BY <1>6, <1>7, <3>1
  <2>2. Abs(y - u) <= Abs(y - t)
    BY DEF Abs, Between
  <2>3. 100 * Abs(y - t) < 20 * Abs(t) => 100 * Abs(y - u) < 20 * Abs(u)
    BY DEF Abs, Between
  <2>4. Abs(y - u) \in Int /\ Abs(y - t) \in Int /\ Abs(u) \in Int /\ Abs(t) \in Int
    BY DEF Abs
  <2>5. Abs(y - t) < 3 * sd => G[u] = {}
    BY <1>6, <2>2, <2>4
  <2> QED BY <2>1, <2>3, <2>4, <2>5
<1> QED BY <1>4, <1>8, <1>9

LEMMA NumericStays ==
  ASSUME NEW old, NEW n, NEW new, NEW m, NEW x, NEW base, RenewedHistory(old, n, new, m, x),
         IsProfile(base), DetectNumeric(base, x, old) = {}
  PROVE  DetectNumeric(base, x, new) = {}
<1> DEFINE Median(c, history) ==
             HistoricalReference(Measures(history, c, "median"), base.columns[c].median)
           Compared == {c \in Shared(base, x) : /\ base.columns[c].median # Null
                                                /\ x.columns[c].median # Null}
<1>1. ASSUME NEW history
      PROVE  DetectNumeric(base, x, history) =
               UNION {NumericDrift(Median(c, history), 2 * x.columns[c].median,
                                   StdDev(c, base, history)) : c \in Compared}
  BY DEF DetectNumeric, StdDev
<1>2. ASSUME NEW c \in Compared
      PROVE  NumericDrift(Median(c, new), 2 * x.columns[c].median, StdDev(c, base, new)) = {}
  <2>1. c \in DOMAIN x.columns /\ c \in DOMAIN base.columns /\ x.columns[c].median # Null
    BY DEF Shared
  <2>2. /\ \A i \in 1..n : LikeColumn(old[i], x, c)
        /\ \A i \in 1..m : LikeColumn(new[i], x, c)
        /\ LikeColumn(x, x, c)
    BY <2>1, ColumnsAre
  <2>3. /\ \A i \in 1..n : /\ c \in DOMAIN old[i].columns /\ old[i].columns[c]["median"] \in Int
                           /\ old[i].columns[c]["median"] > 0
        /\ \A i \in 1..m : /\ c \in DOMAIN new[i].columns /\ new[i].columns[c]["median"] \in Int
                           /\ new[i].columns[c]["median"] > 0
        /\ x.columns[c].median \in Int /\ x.columns[c].median > 0
    BY <2>1, <2>2 DEF LikeColumn
  <2>4. PICK p, q \in Int :
          /\ Median(c, old) = p /\ Median(c, new) = q
          /\ Between(p, q, 2 * x.columns[c]["median"])
          /\ \E i, j \in 1..n : p = old[i].columns[c]["median"] + old[j].columns[c]["median"]
          /\ \E i, j \in 1..m : q = new[i].columns[c]["median"] + new[j].columns[c]["median"]
    BY <2>3, MeasureMoves
  <2>5. p > 0 /\ q > 0
    BY <2>3, <2>4
  <2>6. PICK y \in Int : y = 2 * x.columns[c].median /\ y > 0 /\ Between(p, q, y)
    BY <2>3, <2>4
  <2>7. PICK sd : sd = StdDev(c, base, old)
    OBVIOUS
  <2>8. sd = StdDev(c, base, new) /\ sd \in Int
    <3>1. /\ n \in Nat \ {0} /\ m \in Nat \ {0} /\ DOMAIN old = 1..n /\ DOMAIN new = 1..m
          /\ MinHistory <= n /\ MinHistory <= m
      BY DEF RenewedHistory
    <3>2. StdDev(c, base, old) =
            IF x.columns[c].spread # Null THEN 2 * x.columns[c].spread
            ELSE IF base.columns[c].spread = Null THEN 0 ELSE 2 * base.columns[c].spread
      BY <2>1, <2>2, <3>1, StdDevIs
    <3>3. StdDev(c, base, new) =
            IF x.columns[c].spread # Null THEN 2 * x.columns[c].spread
            ELSE IF base.columns[c].spread = Null THEN 0 ELSE 2 * base.columns[c].spread
      BY <2>1, <2>2, <3>1, StdDevIs
    <3>4. x.columns[c].spread \in Nat \cup {Null} /\ base.columns[c].spread \in Nat \cup {Null}
      BY <2>1, <2>2 DEF LikeColumn, IsProfile
    <3> QED BY <2>7, <3>2, <3>3, <3>4
  <2>9. NumericDrift(p, y, sd) = {}
    BY <1>1, <2>4, <2>6, <2>7
  <2>10. NumericDrift(q, y, sd) = {}
    BY <2>5, <2>6, <2>8, <2>9, DriftNear
  <2> QED BY <2>4, <2>6, <2>8, <2>10
<1> QED BY <1>1, <1>2

\* A history of profiles is not longer than the window, so it is used in full.
LEMMA ProfileStays ==
  ASSUME NEW old, NEW n, NEW new, NEW m, NEW x, NEW base, RenewedHistory(old, n, new, m, x),
         old \in Seq(Profiles), Len(old) = n, n <= HistoryWindow,
         new \in Seq(Profiles), Len(new) = m, m <= HistoryWindow,
         IsProfile(base), WarningNullIncrease > 0,
         DetectProfileChanges(base, x, old) = {}
  PROVE  DetectProfileChanges(base, x, new) = {}
<1>1. n \in Nat /\ m \in Nat /\ HistoryWindow \in Nat
  BY ScanLimitIs DEF RenewedHistory
<1>2. Smaller(n, HistoryWindow) = n /\ Smaller(m, HistoryWindow) = m
  BY <1>1 DEF Smaller
<1>3. SubSeq(old, 1, n) = old /\ SubSeq(new, 1, m) = new
  BY SubSeqFull
<1>4. /\ DetectSchema(base, x) = {} /\ DetectRowCount(base, x, old) = {}
      /\ DetectNulls(base, x, old) = {} /\ DetectNumeric(base, x, old) = {}
      /\ DetectCategories(base, x) = {} /\ DetectUniqueness(base, x, old) = {}
  BY <1>2, <1>3 DEF DetectProfileChanges
<1>5. DetectRowCount(base, x, new) = {}
  BY <1>4, RowCountStays
<1>6. DetectNulls(base, x, new) = {}
  BY <1>4, NullsStay
<1>7. DetectNumeric(base, x, new) = {}
  BY <1>4, NumericStays
<1>8. DetectUniqueness(base, x, new) = {}
  BY <1>4, UniquenessStays
<1> QED BY <1>2, <1>3, <1>4, <1>5, <1>6, <1>7, <1>8 DEF DetectProfileChanges

-----------------------------------------------------------------------------
(* Short outages.                                                          *)

\* The n-th positions when one before all others is added.
LEMMA NthAdded ==
  ASSUME NEW last \in Nat, NEW older \in SUBSET (1..last), NEW k, k \in 1..last, \A i \in older : i > k,
         NEW ids, ids = older \cup {k}
  PROVE  /\ Cardinality(ids) = Cardinality(older) + 1
         /\ Nth(ids, 1) = k
         /\ \A i \in 1..Cardinality(older) : Nth(ids, i + 1) = Nth(older, i)
<1>1. /\ IsFiniteSet(older) /\ Cardinality(older) \in Nat /\ k \in Nat /\ k \notin older
      /\ ids \in SUBSET (1..last)
      /\ \A i \in older : i \in Nat
  <2>1. IsFiniteSet(older) /\ Cardinality(older) \in Nat
    BY CountIs
  <2>2. k \in Nat /\ ~(k > k) /\ \A i \in older : i \in Nat
    OBVIOUS
  <2>3. k \notin older
    BY <2>2
  <2> QED BY <2>1, <2>2, <2>3
<1>2. Cardinality(ids) = Cardinality(older) + 1
  BY <1>1, FS_AddElement
<1>3. Count(ids, k) = 1
  <2>1. {j \in ids : j <= k} = {k}
    <3>1. ASSUME NEW j \in ids PROVE j <= k <=> j = k
      <4>1. k <= k
        BY <1>1
      <4>2. j \in older => j \in Nat /\ j > k
        BY <1>1
      <4>3. j \in older => ~(j <= k) /\ j # k
        BY <1>1, <4>2
      <4> QED BY <4>1, <4>3
    <3>2. k \in ids
      OBVIOUS
    <3> QED BY <3>1, <3>2
  <2>2. Cardinality({k}) = 1
    BY FS_Singleton
  <2> QED BY <2>1, <2>2 DEF Count
<1>4. Nth(ids, 1) = k
  <2>1. 1 \in 1..Cardinality(ids) /\ k \in ids
    BY <1>1, <1>2
  <2> QED BY <1>1, <1>3, <2>1, NthIs
<1>5. ASSUME NEW i \in 1..Cardinality(older) PROVE Nth(ids, i + 1) = Nth(older, i)
  <2>0. Nth(older, i) \in older /\ Count(older, Nth(older, i)) = i
    BY NthIs
  <2>1. PICK j \in older : j = Nth(older, i) /\ Count(older, j) = i
    BY <2>0
  <2>2. PICK some, all : some = {l \in older : l <= j} /\ all = {l \in ids : l <= j}
    OBVIOUS
  <2>3. all = some \cup {k} /\ k \notin some
    <3>1. k <= j
      BY <1>1
    <3> QED BY <1>1, <2>2, <3>1
  <2>4. IsFiniteSet(some) /\ Cardinality(some) = i
    <3>1. j \in Nat
      BY <1>1
    <3>2. IsFiniteSet(some)
      BY <2>2, <3>1, CountIs
    <3> QED BY <2>1, <2>2, <3>2 DEF Count
  <2>5. Cardinality(all) = i + 1
    BY <2>3, <2>4, FS_AddElement
  <2>6. Count(ids, j) = i + 1
    BY <2>2, <2>5 DEF Count
  <2>7. i + 1 \in 1..Cardinality(ids) /\ j \in ids
    BY <1>1, <1>2
  <2> QED BY <1>1, <2>1, <2>6, <2>7, NthIs
<1> QED BY <1>2, <1>4, <1>5

\* The history of the observations at positions ids, all Healthy.
LEMMA NewestAre ==
  ASSUME TypeInv, NEW ids \in SUBSET References(recent), NEW n,
         n = Smaller(Cardinality(ids), HistoryWindow)
  PROVE  /\ n \in Nat /\ n <= HistoryWindow /\ n <= Cardinality(ids) /\ Cardinality(ids) \in Nat
         /\ NewestProfiles(recent, ids) \in Seq(Profiles)
         /\ Len(NewestProfiles(recent, ids)) = n
         /\ DOMAIN NewestProfiles(recent, ids) = 1..n
         /\ \A i \in 1..n : /\ Nth(ids, i) \in ids
                            /\ NewestProfiles(recent, ids)[i] = recent[Nth(ids, i)].profile
<1>1. PICK last \in Nat : last = Len(recent) /\ ids \in SUBSET (1..last)
  BY RecentIs DEF References
<1>2. Cardinality(ids) \in Nat /\ HistoryWindow \in Nat
  BY <1>1, CountIs, ScanLimitIs
<1>3. n \in Nat /\ n <= HistoryWindow /\ n <= Cardinality(ids)
  BY <1>2 DEF Smaller
<1>4. ASSUME NEW i \in 1..n PROVE Nth(ids, i) \in ids /\ recent[Nth(ids, i)].profile \in Profiles
  <2>1. i \in 1..Cardinality(ids)
    BY <1>2, <1>3
  <2>2. Nth(ids, i) \in ids
    BY <1>1, <2>1, NthIs
  <2>3. PICK j \in ids : j = Nth(ids, i)
    BY <2>2
  <2>4. j \in DOMAIN recent /\ recent[j].profile # Null
    BY DEF References, Reference
  <2>5. recent[j].profile \in Profiles \cup {Null}
    BY <2>4, RecentIs DEF Observation
  <2> QED BY <2>2, <2>3, <2>4, <2>5
<1>5. PICK h : h = NewestProfiles(recent, ids)
  OBVIOUS
<1>6. h = [i \in 1..n |-> recent[Nth(ids, i)].profile]
  BY <1>5 DEF NewestProfiles
<1>7. h \in [1..n -> Profiles] /\ \A i \in 1..n : h[i] = recent[Nth(ids, i)].profile
  BY <1>4, <1>6
<1>8. h \in Seq(Profiles)
  BY <1>3, <1>7, SeqDef
<1>9. Len(h) = n /\ DOMAIN h = 1..n
  BY <1>3, <1>7, <1>8, LenProperties
<1> QED BY <1>2, <1>3, <1>4, <1>5, <1>7, <1>8, <1>9

\* The history now, after an observation k that is the newest of the Healthy ones,
\* and the one it was judged with, which it was added to.
LEMMA HistoryRenewed ==
  ASSUME TypeInv, OddWindowOfLikeProfiles, NEW k \in DOMAIN recent, Reference(recent[k]),
         \A i \in 1..(k - 1) : ~Reference(recent[i]),
         Cardinality(Older(k)) >= MinHistory
  PROVE  \E n, m :
           LET old == NewestProfiles(recent, Older(k))
               new == ReferenceObservations(recent)
           IN  /\ RenewedHistory(old, n, new, m, recent[k].profile)
               /\ old \in Seq(Profiles) /\ Len(old) = n /\ n <= HistoryWindow
               /\ new \in Seq(Profiles) /\ Len(new) = m /\ m <= HistoryWindow
<1>1. PICK last \in Nat : last = Len(recent) /\ DOMAIN recent = 1..last
  BY RecentIs
<1>2. PICK older, ids : older = Older(k) /\ ids = References(recent)
  OBVIOUS
<1>3. /\ older \in SUBSET (1..last) /\ ids \in SUBSET (1..last) /\ k \in 1..last /\ k \in Nat
      /\ older \in SUBSET References(recent) /\ ids \in SUBSET References(recent)
      /\ \A i \in older : i > k
  BY <1>1, <1>2 DEF Older, References
<1>4. ids = older \cup {k}
  <2>1. ASSUME NEW i \in ids PROVE i \in older \/ i = k
    <3>1. i \in Nat /\ i >= 1 /\ Reference(recent[i])
      BY <1>1, <1>2 DEF References
    <3>2. ~(i \in 1..(k - 1))
      BY <3>1
    <3>3. i > k \/ i = k
      BY <1>3, <3>1, <3>2
    <3> QED BY <1>2, <3>3 DEF Older
  <2>2. k \in ids /\ \A i \in older : i \in ids
    BY <1>2 DEF Older, References
  <2> QED BY <2>1, <2>2
<1>5. /\ Cardinality(ids) = Cardinality(older) + 1
      /\ Nth(ids, 1) = k
      /\ \A i \in 1..Cardinality(older) : Nth(ids, i + 1) = Nth(older, i)
  <2>1. last \in Nat /\ older \in SUBSET (1..last) /\ k \in 1..last /\ \A i \in older : i > k
    BY <1>1, <1>3
  <2>2. ids = older \cup {k}
    BY <1>4
  <2>3. Cardinality(ids) = Cardinality(older) + 1
    BY <2>1, <2>2, NthAdded
  <2>4. Nth(ids, 1) = k
    BY <2>1, <2>2, NthAdded
  <2>5. \A i \in 1..Cardinality(older) : Nth(ids, i + 1) = Nth(older, i)
    BY <2>1, <2>2, NthAdded
  <2> QED BY <2>3, <2>4, <2>5
<1>6. PICK n, m : /\ n = Smaller(Cardinality(older), HistoryWindow)
                  /\ m = Smaller(Cardinality(ids), HistoryWindow)
  OBVIOUS
<1>7. PICK old, new : old = NewestProfiles(recent, older) /\ new = NewestProfiles(recent, ids)
  OBVIOUS
<1>8. /\ n \in Nat /\ n <= HistoryWindow /\ n <= Cardinality(older) /\ Cardinality(older) \in Nat
      /\ old \in Seq(Profiles) /\ Len(old) = n /\ DOMAIN old = 1..n
      /\ \A i \in 1..n : Nth(older, i) \in older /\ old[i] = recent[Nth(older, i)].profile
  BY <1>3, <1>6, <1>7, NewestAre
<1>9. /\ m \in Nat /\ m <= HistoryWindow /\ m <= Cardinality(ids)
      /\ new \in Seq(Profiles) /\ Len(new) = m /\ DOMAIN new = 1..m
      /\ \A i \in 1..m : Nth(ids, i) \in ids /\ new[i] = recent[Nth(ids, i)].profile
  BY <1>3, <1>6, <1>7, NewestAre
<1>10. /\ n \in Nat \ {0} /\ m \in Nat \ {0} /\ MinHistory <= n /\ MinHistory <= m
       /\ m = n + 1 \/ (m = n /\ n % 2 = 1)
  <2>1. /\ HistoryWindow \in Nat /\ HistoryWindow % 2 = 1
        /\ MinHistory \in Nat /\ MinHistory >= 2 /\ MinHistory <= HistoryWindow
        /\ Cardinality(older) >= MinHistory
    BY <1>2, DetectionAssumption DEF OddWindowOfLikeProfiles
  <2>2. CASE Cardinality(older) < HistoryWindow
    <3>1. n = Cardinality(older) /\ m = n + 1
      BY <1>5, <1>6, <1>8, <2>1, <2>2 DEF Smaller
    <3> QED BY <1>8, <2>1, <3>1
  <2>3. CASE ~(Cardinality(older) < HistoryWindow)
    <3>1. n = HistoryWindow /\ m = HistoryWindow
      <4>1. Cardinality(ids) = Cardinality(older) + 1 /\ Cardinality(older) \in Nat
        BY <1>5, <1>8
      <4> QED BY <1>6, <2>1, <2>3, <4>1 DEF Smaller
    <3> QED BY <2>1, <3>1
  <2> QED BY <2>2, <2>3
<1>11. new[1] = recent[k].profile
  <2>1. 1 \in 1..m
    BY <1>10
  <2> QED BY <1>5, <1>9, <2>1
<1>12. ASSUME NEW i \in 1..(m - 1) PROVE new[i + 1] = old[i]
  <2>1. i + 1 \in 1..m /\ i \in 1..Cardinality(older) /\ i \in 1..n
    BY <1>5, <1>8, <1>9, <1>10
  <2> QED BY <1>5, <1>8, <1>9, <2>1
<1>13. ASSUME NEW i \in ids
       PROVE  IsProfile(recent[i].profile) /\ Alike(recent[i].profile, recent[k].profile)
  <2>1. i \in DOMAIN recent /\ Reference(recent[i])
    BY <1>2 DEF References
  <2>2. recent[i].profile \in Profiles
    BY <2>1, RecentIs DEF Observation, Reference
  <2>3. IsProfile(recent[i].profile)
    BY <2>2, JudgementAssumption DEF Profiles
  <2> QED BY <2>1, <2>3 DEF OddWindowOfLikeProfiles
<1>14. \A i \in 1..n : IsProfile(old[i]) /\ Alike(old[i], recent[k].profile)
  BY <1>4, <1>8, <1>13
<1>15. \A i \in 1..m : IsProfile(new[i]) /\ Alike(new[i], recent[k].profile)
  BY <1>9, <1>13
<1>16. RenewedHistory(old, n, new, m, recent[k].profile)
  BY <1>8, <1>9, <1>10, <1>11, <1>12, <1>14, <1>15 DEF RenewedHistory
<1>17. old = NewestProfiles(recent, Older(k)) /\ new = ReferenceObservations(recent)
  BY <1>2, <1>7 DEF ReferenceObservations, References
<1> QED BY <1>8, <1>9, <1>16, <1>17

LEMMA OutageForgiven ==
  ASSUME TypeInv, HistoryInv PROVE ShortOutageForgiven
<1> SUFFICES ASSUME OddWindowOfLikeProfiles, NEW k \in DOMAIN recent, SameReference(k),
                    Reference(recent[k]), HealthyBefore(k) >= MinHistory
             PROVE  Findings(recent[k].profile) = {}
  BY DEF ShortOutageForgiven
<1>1. PICK x, base : x = recent[k].profile /\ base = baseline
  OBVIOUS
<1>2. k <= since /\ (\A i \in 1..(k - 1) : ~Reference(recent[i]))
      /\ (HealthyBefore(k) >= HistoryWindow \/ Len(recent) < ScanLimit)
  BY DEF SameReference
<1>3. PICK before \in Seq(Observation) : Judged(k, before)
  BY <1>2 DEF HistoryInv
<1>4. base # Null /\ IsProfile(base)
  <2>1. k \in Nat \ {0} /\ since \in Nat
    BY RecentIs DEF TypeInv
  <2>2. baseline # Null /\ baseline \in Profiles
    BY <1>2, <2>1 DEF TypeInv
  <2> QED BY <1>1, <2>2, JudgementAssumption DEF Profiles
<1>5. FindingsOf(base, x, before) = {}
  <2>1. recent[k].profile # Null /\ recent[k].healthy
    BY DEF Reference
  <2>2. ~recent[k].flagged
    BY <2>1 DEF HistoryInv
  <2> QED BY <1>1, <1>3, <2>1, <2>2 DEF Judged
<1>6. /\ ReferenceObservations(before) = NewestProfiles(recent, Older(k))
      /\ HealthyBefore(k) = Cardinality(Older(k))
  BY <1>2, <1>3, ReferencesBefore
<1>7. PICK old, new : old = NewestProfiles(recent, Older(k)) /\ new = ReferenceObservations(recent)
  OBVIOUS
<1>8. PICK n, m : /\ RenewedHistory(old, n, new, m, x)
                  /\ old \in Seq(Profiles) /\ Len(old) = n /\ n <= HistoryWindow
                  /\ new \in Seq(Profiles) /\ Len(new) = m /\ m <= HistoryWindow
  BY <1>1, <1>2, <1>6, <1>7, HistoryRenewed
<1>9. EvaluateDataRules(x) = {} /\ DetectProfileChanges(base, x, old) = {}
  BY <1>4, <1>5, <1>6, <1>7 DEF FindingsOf
<1>10. WarningNullIncrease > 0
  BY DEF OddWindowOfLikeProfiles
<1>11. DetectProfileChanges(base, x, new) = {}
  BY <1>4, <1>8, <1>9, <1>10, ProfileStays
<1> QED BY <1>1, <1>4, <1>7, <1>9, <1>11 DEF Findings

\* A short outage is forgiven: data that were Healthy against enough history are
\* Healthy when they come back, whatever was observed in between, for all
\* thresholds, rules and data, when the window is odd, a null rate may grow a
\* little, and what is Healthy has the same columns, with positive numbers that
\* vary alike (detectors.py:53-68, service.py:508-514).
THEOREM ShortOutagesForgiven == Spec => []ShortOutageForgiven
<1>1. TypeInv /\ HistoryInv => ShortOutageForgiven
  BY OutageForgiven
<1> QED BY <1>1, InvInit, InvStep, PTL DEF Spec
=============================================================================

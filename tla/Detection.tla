------------------------------ MODULE Detection ------------------------------
(* How the health of a dataset is derived: the severities of the findings of  *)
(* each detector, against the baseline or against recent Healthy history.     *)
(* A profile is a record [rows, columns] with columns a function from names   *)
(* to records                                                                 *)
(*   [dtype, nulls, duplicates, median, spread, shares, low, high]            *)
(* whose rates and shares are percentages of the rows; median, spread, low    *)
(* and high are Null without numbers, and shares is Null without categories.  *)
EXTENDS Integers, FiniteSets, SequencesExt

CONSTANTS
  Null,
  HistoryWindow, MinHistory,           \* how much history is used, and needed
  WarningRowChange, CriticalRowChange, \* thresholds, in percent
  WarningNullIncrease, CriticalNullIncrease,
  WarningNumericFactor, CriticalNumericFactor,
  WarningCategoryTvd, CriticalCategoryTvd, MaterialFrequency,
  ExpectedRefresh,                     \* minutes, or Null
  UniqueKeys,                          \* names of columns
  DataRules                            \* the declared rules

ASSUME DetectionAssumption ==
  /\ MinHistory \in 2..HistoryWindow /\ HistoryWindow \in 3..50
  /\ WarningRowChange \in 0..CriticalRowChange
  /\ WarningNullIncrease \in 0..CriticalNullIncrease
  /\ WarningNumericFactor \in 2..CriticalNumericFactor
  /\ WarningCategoryTvd \in 0..CriticalCategoryTvd
  /\ \A rule \in DataRules : rule.severity \in {"Warning", "Critical"}
  /\ Null \notin Int

IsProfile(profile) ==
  /\ profile.rows \in Nat
  /\ \A c \in DOMAIN profile.columns :
       LET column == profile.columns[c]
       IN  /\ column.nulls \in Nat /\ column.duplicates \in Nat
           /\ column.median \in Int \cup {Null} /\ column.spread \in Nat \cup {Null}

Abs(n) == IF n < 0 THEN -n ELSE n
Larger(m, n) == IF m > n THEN m ELSE n
Smaller(m, n) == IF m < n THEN m ELSE n

Graded(amount, warning, critical) ==
  CASE amount < warning -> {}
    [] amount >= warning /\ amount < critical -> {"Warning"}
    [] OTHER -> {"Critical"}

\* The k-th smallest of the values, which are a function to integers.
Ranked(values, k) ==
  CHOOSE v \in Range(values) :
    /\ Cardinality({i \in DOMAIN values : values[i] < v}) < k
    /\ Cardinality({i \in DOMAIN values : values[i] <= v}) >= k

\* Twice the median, an integer also for an even number of values.
TwiceMedian(values) ==
  LET n == Cardinality(DOMAIN values)
  IN  Ranked(values, (n + 1) \div 2) + Ranked(values, n \div 2 + 1)

\* Twice the value to compare with: the baseline's until there is history.
HistoricalReference(values, baseline) ==
  IF Cardinality(DOMAIN values) < MinHistory THEN 2 * baseline ELSE TwiceMedian(values)

\* A measure of a column in the profiles of the history that have it.
Measures(history, name, measure) ==
  LET have == {i \in DOMAIN history : /\ name \in DOMAIN history[i].columns
                                      /\ history[i].columns[name][measure] # Null}
  IN  [i \in have |-> history[i].columns[name][measure]]

Shared(baseline, current) == DOMAIN baseline.columns \cap DOMAIN current.columns

DetectSchema(baseline, current) ==
  (IF DOMAIN baseline.columns \subseteq DOMAIN current.columns THEN {} ELSE {"Critical"})
    \cup
  (IF /\ DOMAIN current.columns \subseteq DOMAIN baseline.columns
      /\ \A c \in Shared(baseline, current) : baseline.columns[c].dtype = current.columns[c].dtype
   THEN {} ELSE {"Warning"})

DetectRowCount(baseline, current, history) ==
  LET twice == HistoricalReference([i \in DOMAIN history |-> history[i].rows], baseline.rows)
  IN  IF twice = 0
      THEN IF current.rows = 0 THEN {} ELSE {"Warning"}
      ELSE Graded(100 * Abs(2 * current.rows - twice),
                  WarningRowChange * twice, CriticalRowChange * twice)

DetectNulls(baseline, current, history) ==
  UNION {Graded(2 * current.columns[c].nulls
                  - HistoricalReference(Measures(history, c, "nulls"), baseline.columns[c].nulls),
                2 * WarningNullIncrease, 2 * CriticalNullIncrease) :
           c \in Shared(baseline, current)}

\* The median changed by a factor, or, less than that but by a fifth or more,
\* by standard deviations.
NumericDrift(before, after, stddev) ==
  LET factored == before # 0 /\ after # 0 /\ (before > 0) = (after > 0)
      graded == Graded(Larger(Abs(before), Abs(after)),
                       WarningNumericFactor * Smaller(Abs(before), Abs(after)),
                       CriticalNumericFactor * Smaller(Abs(before), Abs(after)))
      shift == Abs(after - before)
  IN  IF factored /\ graded # {}
      THEN graded
      ELSE IF stddev > 0 /\ (before = 0 \/ 100 * shift >= 20 * Abs(before))
           THEN Graded(shift, 3 * stddev, 5 * stddev)
           ELSE {}

DetectNumeric(baseline, current, history) ==
  LET Drift(c) ==
        LET medians == Measures(history, c, "median")
            spreads == Measures(history, c, "spread")
        IN  NumericDrift(HistoricalReference(medians, baseline.columns[c].median),
                         2 * current.columns[c].median,
                         IF Cardinality(DOMAIN medians) >= MinHistory /\ DOMAIN spreads # {}
                         THEN TwiceMedian(spreads)
                         ELSE IF baseline.columns[c].spread = Null THEN 0
                              ELSE 2 * baseline.columns[c].spread)
  IN  UNION {Drift(c) : c \in {x \in Shared(baseline, current) :
                /\ baseline.columns[x].median # Null
                /\ current.columns[x].median # Null}}

\* Categories are compared with the baseline only.  The distance, which is half
\* the sum of the differences, is doubled.
CategoryDrift(before, after) ==
  LET keys == DOMAIN before \cup DOMAIN after
      Share(shares, k) == IF k \in DOMAIN shares THEN shares[k] ELSE 0
      distance == MapThenSumSet(LAMBDA k : Abs(Share(before, k) - Share(after, k)), keys)
      Material(shares, others) ==
        \E k \in DOMAIN shares : shares[k] >= MaterialFrequency /\ Share(others, k) = 0
      drifted == distance >= 2 * WarningCategoryTvd \/ Material(before, after) \/ Material(after, before)
  IN  CASE keys # {} /\ drifted /\ distance >= 2 * CriticalCategoryTvd -> {"Critical"}
        [] keys # {} /\ drifted /\ distance < 2 * CriticalCategoryTvd -> {"Warning"}
        [] OTHER -> {}

DetectCategories(baseline, current) ==
  UNION {CategoryDrift(baseline.columns[c].shares, current.columns[c].shares) :
           c \in {x \in Shared(baseline, current) :
                    /\ baseline.columns[x].shares # Null
                    /\ current.columns[x].shares # Null}}

\* A key is no longer unique: 2% more duplicates, and of all values.
DetectUniqueness(baseline, current, history) ==
  LET Repeated(c) ==
        LET after == current.columns[c].duplicates
            before == HistoricalReference(Measures(history, c, "duplicates"),
                                          baseline.columns[c].duplicates)
        IN  IF 2 * after - before < 2 * 2 THEN {} ELSE Graded(after, 2, 10)
  IN  UNION {Repeated(c) : c \in UniqueKeys \cap Shared(baseline, current)}

DetectProfileChanges(baseline, current, observed) ==
  LET history == SubSeq(observed, 1, Smaller(Len(observed), HistoryWindow))
  IN  DetectSchema(baseline, current)
        \cup DetectRowCount(baseline, current, history)
        \cup DetectNulls(baseline, current, history)
        \cup DetectNumeric(baseline, current, history)
        \cup DetectCategories(baseline, current)
        \cup DetectUniqueness(baseline, current, history)

\* The age of the newest content, or of the file, in minutes.
DetectFreshness(age) ==
  CASE ExpectedRefresh = Null -> {}
    [] ExpectedRefresh # Null /\ age = Null -> {"Warning"}
    [] OTHER -> Graded(age, ExpectedRefresh + 1, Larger(2 * ExpectedRefresh, ExpectedRefresh + 1))

\* Rules are about the data alone; one whose field is missing is broken.  A text
\* that pandas cannot read as a number counts as a null of a numeric_range.
Broken(rule, current) ==
  LET Outside(low, high) ==
        \/ rule.minimum # Null /\ low < rule.minimum
        \/ rule.maximum # Null /\ high > rule.maximum
      column == current.columns[rule.field]
  IN  CASE rule.kind = "row_count_range" -> Outside(current.rows, current.rows)
        [] rule.kind # "row_count_range" /\ rule.field \notin DOMAIN current.columns -> TRUE
        [] OTHER ->
             \/ column.nulls > 0
             \/ rule.kind = "allowed_values" /\ ~(DOMAIN column.shares \subseteq rule.allowed)
             \/ rule.kind = "numeric_range" /\ Outside(column.low, column.high)

EvaluateDataRules(current) == {rule.severity : rule \in {x \in DataRules : Broken(x, current)}}

HealthFromFindings(severities) ==
  CASE "Critical" \in severities -> "Critical"
    [] "Warning" \in severities /\ "Critical" \notin severities -> "Warning"
    [] OTHER -> "Healthy"
=============================================================================

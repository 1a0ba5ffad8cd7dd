----------------------------- MODULE MCJudgement -----------------------------
EXTENDS Judgement, TLC

Order(nulls, duplicates, median) ==
  [dtype |-> "numeric", nulls |-> nulls, duplicates |-> duplicates, median |-> median,
   spread |-> 20, low |-> 1, high |-> 900, shares |-> Null]

Region(east, west) ==
  [dtype |-> "text", nulls |-> 0, duplicates |-> 0, median |-> Null, spread |-> Null,
   low |-> Null, high |-> Null, shares |-> ("east" :> east) @@ ("west" :> west)]

Dataset(rows, order, region) ==
  [rows |-> rows, columns |-> ("order" :> order) @@ ("region" :> region)]

First  == Dataset(100, Order(0, 0, 100), Region(50, 50))
Second == Dataset(124, Order(9, 1, 119), Region(60, 40))
Third  == Dataset(153, Order(18, 2, 160), Region(65, 35))
Fourth == [rows |-> 153, columns |-> ("order" :> Order(18, 2, 160))]

\* Data that drift twice up to just short of a finding, in rows, nulls, numbers,
\* duplicates and categories, and stale data without a column, which have no
\* other finding against a baseline like themselves.
TheDatasets ==
  [profile : {First, Second, Third}, age : {30}] \cup [profile : {Fourth}, age : {90}]

TheRules ==
  {[kind |-> "row_count_range", field |-> Null, severity |-> "Warning",
    minimum |-> 50, maximum |-> 1000, allowed |-> {}],
   [kind |-> "allowed_values", field |-> "region", severity |-> "Warning",
    minimum |-> Null, maximum |-> Null, allowed |-> {"east", "west"}]}

TheKeys == {"order"}
=============================================================================

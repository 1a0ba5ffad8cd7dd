------------------------- MODULE ReconciliationQueue -------------------------
(* The queue an operator works from: the Prepared attempts among the newest   *)
(* attempts of Delivery's table, oldest first.                                *)
EXTENDS Delivery, FiniteSets

CONSTANTS
  ScanLimits,   \* how many attempts callers have read from the table
  QueueLimits,  \* how many they have listed
  StaleAfter    \* minutes

ASSUME QueueAssumption ==
  ScanLimits \subseteq Nat \ {0} /\ QueueLimits \subseteq Nat \ {0} /\ StaleAfter \in Nat \ {0}

Newer(r, s) ==
  \/ r.created_at > s.created_at
  \/ r.created_at = s.created_at /\ r.number > s.number

\* The possible results of ORDER BY ... LIMIT n: n members, or all if there are
\* fewer, such that nothing left out comes before one of them in the order, a
\* set of pairs.
FirstOf(S, n, before) ==
  {F \in SUBSET S :
     /\ Cardinality(F) = n \/ (F = S /\ Cardinality(S) < n)
     /\ \A r \in S \ F, f \in F : <<r, f>> \notin before}

\* What is said of a list of items, cut to limit, from a scan cut to scan.
Queue(scanned, items, scan, limit) ==
  LET prepared == {r \in scanned : r.state = "Prepared"}
  IN  [items |-> items,
       prepared_count |-> Cardinality(prepared),
       stale_count |-> Cardinality({r \in prepared : now - r.created_at >= StaleAfter}),
       scan_limit_reached |-> Cardinality(scanned) = scan,
       item_limit_reached |-> Cardinality(prepared) > limit]

NewerFirst == {p \in rows \X rows : Newer(p[1], p[2])}

\* Mutant: the Prepared attempts are listed as they were scanned, newest first.
OldestFirstAsScanned == NewerFirst

Before(r, s) == r.created_at < s.created_at

OldestFirst == {p \in rows \X rows : Before(p[1], p[2])}

\* Rows made at the same time in different pairs may come in any order.
Queues ==
  UNION {UNION {{Queue(scanned, items, scan, limit) :
                   items \in FirstOf({r \in scanned : r.state = "Prepared"}, limit, OldestFirst)} :
                  scanned \in FirstOf(rows, scan, NewerFirst)} :
           scan \in ScanLimits, limit \in QueueLimits}

\* An attempt that blocks its pair until somebody resolves it is never silently
\* missing from the queue.  It is listed; or the queue says that its scan was cut
\* off, and the attempt is no newer than what is listed; or it says that its list
\* was, and then what is listed is no younger and the count includes it
\* (reconciliation.py:66-110).
QueueOmitsNothing ==
  \A q \in Queues :
    \A r \in {x \in rows : x.state = "Prepared"} :
      \/ r \in q.items
      \/ q.scan_limit_reached /\ \A item \in q.items : ~Newer(r, item)
      \/ /\ q.item_limit_reached /\ q.prepared_count > Cardinality(q.items)
         /\ \A item \in q.items : ~Before(r, item)
=============================================================================

--------------------------- MODULE DeliveryProofs ---------------------------
(***************************************************************************)
(* The safety of Delivery for every set of candidates, keys, threads and   *)
(* operators and every retry delay.                                        *)
(*                                                                         *)
(* The rows change under the threads, so nothing can be said of a row from *)
(* what a thread holds, except what no writer ever changes: its id, its    *)
(* key and its creation time.  The inductive invariant is in two halves.   *)
(* Ledger is about those; every overwriting step preserves it because it   *)
(* replaces rows by twins.  Copies is about what the threads hold: enough  *)
(* to know that whatever they write back is a twin, and that it says       *)
(* Failed only when there is an excuse for it.                             *)
(***************************************************************************)
EXTENDS Delivery, TLAPS

\* What a thread does next, when a claim is one step or several.
Steps == Holding \cup {"idle", "claim", "find key", "find latest", "insert"}

\* The types the proofs need.
Types ==
  /\ rows \subseteq Attempt
  /\ now \in Nat
  /\ pc \in [Worker -> Steps]
  /\ local \in [Worker -> Attempt \cup Request \cup {Nothing}]
  /\ \A w \in Worker :
       /\ pc[w] = "claim" => local[w] \in Request
       /\ pc[w] \in Holding => local[w] \in Attempt
  /\ verdicts \subseteq AttemptId \X Outcomes

Twins(r, s) == Id(r) = Id(s) /\ r.key = s.key /\ r.created_at = s.created_at

RowsUnique == \A r, s \in rows : Id(r) = Id(s) => r = s

NoGaps ==
  \A r \in rows : r.number > 1 => \E s \in rows : SamePair(r, s) /\ s.number = r.number - 1

LatestExists ==
  \A r \in rows : \E s \in rows :
    SamePair(r, s) /\ \A t \in rows : SamePair(t, r) => t.number <= s.number

CreatedInThePast == \A r \in rows : r.created_at <= now

CompletedAfterCreated(r) == r.completed_at # Null => r.completed_at >= r.created_at

Ledger ==
  NoGaps /\ LatestExists /\ CreatedInThePast /\ NoBlindRetry /\ RetrySpacing /\ OneAttemptPerKey

RowsSound ==
  \A r \in rows :
    /\ CompletedAfterCreated(r)
    /\ r.state = "Failed" => Excused(Id(r))

CopySound(w) ==
  /\ pc[w] = "claim" => local[w].created_at <= now
  /\ pc[w] \in Holding =>
       /\ \E r \in rows : Twins(r, local[w])
       /\ CompletedAfterCreated(local[w])
       /\ local[w].state = "Failed" => Excused(Id(local[w]))
  /\ pc[w] = "recordFailure" => Id(local[w]) \in rejections

ClaimantsDistinct ==
  \A v, w \in Worker :
    v # w /\ pc[v] \in Claiming /\ pc[w] \in Claiming => Id(local[v]) # Id(local[w])

Copies == (\A w \in Worker : CopySound(w)) /\ ClaimantsDistinct

SendSound(w) ==
  /\ pc[w] \in {"mark", "deliver"} => Id(local[w]) \notin sends
  /\ pc[w] \in Claiming \ {"mark"} /\ local[w].adapter \in LiveAdapters =>
       /\ local[w].mode = "LIVE"
       /\ \A r \in rows : Id(r) = Id(local[w]) => r.mode = "LIVE"

SendsSound ==
  /\ \A i \in sends : \E r \in rows : Id(r) = i
  /\ \A w \in Worker : SendSound(w)
  /\ LiveSendsMarked

IInv == Types /\ RowsUnique /\ Ledger /\ RowsSound /\ Copies /\ SendsSound
-----------------------------------------------------------------------------
(* Types.                                                                  *)

LEMMA AttemptTypes ==
  /\ \A q \in Request, n \in Nat \ {0} : NewAttempt(q, n) \in Attempt
  /\ \A a \in Attempt : MarkedLive(a) \in Attempt
  /\ \A a \in Attempt, st \in Outcomes : Completed(a, st) \in Attempt
  /\ \A a \in Attempt, o \in Operator, st \in Outcomes :
       now \in Nat => Reconciled(a, o, st) \in Attempt
  /\ \A a \in Attempt : Id(a) \in AttemptId
<1>1. \A q \in Request, n \in Nat \ {0} : NewAttempt(q, n) \in Attempt
  BY DEF Request, NewAttempt, Attempt, AttemptStates
<1>2. \A a \in Attempt : MarkedLive(a) \in Attempt
  BY DEF Attempt, MarkedLive
<1>3. \A a \in Attempt, st \in Outcomes : Completed(a, st) \in Attempt
  BY DEF Attempt, Completed, Outcomes, AttemptStates
<1>4. \A a \in Attempt, o \in Operator, st \in Outcomes :
        now \in Nat => Reconciled(a, o, st) \in Attempt
  BY DEF Attempt, Reconciled, Outcomes, AttemptStates
<1>5. \A a \in Attempt : Id(a) \in AttemptId
  BY DEF Attempt, Id, AttemptId
<1> QED BY <1>1, <1>2, <1>3, <1>4, <1>5

LEMMA TypeInit == Init => TypeOK
  BY DeliveryAssumption DEF Init, TypeOK, CandidateStates, Holding, Claiming

LEMMA TypeStep == TypeOK /\ [Next]_vars => TypeOK'
<1> SUFFICES ASSUME TypeOK, [Next]_vars PROVE TypeOK'
  OBVIOUS
<1> USE DeliveryAssumption
<1>1. CASE UNCHANGED vars
  BY <1>1 DEF TypeOK, vars, Holding
<1>2. ASSUME NEW c \in Candidate, NEW st \in {"Eligible", "Suppressed"},
             UpdateNotificationCandidate(c, st)
      PROVE TypeOK'
  BY <1>2 DEF TypeOK, UpdateNotificationCandidate, CandidateStates, historyVars
<1>3. ASSUME NEW w \in Worker, NEW c \in Candidate, NEW a \in Adapters, NEW k \in Key,
             Begin(w, [candidate |-> c, adapter |-> a, key |-> k, created_at |-> now])
      PROVE TypeOK'
  <2>1. [candidate |-> c, adapter |-> a, key |-> k, created_at |-> now] \in Request
    BY DEF TypeOK, Request
  <2> QED BY <1>3, <2>1 DEF TypeOK, Begin, storeVars, historyVars, Holding, Claiming
<1>4. ASSUME NEW w \in Worker, NEW n \in {1} \cup {r.number + 1 : r \in rows}, ClaimNew(w, n)
      PROVE TypeOK'
  <2>1. n \in Nat \ {0}
    BY DEF TypeOK, Attempt
  <2>2. local[w] \in Request
    BY <1>4 DEF TypeOK, ClaimNew
  <2>3. NewAttempt(local[w], n) \in Attempt
    BY <2>1, <2>2, AttemptTypes
  <2> QED BY <1>4, <2>3 DEF TypeOK, ClaimNew, historyVars, Holding, Claiming
<1>5. ASSUME NEW w \in Worker, NEW r \in rows, ClaimReplay(w, r) PROVE TypeOK'
  BY <1>5 DEF TypeOK, ClaimReplay, Finished, storeVars, historyVars, Holding, Claiming
<1>6. ASSUME NEW w \in Worker, ClaimRefused(w) \/ Crash(w) PROVE TypeOK'
  BY <1>6 DEF TypeOK, ClaimRefused, Crash, Finished, storeVars, historyVars, Holding, Claiming
<1>7. ASSUME NEW w \in Worker, MarkLive(w) PROVE TypeOK'
  <2>1. MarkedLive(local[w]) \in Attempt
    BY <1>7, AttemptTypes DEF TypeOK, MarkLive, Holding, Claiming
  <2> QED BY <1>7, <2>1 DEF TypeOK, MarkLive, Overwritten, historyVars, Holding, Claiming
<1>8. ASSUME NEW w \in Worker, MarkReplayLive(w) PROVE TypeOK'
  <2>1. MarkedLive(local[w]) \in Attempt
    BY <1>8, AttemptTypes DEF TypeOK, MarkReplayLive, Holding, Claiming
  <2> QED BY <1>8, <2>1
        DEF TypeOK, MarkReplayLive, Overwritten, Finished, historyVars, Holding, Claiming
<1>9. ASSUME NEW w \in Worker, DeliverAccepted(w) \/ DeliverRejected(w) \/ DeliverUncertain(w)
      PROVE TypeOK'
  <2>1. local[w] \in Attempt /\ Id(local[w]) \in AttemptId
    BY <1>9, AttemptTypes
       DEF TypeOK, DeliverAccepted, DeliverRejected, DeliverUncertain, Holding, Claiming
  <2> QED BY <1>9, <2>1
        DEF TypeOK, DeliverAccepted, DeliverRejected, DeliverUncertain, Finished,
            storeVars, Holding, Claiming
<1>10. ASSUME NEW w \in Worker, RecordSuccess(w) \/ RecordFailure(w) PROVE TypeOK'
  <2>1. \A st \in Outcomes : Completed(local[w], st) \in Attempt
    BY <1>10, AttemptTypes DEF TypeOK, RecordSuccess, RecordFailure, Holding, Claiming
  <2> QED BY <1>10, <2>1
        DEF TypeOK, RecordSuccess, RecordFailure, Overwritten, Finished, Outcomes,
            historyVars, Holding, Claiming
<1>11. ASSUME NEW o \in Operator, NEW r \in rows, NEW st \in Outcomes, Reconcile(o, r, st)
       PROVE TypeOK'
  <2>1. Reconciled(r, o, st) \in Attempt /\ Id(r) \in AttemptId
    BY AttemptTypes DEF TypeOK
  <2> QED BY <1>11, <2>1 DEF TypeOK, Reconcile, Overwritten
<1>12. CASE Tick
  BY <1>12 DEF TypeOK, Tick, storeVars, historyVars
<1> QED BY <1>1, <1>2, <1>3, <1>4, <1>5, <1>6, <1>7, <1>8, <1>9, <1>10, <1>11, <1>12 DEF Next

\* The tables, the copies and the history keep their types.
THEOREM TypeCorrect == Spec => []TypeOK
  BY TypeInit, TypeStep, PTL DEF Spec

LEMMA TypesOfTypeOK == (TypeOK => Types) /\ (TypeOK' => Types')
  BY DEF TypeOK, Types, Steps

-----------------------------------------------------------------------------
(* Rows and their twins.                                                   *)

Monotone ==
  /\ now <= now'
  /\ sends \subseteq sends'
  /\ rejections \subseteq rejections'
  /\ verdicts \subseteq verdicts'

RowsTwinned ==
  /\ \A s \in rows' : \E r \in rows : Twins(r, s)
  /\ \A r \in rows : \E s \in rows' : Twins(r, s)

\* Time advances and history grows.
LEMMA NextMonotone == Types /\ [Next]_vars => Monotone
  BY DEF Types, Next, vars, Monotone, UpdateNotificationCandidate, Begin, ClaimNew,
         ClaimReplay, ClaimRefused, MarkLive, MarkReplayLive, DeliverAccepted,
         DeliverRejected, DeliverUncertain, RecordSuccess, RecordFailure, Crash,
         Finished, Reconcile, Tick, storeVars, historyVars

\* Writing an attempt over its row replaces one row by its twin.
LEMMA OverwriteTwins ==
  ASSUME NEW a, NEW t \in rows, Twins(t, a)
  PROVE  /\ a \in Overwritten(a)
         /\ \A s \in Overwritten(a) : s = a \/ (s \in rows /\ Id(s) # Id(a))
         /\ \A s \in Overwritten(a) : \E r \in rows : Twins(r, s)
         /\ RowsUnique => \A r \in rows : \E s \in Overwritten(a) : Twins(r, s)
         /\ RowsUnique => \A r, s \in Overwritten(a) : Id(r) = Id(s) => r = s
  BY DEF Overwritten, Twins, RowsUnique

LEMMA IdEquality ==
  ASSUME NEW r, NEW s
  PROVE  Id(r) = Id(s) <=> SamePair(r, s) /\ r.number = s.number
  BY DEF Id, SamePair

\* What is said of ids, keys and creation times survives.
LEMMA LedgerTwinned ==
  Types /\ Types' /\ Ledger /\ RowsTwinned /\ Monotone => Ledger'
<1> SUFFICES ASSUME Types, Types', Ledger, RowsTwinned, Monotone PROVE Ledger'
  OBVIOUS
<1>0. \A s \in rows' : \E r \in rows : Id(r) = Id(s) /\ r.key = s.key
        /\ r.candidate = s.candidate /\ r.adapter = s.adapter /\ r.number = s.number
        /\ r.created_at = s.created_at
  BY IdEquality DEF RowsTwinned, Twins, SamePair
<1>1. NoGaps'
  <2> SUFFICES ASSUME NEW r \in rows', r.number > 1
               PROVE  \E s \in rows' : SamePair(r, s) /\ s.number = r.number - 1
    BY DEF NoGaps
  <2>1. PICK q \in rows : q.candidate = r.candidate /\ q.adapter = r.adapter /\ q.number = r.number
    BY <1>0
  <2>2. PICK p \in rows : SamePair(q, p) /\ p.number = q.number - 1
    BY <2>1 DEF Ledger, NoGaps
  <2>3. PICK s \in rows' : Twins(p, s)
    BY DEF RowsTwinned
  <2> QED BY <2>1, <2>2, <2>3, IdEquality DEF Twins, SamePair
<1>2. CreatedInThePast'
  BY <1>0 DEF Types, Attempt, Ledger, CreatedInThePast, Monotone
<1>3. NoBlindRetry'
  BY <1>0 DEF Ledger, NoBlindRetry, Excused, Monotone, SamePair
<1>4. RetrySpacing'
  BY <1>0 DEF Ledger, RetrySpacing, SamePair
<1>5. OneAttemptPerKey'
  BY <1>0 DEF Ledger, OneAttemptPerKey
<1>6. LatestExists'
  <2> SUFFICES ASSUME NEW r \in rows'
               PROVE  \E s \in rows' :
                        SamePair(r, s) /\ \A t \in rows' : SamePair(t, r) => t.number <= s.number
    BY DEF LatestExists
  <2>1. PICK q \in rows : q.candidate = r.candidate /\ q.adapter = r.adapter
    BY <1>0
  <2>2. PICK p \in rows : SamePair(q, p) /\ \A t \in rows : SamePair(t, q) => t.number <= p.number
    BY <2>1 DEF Ledger, LatestExists
  <2>3. PICK s \in rows' : Twins(p, s)
    BY DEF RowsTwinned
  <2>4. SamePair(r, s) /\ s.number = p.number
    BY <2>1, <2>2, <2>3, IdEquality DEF Twins, SamePair
  <2>5. ASSUME NEW t \in rows', SamePair(t, r) PROVE t.number <= s.number
    <3>1. PICK u \in rows : u.candidate = t.candidate /\ u.adapter = t.adapter /\ u.number = t.number
      BY <1>0
    <3> QED BY <2>1, <2>2, <2>4, <2>5, <3>1 DEF SamePair
  <2> QED BY <2>4, <2>5
<1> QED BY <1>1, <1>2, <1>3, <1>4, <1>5, <1>6 DEF Ledger

\* A copy written back, or a reconciled row, is a twin of a row.
LEMMA WritersWriteTwins ==
  ASSUME IInv
  PROVE  /\ \A w \in Worker : pc[w] \in Holding =>
              /\ \E t \in rows : Twins(t, MarkedLive(local[w]))
              /\ \A st \in Outcomes : \E t \in rows : Twins(t, Completed(local[w], st))
         /\ \A r \in rows, o \in Operator, st \in Outcomes : Twins(r, Reconciled(r, o, st))
<1>1. ASSUME NEW w \in Worker, pc[w] \in Holding
      PROVE  /\ \E t \in rows : Twins(t, MarkedLive(local[w]))
             /\ \A st \in Outcomes : \E t \in rows : Twins(t, Completed(local[w], st))
  <2>1. local[w] \in Attempt
    BY <1>1 DEF IInv, Types
  <2>2. /\ Twins(local[w], MarkedLive(local[w]))
        /\ \A st \in Outcomes : Twins(local[w], Completed(local[w], st))
    BY <2>1 DEF Attempt, Twins, Id, MarkedLive, Completed
  <2> QED BY <1>1, <2>2 DEF IInv, Copies, CopySound, Twins
<1>2. ASSUME NEW r \in rows, NEW o \in Operator, NEW st \in Outcomes
      PROVE  Twins(r, Reconciled(r, o, st))
  BY DEF IInv, Types, Attempt, Twins, Id, Reconciled
<1> QED BY <1>1, <1>2

-----------------------------------------------------------------------------
(* The ledger.                                                             *)

\* What must be known of the rows next to which a claim inserts the attempt a.
Fits(a) ==
  /\ a \in Attempt /\ a.state = "Prepared" /\ a.completed_at = Null /\ a.mode = "DRY_RUN"
  /\ a.created_at <= now
  /\ \A r \in rows : r.key # a.key
  /\ \A r \in rows : SamePair(r, a) =>
       /\ r.number < a.number
       /\ a.created_at >= r.created_at + RetryDelay
       /\ Excused(Id(r))
  /\ a.number > 1 => \E s \in rows : SamePair(a, s) /\ s.number = a.number - 1

\* A successful claim knows it.
LEMMA ClaimedAttempt ==
  ASSUME IInv, NEW w \in Worker, NEW n \in Nat \ {0}, pc[w] = "claim", MayClaim(local[w], n),
         NEW a, a = NewAttempt(local[w], n)
  PROVE  Fits(a) /\ a.number = n
<1> USE DEF Fits
<1> USE DeliveryAssumption
<1> DEFINE q == local[w]
<1>1. q \in Request /\ q.created_at <= now
  BY DEF IInv, Types, Copies, CopySound
<1>2. /\ a \in Attempt
      /\ a.number = n /\ a.state = "Prepared" /\ a.completed_at = Null /\ a.mode = "DRY_RUN"
      /\ a.created_at = q.created_at /\ a.key = q.key
      /\ \A r : SamePair(r, a) <=> SamePair(r, q)
  BY <1>1, AttemptTypes DEF NewAttempt, SamePair
<1>3. \A r \in rows : r.key # a.key
  BY <1>2 DEF MayClaim, KeyTaken
<1>4. CASE (\A r \in rows : ~SamePair(r, q)) /\ n = 1
  BY <1>1, <1>2, <1>3, <1>4
<1>5. CASE \E r \in rows : IsLatest(r, q) /\ r.state = "Failed"
                           /\ RetryIsDue(r, q.created_at) /\ n = r.number + 1
  <2>1. PICK p \in rows : IsLatest(p, q) /\ p.state = "Failed"
                          /\ RetryIsDue(p, q.created_at) /\ n = p.number + 1
    BY <1>5
  <2>2. p \in Attempt /\ Excused(Id(p)) /\ p.completed_at >= p.created_at
    BY <2>1 DEF IInv, Types, RowsSound, CompletedAfterCreated, RetryIsDue
  <2>3. p.completed_at \in Nat /\ a.created_at >= p.completed_at + RetryDelay
    BY <2>1, <2>2, <1>2 DEF RetryIsDue, Attempt
  <2>4. a.created_at >= p.created_at + RetryDelay
    BY <2>2, <2>3, <1>2 DEF Attempt
  <2>5. ASSUME NEW r \in rows, SamePair(r, a)
        PROVE  /\ r.number < a.number
               /\ a.created_at >= r.created_at + RetryDelay
               /\ Excused(Id(r))
    <3>1. r \in Attempt /\ r.number <= p.number /\ SamePair(r, p)
      BY <2>1, <2>5, <1>2 DEF IsLatest, IInv, Types, SamePair
    <3>2. CASE r.number = p.number
      BY <3>1, <3>2, <2>1, <2>2, <2>4, <1>2, IdEquality DEF IInv, RowsUnique, Attempt
    <3>3. CASE r.number < p.number
      <4>1. p.created_at >= r.created_at + RetryDelay /\ Excused(Id(r))
        BY <3>1, <3>3 DEF IInv, Ledger, RetrySpacing, NoBlindRetry
      <4> QED BY <4>1, <3>1, <3>3, <2>1, <2>2, <2>4, <1>2 DEF Attempt
    <3> QED BY <3>1, <3>2, <3>3, <2>2 DEF Attempt
  <2>6. SamePair(a, p) /\ p.number = a.number - 1
    BY <2>1, <2>2, <1>2 DEF IsLatest, SamePair, Attempt
  <2> QED BY <1>1, <1>2, <1>3, <2>5, <2>6
<1> QED BY <1>4, <1>5 DEF MayClaim

LEMMA InsertedRows ==
  ASSUME IInv, Types', NEW a, Fits(a), rows' = rows \cup {a}, UNCHANGED <<now, rejections, verdicts>>
  PROVE  Ledger' /\ RowsUnique' /\ RowsSound'
<1>0. rows' = rows \cup {a} /\ now' = now /\ \A i : Excused(i)' <=> Excused(i)
  BY DEF Excused
<1>1. /\ a \in Attempt /\ a.state = "Prepared" /\ a.completed_at = Null
      /\ a.created_at <= now
      /\ \A r \in rows : r.key # a.key
      /\ \A r \in rows : SamePair(r, a) =>
           r.number < a.number /\ a.created_at >= r.created_at + RetryDelay /\ Excused(Id(r))
      /\ a.number > 1 => \E s \in rows : SamePair(a, s) /\ s.number = a.number - 1
  BY DEF Fits
<1>2. \A r \in rows : r \in Attempt
  BY DEF IInv, Types
<1>3. RowsUnique'
  BY <1>0, <1>1, <1>2, IdEquality DEF IInv, RowsUnique, Attempt
<1>4. NoGaps'
  BY <1>0, <1>1 DEF IInv, Ledger, NoGaps
<1>5. CreatedInThePast'
  BY <1>0, <1>1 DEF IInv, Ledger, CreatedInThePast
<1>6. NoBlindRetry'
  <2> SUFFICES ASSUME NEW r \in rows', NEW s \in rows', SamePair(r, s), r.number < s.number
               PROVE  Excused(Id(r))'
    BY DEF NoBlindRetry
  <2>1. CASE r \in rows /\ s \in rows
    BY <2>1, <1>0 DEF IInv, Ledger, NoBlindRetry
  <2>2. CASE r \in rows /\ s = a
    BY <2>2, <1>0, <1>1
  <2>3. CASE r = a /\ s \in rows
    BY <2>3, <1>1, <1>2 DEF SamePair, Attempt
  <2> QED BY <2>1, <2>2, <2>3, <1>0, <1>1 DEF Attempt
<1>7. RetrySpacing'
  <2> SUFFICES ASSUME NEW r \in rows', NEW s \in rows', SamePair(r, s), r.number < s.number
               PROVE  s.created_at >= r.created_at + RetryDelay
    BY DEF RetrySpacing
  <2>1. CASE r \in rows /\ s \in rows
    BY <2>1 DEF IInv, Ledger, RetrySpacing
  <2>2. CASE r \in rows /\ s = a
    BY <2>2, <1>1
  <2>3. CASE r = a /\ s \in rows
    BY <2>3, <1>1, <1>2 DEF SamePair, Attempt
  <2> QED BY <2>1, <2>2, <2>3, <1>0, <1>1 DEF Attempt
<1>8. OneAttemptPerKey'
  BY <1>0, <1>1 DEF IInv, Ledger, OneAttemptPerKey
<1>9. RowsSound'
  BY <1>0, <1>1 DEF IInv, RowsSound, CompletedAfterCreated
<1>10. LatestExists'
  <2> SUFFICES ASSUME NEW r \in rows'
               PROVE  \E s \in rows' :
                        SamePair(r, s) /\ \A t \in rows' : SamePair(t, r) => t.number <= s.number
    BY DEF LatestExists
  <2>1. CASE SamePair(r, a)
    <3>1. \A t \in rows' : SamePair(t, r) => t = a \/ t.number < a.number
      BY <1>0, <1>1, <2>1 DEF SamePair
    <3> QED BY <1>0, <1>1, <1>2, <2>1, <3>1 DEF Attempt
  <2>2. CASE ~SamePair(r, a)
    <3>1. r \in rows
      BY <1>0, <2>2 DEF SamePair
    <3> QED BY <1>0, <2>2, <3>1 DEF IInv, Ledger, LatestExists, SamePair
  <2> QED BY <2>1, <2>2
<1> QED BY <1>3, <1>4, <1>5, <1>6, <1>7, <1>8, <1>9, <1>10 DEF Ledger

-----------------------------------------------------------------------------
(* Steps that replace a row, or none.                                      *)

\* A row that says LIVE goes on saying so.
ModesKept ==
  \A s \in rows', r \in rows :
    Id(r) = Id(s) /\ s.adapter \in LiveAdapters /\ r.mode = "LIVE" => s.mode = "LIVE"

RowsKept == Ledger' /\ RowsUnique' /\ RowsSound' /\ RowsTwinned /\ ModesKept

\* The excuse an attempt has after the step.
ExcusedNext(i) == i \in rejections' \/ <<i, "Failed">> \in verdicts'

LEMMA ExcusedMonotone ==
  ASSUME Monotone, NEW i
  PROVE  (Excused(i) => ExcusedNext(i)) /\ (ExcusedNext(i) <=> Excused(i)')
  BY DEF Monotone, Excused, ExcusedNext

LEMMA SameRows ==
  ASSUME IInv, Types', Monotone, rows' = rows PROVE RowsKept
<1>1. RowsTwinned
  BY DEF RowsTwinned, Twins
<1>2. Ledger'
  BY <1>1, LedgerTwinned DEF IInv
<1>3. RowsUnique' /\ RowsSound' /\ ModesKept
  BY ExcusedMonotone DEF IInv, RowsUnique, RowsSound, CompletedAfterCreated, ModesKept
<1> QED BY <1>1, <1>2, <1>3 DEF RowsKept

LEMMA OverwrittenRow ==
  ASSUME IInv, Types', Monotone, NEW a, NEW t \in rows, Twins(t, a), rows' = Overwritten(a),
         CompletedAfterCreated(a), a.state = "Failed" => ExcusedNext(Id(a)),
         a.adapter \in LiveAdapters => a.mode = "LIVE" \/ a.mode = t.mode
  PROVE  RowsKept
<1>1. /\ \A s \in rows' : s = a \/ (s \in rows /\ Id(s) # Id(a))
      /\ \A s \in rows' : \E r \in rows : Twins(r, s)
      /\ \A r \in rows : \E s \in rows' : Twins(r, s)
      /\ \A r, s \in rows' : Id(r) = Id(s) => r = s
  BY OverwriteTwins DEF IInv
<1>2. RowsTwinned
  BY <1>1 DEF RowsTwinned
<1>3. Ledger'
  BY <1>2, LedgerTwinned DEF IInv
<1>4. RowsUnique'
  BY <1>1 DEF RowsUnique
<1>5. RowsSound'
  BY <1>1, ExcusedMonotone DEF IInv, RowsSound, CompletedAfterCreated
<1>6. ModesKept
  BY <1>1 DEF IInv, RowsUnique, ModesKept, Twins
<1> QED BY <1>2, <1>3, <1>4, <1>5, <1>6 DEF RowsKept

\* The threads that do not move in a step.
Others(w) == \A v \in Worker \ {w} : pc'[v] = pc[v] /\ local'[v] = local[v]

\* The rows a thread's copy stands for stay, so the copies of the threads
\* that do not move stay sound.
LEMMA CopiesFrame ==
  ASSUME IInv, Types', Monotone, NEW w, Others(w),
         \A r \in rows : \E s \in rows' : Twins(r, s),
         w \in Worker => CopySound(w)',
         w \in Worker /\ pc'[w] \in Claiming =>
           \A v \in Worker \ {w} : pc[v] \in Claiming => Id(local[v]) # Id(local'[w])
  PROVE  Copies'
<1>1. ASSUME NEW v \in Worker \ {w} PROVE CopySound(v)'
  <2>1. CopySound(v) /\ pc'[v] = pc[v] /\ local'[v] = local[v]
    BY DEF IInv, Copies, Others
  <2>2. pc[v] = "claim" => local[v] \in Request
    BY DEF IInv, Types
  <2>3. pc'[v] = "claim" => local'[v].created_at <= now'
    BY <2>1, <2>2 DEF CopySound, Monotone, IInv, Types, Request
  <2>4. pc'[v] \in Holding => \E s \in rows' : Twins(s, local'[v])
    BY <2>1 DEF CopySound, Twins
  <2>5. pc'[v] \in Holding => /\ CompletedAfterCreated(local[v])'
                              /\ local'[v].state = "Failed" => Excused(Id(local[v]))'
    BY <2>1, ExcusedMonotone DEF CopySound, CompletedAfterCreated, Id
  <2>6. pc'[v] = "recordFailure" => Id(local[v])' \in rejections'
    BY <2>1 DEF CopySound, Monotone, Id
  <2> QED BY <2>1, <2>3, <2>4, <2>5, <2>6 DEF CopySound
<1>2. ClaimantsDistinct'
  BY DEF IInv, Copies, ClaimantsDistinct, Others, Id
<1> QED BY <1>1, <1>2 DEF Copies

LEMMA SendsFrame ==
  ASSUME IInv, NEW w, Others(w), sends' = sends, ModesKept,
         \A r \in rows : \E s \in rows' : Twins(r, s),
         \A s \in rows' : Id(s) \in sends => \E r \in rows : Id(r) = Id(s),
         w \in Worker => SendSound(w)'
  PROVE  SendsSound'
<1>1. \A i \in sends' : \E s \in rows' : Id(s) = i
  BY DEF IInv, SendsSound, Twins
<1>2. ASSUME NEW v \in Worker \ {w} PROVE SendSound(v)'
  <2>1. SendSound(v) /\ CopySound(v) /\ pc'[v] = pc[v] /\ local'[v] = local[v]
    BY DEF IInv, SendsSound, Copies, Others
  <2>2. ASSUME pc[v] \in Claiming \ {"mark"}, local[v].adapter \in LiveAdapters,
               NEW s \in rows', Id(s) = Id(local[v])
        PROVE  s.mode = "LIVE"
    <3>1. PICK r \in rows : Twins(r, local[v])
      BY <2>1, <2>2 DEF CopySound, Holding
    <3>2. r.mode = "LIVE" /\ Id(r) = Id(s)
      BY <2>1, <2>2, <3>1 DEF SendSound, Twins
    <3> QED BY <2>2, <3>2 DEF ModesKept, Id
  <2> QED BY <2>1, <2>2 DEF SendSound, Id
<1>3. LiveSendsMarked'
  BY DEF IInv, SendsSound, LiveSendsMarked, ModesKept, Id
<1> QED BY <1>1, <1>2, <1>3 DEF SendsSound

-----------------------------------------------------------------------------
(* The inductive step.                                                     *)

LEMMA InductiveInit == Init => IInv
<1> SUFFICES ASSUME Init PROVE IInv
  OBVIOUS
<1>1. Types
  BY TypeInit, TypesOfTypeOK
<1>2. RowsUnique /\ Ledger /\ RowsSound
  BY DEF Init, RowsUnique, Ledger, NoGaps, LatestExists, CreatedInThePast, NoBlindRetry, RetrySpacing,
         OneAttemptPerKey, RowsSound
<1>3. Copies /\ SendsSound
  BY DEF Init, Copies, CopySound, ClaimantsDistinct, SendsSound, SendSound, LiveSendsMarked,
         Holding, Claiming
<1> QED BY <1>1, <1>2, <1>3 DEF IInv

\* A step after which a thread holds no attempt and no request, over unchanged
\* or overwritten rows.
LEMMA LetGoStep ==
  ASSUME IInv, Types', Monotone, NEW w \in Worker, Others(w), pc'[w] \notin Holding \cup {"claim"},
         RowsKept, sends' = sends
  PROVE  IInv'
<1>1. CopySound(w)' /\ SendSound(w)' /\ pc'[w] \notin Claiming
  BY DEF CopySound, SendSound, Holding, Claiming
<1>2. Copies'
  BY <1>1, CopiesFrame DEF RowsKept, RowsTwinned
<1>3. SendsSound'
  BY <1>1, SendsFrame DEF RowsKept, RowsTwinned, Twins
<1> QED BY <1>2, <1>3 DEF IInv, RowsKept

LEMMA FinishedStep ==
  ASSUME IInv, Types', Monotone, NEW w \in Worker, Finished(w), RowsKept, sends' = sends
  PROVE  IInv'
<1>1. pc'[w] = "idle" /\ Others(w)
  BY DEF IInv, Types, Finished, Others
<1> QED BY <1>1, LetGoStep DEF Holding, Claiming

\* A step in which no thread moves.
LEMMA NobodyMoves ==
  ASSUME IInv, Types', Monotone, pc' = pc, local' = local, RowsKept, sends' = sends
  PROVE  IInv'
<1>1. PICK w : w \notin Worker
  BY NoSetContainsEverything
<1>2. Others(w)
  BY <1>1 DEF Others
<1>3. Copies'
  BY <1>1, <1>2, CopiesFrame DEF RowsKept, RowsTwinned
<1>4. SendsSound'
  BY <1>1, <1>2, SendsFrame DEF RowsKept, RowsTwinned, Twins
<1> QED BY <1>3, <1>4 DEF IInv, RowsKept

LEMMA BeginStep ==
  ASSUME IInv, Types', Monotone, NEW w \in Worker, NEW q \in Request, Begin(w, q)
  PROVE  IInv'
<1>1. /\ Others(w) /\ pc'[w] = "claim" /\ local'[w] = q /\ q.created_at = now
      /\ rows' = rows /\ now' = now /\ sends' = sends
  BY DEF IInv, Types, Begin, Others, storeVars, historyVars
<1>2. RowsKept
  BY <1>1, SameRows
<1>3. CopySound(w)' /\ SendSound(w)' /\ pc'[w] \notin Claiming
  BY <1>1 DEF CopySound, SendSound, Holding, Claiming, IInv, Types
<1>4. Copies'
  BY <1>1, <1>2, <1>3, CopiesFrame DEF RowsKept, RowsTwinned
<1>5. SendsSound'
  BY <1>1, <1>2, <1>3, SendsFrame DEF RowsKept, RowsTwinned
<1> QED BY <1>2, <1>4, <1>5 DEF IInv, RowsKept

\* A thread inserts an attempt that fits and goes on with it.
LEMMA InsertStep ==
  ASSUME IInv, Types', Monotone, NEW w \in Worker, NEW a, Fits(a), Others(w),
         pc'[w] \in {"mark", "deliver"}, pc'[w] = "deliver" => ~NeedsLiveMark(a), local'[w] = a,
         rows' = rows \cup {a}, UNCHANGED <<now, historyVars>>
  PROVE  IInv'
<1>1. /\ Others(w) /\ pc'[w] \in {"mark", "deliver"} /\ local'[w] = a
      /\ pc'[w] = "deliver" => ~NeedsLiveMark(a)
      /\ rows' = rows \cup {a} /\ now' = now /\ sends' = sends
  BY DEF historyVars
<1>2. /\ a \in Attempt /\ a.state = "Prepared" /\ a.completed_at = Null /\ a.mode = "DRY_RUN"
      /\ \A r \in rows : SamePair(r, a) => r.number < a.number
  BY DEF Fits
<1>3. Ledger' /\ RowsUnique' /\ RowsSound'
  BY <1>1, InsertedRows DEF historyVars
<1>4. ASSUME NEW r \in rows PROVE Id(r) # Id(a)
  <2>1. r.number \in Nat /\ a.number \in Nat
    BY <1>2 DEF IInv, Types, Attempt
  <2> QED BY <1>2, <2>1 DEF Id, SamePair
<1>5. \A i \in sends : i # Id(a)
  BY <1>4 DEF IInv, SendsSound
<1>6. CopySound(w)'
  BY <1>1, <1>2 DEF CopySound, CompletedAfterCreated, Twins, Holding, Claiming
<1>7. \A v \in Worker : pc[v] \in Claiming => Id(local[v]) # Id(a)
  BY <1>4 DEF IInv, Copies, CopySound, Holding, Twins
<1>8. \A r \in rows : \E s \in rows' : Twins(r, s)
  BY <1>1 DEF Twins
<1>9. Copies'
  BY <1>1, <1>6, <1>7, <1>8, CopiesFrame DEF Id
<1>10. SendSound(w)'
  BY <1>1, <1>2, <1>5 DEF SendSound, NeedsLiveMark, Claiming, Id
<1>11. ModesKept
  BY <1>1, <1>4 DEF ModesKept, IInv, RowsUnique
<1>12. SendsSound'
  BY <1>1, <1>5, <1>8, <1>10, <1>11, SendsFrame
<1> QED BY <1>3, <1>9, <1>12 DEF IInv

LEMMA ClaimNewStep ==
  ASSUME IInv, Types', Monotone, NEW w \in Worker, NEW n \in Nat \ {0}, ClaimNew(w, n)
  PROVE  IInv'
<1>a. PICK a : a = NewAttempt(local[w], n)
  OBVIOUS
<1>1. /\ Others(w) /\ pc'[w] \in {"mark", "deliver"} /\ local'[w] = a
      /\ pc'[w] = "deliver" => ~NeedsLiveMark(a)
      /\ rows' = rows \cup {a} /\ UNCHANGED <<now, historyVars>>
      /\ pc[w] = "claim" /\ MayClaim(local[w], n)
  BY <1>a DEF IInv, Types, ClaimNew, Others
<1>2. Fits(a)
  BY <1>1, <1>a, ClaimedAttempt
<1> QED BY <1>1, <1>2, InsertStep

\* A thread takes a copy of a row to mark it LIVE again.
LEMMA ReplayStep ==
  ASSUME IInv, Types', Monotone, NEW w \in Worker, NEW r \in rows, Others(w),
         pc'[w] = "markReplay", local'[w] = r, rows' = rows, sends' = sends
  PROVE  IInv'
<1>1. RowsKept
  BY SameRows
<1>2. CopySound(w)'
  <2>1. CompletedAfterCreated(r)' /\ (r.state = "Failed" => Excused(Id(r))')
    BY <1>1 DEF RowsKept, RowsSound
  <2> QED BY <2>1 DEF CopySound, CompletedAfterCreated, Twins, Id
<1>3. SendSound(w)' /\ pc'[w] \notin Claiming
  BY DEF SendSound, Claiming
<1>4. Copies'
  BY <1>1, <1>2, <1>3, CopiesFrame DEF RowsKept, RowsTwinned
<1>5. SendsSound'
  BY <1>1, <1>3, SendsFrame DEF RowsKept, RowsTwinned
<1> QED BY <1>1, <1>4, <1>5 DEF IInv, RowsKept

LEMMA ClaimReplayStep ==
  ASSUME IInv, Types', Monotone, NEW w \in Worker, NEW r \in rows, ClaimReplay(w, r)
  PROVE  IInv'
<1>1. rows' = rows /\ sends' = sends
  BY DEF ClaimReplay, storeVars, historyVars
<1>2. CASE Finished(w)
  BY <1>1, <1>2, SameRows, FinishedStep
<1>3. CASE NeedsLiveMark(r)
  <2>1. Others(w) /\ pc'[w] = "markReplay" /\ local'[w] = r
    BY <1>3 DEF IInv, Types, ClaimReplay, Others
  <2> QED BY <1>1, <2>1, ReplayStep
<1> QED BY <1>2, <1>3 DEF ClaimReplay

LEMMA MarkLiveStep ==
  ASSUME IInv, Types', Monotone, NEW w \in Worker, MarkLive(w)
  PROVE  IInv'
<1>a. PICK a : a = MarkedLive(local[w])
  OBVIOUS
<1>1. /\ Others(w) /\ pc[w] = "mark" /\ pc'[w] = "deliver" /\ local'[w] = a
      /\ rows' = Overwritten(a) /\ sends' = sends
  BY <1>a DEF IInv, Types, MarkLive, Others, historyVars
<1>2. CopySound(w) /\ SendSound(w) /\ local[w] \in Attempt
  BY <1>1 DEF IInv, Types, Copies, SendsSound, Holding, Claiming
<1>3. /\ Id(a) = Id(local[w]) /\ a.state = local[w].state /\ a.mode = "LIVE"
      /\ a.completed_at = local[w].completed_at /\ a.created_at = local[w].created_at
  BY <1>a, <1>2 DEF MarkedLive, Attempt, Id
<1>4. CompletedAfterCreated(a) /\ (a.state = "Failed" => ExcusedNext(Id(a)))
  BY <1>1, <1>2, <1>3, ExcusedMonotone DEF CopySound, CompletedAfterCreated, Holding, Claiming
<1>5. PICK t \in rows : Twins(t, a)
  BY <1>a, <1>1, WritersWriteTwins DEF Holding, Claiming
<1>6. RowsKept
  BY <1>1, <1>3, <1>4, <1>5, OverwrittenRow
<1>7. a \in rows'
  BY <1>1 DEF Overwritten
<1>8. CopySound(w)'
  BY <1>1, <1>4, <1>7, ExcusedMonotone DEF CopySound, CompletedAfterCreated, Twins, Id
<1>9. \A v \in Worker \ {w} : pc[v] \in Claiming => Id(local[v]) # Id(local'[w])
  BY <1>1, <1>3 DEF IInv, Copies, ClaimantsDistinct, Claiming
<1>10. SendSound(w)'
  BY <1>1, <1>2, <1>3, <1>6, <1>7 DEF SendSound, RowsKept, RowsUnique, Claiming, Id
<1>11. Copies'
  BY <1>1, <1>6, <1>8, <1>9, CopiesFrame DEF RowsKept, RowsTwinned
<1>12. SendsSound'
  BY <1>1, <1>6, <1>10, SendsFrame DEF RowsKept, RowsTwinned, Twins
<1> QED BY <1>6, <1>11, <1>12 DEF IInv, RowsKept

LEMMA MarkReplayLiveStep ==
  ASSUME IInv, Types', Monotone, NEW w \in Worker, MarkReplayLive(w)
  PROVE  IInv'
<1>a. PICK a : a = MarkedLive(local[w])
  OBVIOUS
<1>1. /\ pc[w] = "markReplay" /\ Finished(w) /\ rows' = Overwritten(a) /\ sends' = sends
  BY <1>a DEF MarkReplayLive, historyVars
<1>2. CopySound(w) /\ local[w] \in Attempt
  BY <1>1 DEF IInv, Types, Copies, Holding
<1>3. /\ Id(a) = Id(local[w]) /\ a.state = local[w].state /\ a.mode = "LIVE"
      /\ a.completed_at = local[w].completed_at /\ a.created_at = local[w].created_at
  BY <1>a, <1>2 DEF MarkedLive, Attempt, Id
<1>4. CompletedAfterCreated(a) /\ (a.state = "Failed" => ExcusedNext(Id(a)))
  BY <1>1, <1>2, <1>3, ExcusedMonotone DEF CopySound, CompletedAfterCreated, Holding
<1>5. PICK t \in rows : Twins(t, a)
  BY <1>a, <1>1, WritersWriteTwins DEF Holding
<1>6. RowsKept
  BY <1>1, <1>3, <1>4, <1>5, OverwrittenRow
<1> QED BY <1>1, <1>6, FinishedStep

LEMMA RecordStep ==
  ASSUME IInv, Types', Monotone, NEW w \in Worker, RecordSuccess(w) \/ RecordFailure(w)
  PROVE  IInv'
<1>1. PICK st \in Outcomes :
        /\ pc[w] = IF st = "Failed" THEN "recordFailure" ELSE "recordSuccess"
        /\ rows' = Overwritten(Completed(local[w], st))
        /\ Finished(w) /\ sends' = sends
  BY DEF RecordSuccess, RecordFailure, historyVars, Outcomes
<1>a. PICK a : a = Completed(local[w], st)
  OBVIOUS
<1>2. CopySound(w) /\ SendSound(w) /\ local[w] \in Attempt
  BY <1>1 DEF IInv, Types, Copies, SendsSound, Holding, Claiming, Outcomes
<1>3. /\ Id(a) = Id(local[w]) /\ a.state = st /\ a.mode = local[w].mode
      /\ a.adapter = local[w].adapter
      /\ a.completed_at = a.created_at /\ a.created_at \in Nat
  BY <1>a, <1>2 DEF Completed, Attempt, Id
<1>4. CompletedAfterCreated(a) /\ (a.state = "Failed" => ExcusedNext(Id(a)))
  BY <1>1, <1>2, <1>3
     DEF CopySound, CompletedAfterCreated, ExcusedNext, Monotone, Outcomes, Holding, Claiming
<1>5. a.adapter \in LiveAdapters => a.mode = "LIVE"
  BY <1>1, <1>2, <1>3 DEF SendSound, Claiming
<1>6. PICK t \in rows : Twins(t, a)
  BY <1>a, <1>1, WritersWriteTwins DEF Holding, Claiming
<1>7. rows' = Overwritten(a)
  BY <1>1, <1>a
<1>8. RowsKept
  BY <1>4, <1>5, <1>6, <1>7, OverwrittenRow
<1> QED BY <1>1, <1>8, FinishedStep

LEMMA DeliverStep ==
  ASSUME IInv, Types', Monotone, NEW w \in Worker,
         DeliverAccepted(w) \/ DeliverRejected(w) \/ DeliverUncertain(w)
  PROVE  IInv'
<1> DEFINE i == Id(local[w])
<1>1. /\ pc[w] = "deliver" /\ rows' = rows /\ sends' = sends \cup {i}
      /\ Others(w)
      /\ \/ pc'[w] \in {"recordSuccess", "recordFailure"} /\ local'[w] = local[w]
         \/ pc'[w] = "idle"
      /\ pc'[w] = "recordFailure" => i \in rejections'
  BY DEF IInv, Types, DeliverAccepted, DeliverRejected, DeliverUncertain, Finished, Others,
         storeVars
<1>2. CopySound(w) /\ SendSound(w)
  BY DEF IInv, Copies, SendsSound
<1>3. RowsKept
  BY <1>1, SameRows
<1>4. CopySound(w)'
  BY <1>1, <1>2, ExcusedMonotone DEF CopySound, CompletedAfterCreated, Holding, Claiming, Id
<1>5. pc'[w] \in Claiming =>
        \A v \in Worker \ {w} : pc[v] \in Claiming => Id(local[v]) # Id(local'[w])
  BY <1>1 DEF IInv, Copies, ClaimantsDistinct, Claiming
<1>6. Copies'
  BY <1>1, <1>3, <1>4, <1>5, CopiesFrame DEF RowsKept, RowsTwinned
<1>7. \A j \in sends' : \E r \in rows' : Id(r) = j
  BY <1>1, <1>2 DEF IInv, SendsSound, CopySound, Twins, Holding, Claiming
<1>8. ASSUME NEW v \in Worker PROVE SendSound(v)'
  <2>1. CASE v = w
    BY <2>1, <1>1, <1>2 DEF SendSound, Claiming, Id
  <2>2. CASE v # w
    <3>1. SendSound(v) /\ pc'[v] = pc[v] /\ local'[v] = local[v]
      BY <2>2, <1>1 DEF IInv, SendsSound, Others
    <3>2. pc[v] \in Claiming => Id(local[v]) # i
      BY <2>2, <1>1 DEF IInv, Copies, ClaimantsDistinct, Claiming
    <3> QED BY <3>1, <3>2, <1>1 DEF SendSound, Claiming, Id
  <2> QED BY <2>1, <2>2
<1>9. LiveSendsMarked'
  BY <1>1, <1>2 DEF IInv, SendsSound, LiveSendsMarked, SendSound, Claiming, Id
<1> QED BY <1>3, <1>6, <1>7, <1>8, <1>9 DEF IInv, RowsKept, SendsSound

LEMMA ReconcileStep ==
  ASSUME IInv, Types', Monotone, NEW o \in Operator, NEW r \in rows, NEW st \in Outcomes,
         Reconcile(o, r, st)
  PROVE  IInv'
<1>a. PICK a : a = Reconciled(r, o, st)
  OBVIOUS
<1>1. /\ rows' = Overwritten(a) /\ verdicts' = verdicts \cup {<<Id(r), st>>}
      /\ pc' = pc /\ local' = local /\ sends' = sends
  BY <1>a DEF Reconcile
<1>2. r \in Attempt /\ now \in Nat /\ r.created_at <= now
  BY DEF IInv, Types, Ledger, CreatedInThePast
<1>3. /\ Id(a) = Id(r) /\ a.state = st /\ a.mode = r.mode
      /\ a.completed_at = now /\ a.created_at = r.created_at
  BY <1>a, <1>2 DEF Reconciled, Attempt, Id
<1>4. CompletedAfterCreated(a) /\ (a.state = "Failed" => ExcusedNext(Id(a)))
  BY <1>1, <1>2, <1>3 DEF CompletedAfterCreated, ExcusedNext
<1>5. Twins(r, a)
  BY <1>a, WritersWriteTwins
<1>6. RowsKept
  BY <1>1, <1>3, <1>4, <1>5, OverwrittenRow
<1> QED BY <1>1, <1>6, NobodyMoves

LEMMA InductiveStep == TypeOK /\ IInv /\ [Next]_vars => IInv'
<1> SUFFICES ASSUME TypeOK, IInv, [Next]_vars PROVE IInv'
  OBVIOUS
<1> USE DeliveryAssumption
<1>0. TypeOK' /\ Types' /\ Monotone
  BY TypeStep, TypesOfTypeOK, NextMonotone DEF IInv
<1>1. CASE UNCHANGED vars
  BY <1>0, <1>1, SameRows, NobodyMoves DEF vars
<1>2. ASSUME NEW c \in Candidate, NEW st \in {"Eligible", "Suppressed"},
             UpdateNotificationCandidate(c, st)
      PROVE IInv'
  BY <1>0, <1>2, SameRows, NobodyMoves DEF UpdateNotificationCandidate, historyVars
<1>3. ASSUME NEW w \in Worker, NEW c \in Candidate, NEW a \in Adapters, NEW k \in Key,
             Begin(w, [candidate |-> c, adapter |-> a, key |-> k, created_at |-> now])
      PROVE IInv'
  <2>1. [candidate |-> c, adapter |-> a, key |-> k, created_at |-> now] \in Request
    BY DEF IInv, Types, Request
  <2> QED BY <1>0, <1>3, <2>1, BeginStep
<1>4. ASSUME NEW w \in Worker, NEW n \in {1} \cup {r.number + 1 : r \in rows}, ClaimNew(w, n)
      PROVE IInv'
  <2>1. n \in Nat \ {0}
    BY DEF IInv, Types, Attempt
  <2> QED BY <1>0, <1>4, <2>1, ClaimNewStep
<1>5. ASSUME NEW w \in Worker, NEW r \in rows, ClaimReplay(w, r) PROVE IInv'
  BY <1>0, <1>5, ClaimReplayStep
<1>6. ASSUME NEW w \in Worker, ClaimRefused(w) \/ Crash(w) PROVE IInv'
  BY <1>0, <1>6, SameRows, FinishedStep DEF ClaimRefused, Crash, storeVars, historyVars
<1>7. ASSUME NEW w \in Worker, MarkLive(w) PROVE IInv'
  BY <1>0, <1>7, MarkLiveStep
<1>8. ASSUME NEW w \in Worker, MarkReplayLive(w) PROVE IInv'
  BY <1>0, <1>8, MarkReplayLiveStep
<1>9. ASSUME NEW w \in Worker, DeliverAccepted(w) \/ DeliverRejected(w) \/ DeliverUncertain(w)
      PROVE IInv'
  BY <1>0, <1>9, DeliverStep
<1>10. ASSUME NEW w \in Worker, RecordSuccess(w) \/ RecordFailure(w) PROVE IInv'
  BY <1>0, <1>10, RecordStep
<1>11. ASSUME NEW o \in Operator, NEW r \in rows, NEW st \in Outcomes, Reconcile(o, r, st)
       PROVE IInv'
  BY <1>0, <1>11, ReconcileStep
<1>12. CASE Tick
  BY <1>0, <1>12, SameRows, NobodyMoves DEF Tick, storeVars, historyVars
<1> QED BY <1>1, <1>2, <1>3, <1>4, <1>5, <1>6, <1>7, <1>8, <1>9, <1>10, <1>11, <1>12 DEF Next

-----------------------------------------------------------------------------
(* The theorems.                                                           *)

\* The invariant holds of every reachable state.
THEOREM InvariantCorrect == Spec => []IInv
  BY InductiveInit, InductiveStep, TypeCorrect, PTL DEF Spec

\* No attempt of unknown fate is ever followed by another: a claim, which
\* looks at the stored state of the latest attempt only, never finds Failed
\* there without a definitive failure or an operator's decision behind it.
THEOREM NeverBlindRetry == Spec => []NoBlindRetry
<1>1. IInv => NoBlindRetry
  BY DEF IInv, Ledger
<1> QED BY <1>1, InvariantCorrect, PTL

\* An adapter is called at most once for an attempt: replayed keys, retries
\* and crashes included.
THEOREM SentOnce == Spec => []SendOnce
<1>1. IInv => SendOnce
  BY DEF IInv, Copies, ClaimantsDistinct, SendsSound, SendSound, SendOnce, Claiming
<1> QED BY <1>1, InvariantCorrect, PTL

\* The row of an attempt whose live adapter was called says LIVE, whoever
\* wrote the row last.
THEOREM SendsOnRecord == Spec => []LiveSendsMarked
<1>1. IInv => LiveSendsMarked
  BY DEF IInv, SendsSound
<1> QED BY <1>1, InvariantCorrect, PTL

\* Attempts of a pair are spaced by the retry delay, one key is one attempt,
\* and the attempts of a pair are numbered without gaps or twins.
THEOREM LedgerInOrder == Spec => [](RetrySpacing /\ OneAttemptPerKey /\ NumbersContiguous)
<1>1. IInv => RetrySpacing /\ OneAttemptPerKey /\ NumbersContiguous
  BY DEF IInv, Ledger, RowsUnique, NoGaps, NumbersContiguous
<1> QED BY <1>1, InvariantCorrect, PTL

\* The read-only decision and the claim, which ask for the latest attempt in
\* different ways, give the same answer: a pair with attempts has a latest one.
THEOREM DecisionMatchesClaim == Spec => []DecisionAgreesWithClaim
<1>1. ASSUME IInv, NEW c \in Candidate, NEW a \in Adapters, NEW k \in Key, ~KeyTaken(k),
             NEW q, q = [candidate |-> c, adapter |-> a, key |-> k, created_at |-> now]
      PROVE  RetryDecisionDue(c, a) <=> \E n \in {1} \cup {r.number + 1 : r \in rows} : MayClaim(q, n)
  <2>1. PICK mine : mine = {r \in rows : r.candidate = c /\ r.adapter = a}
    OBVIOUS
  <2>2. /\ q.candidate = c /\ q.key = k /\ q.created_at = now
        /\ \A r : SamePair(r, q) <=> r.candidate = c /\ r.adapter = a
    BY <1>1 DEF SamePair
  <2>3. RetryDecisionDue(c, a) <=>
          /\ candidateState[c] = "Eligible"
          /\ \A r \in mine : (\A s \in mine : s.number <= r.number) =>
               r.state \notin {"Succeeded", "Prepared"} /\ RetryIsDue(r, now)
    BY <2>1 DEF RetryDecisionDue, RetryIsDue
  <2>4. \A r : IsLatest(r, q) <=> r \in mine /\ \A s \in mine : s.number <= r.number
    BY <2>1, <2>2 DEF IsLatest
  <2>5. \A r \in rows : r.state \notin {"Succeeded", "Prepared"} <=> r.state = "Failed"
    BY <1>1 DEF IInv, Types, Attempt, AttemptStates
  <2>6. CASE mine = {}
    BY <1>1, <2>1, <2>2, <2>3, <2>4, <2>6 DEF MayClaim
  <2>7. CASE mine # {}
    <3>1. PICK p \in mine : \A s \in mine : s.number <= p.number
      BY <1>1, <2>1, <2>7 DEF IInv, Ledger, LatestExists, SamePair
    <3>2. \A r \in mine : (\A s \in mine : s.number <= r.number) => r = p
      <4> SUFFICES ASSUME NEW r \in mine, \A s \in mine : s.number <= r.number PROVE r = p
        OBVIOUS
      <4>1. r.number \in Nat /\ p.number \in Nat /\ r.number <= p.number /\ p.number <= r.number
        BY <1>1, <2>1, <3>1 DEF IInv, Types, Attempt
      <4> QED BY <1>1, <2>1, <4>1, IdEquality DEF IInv, RowsUnique, SamePair
    <3>3. RetryDecisionDue(c, a) <=>
            candidateState[c] = "Eligible" /\ p.state = "Failed" /\ RetryIsDue(p, now)
      BY <2>1, <2>3, <2>5, <3>1, <3>2
    <3>4. \A n : MayClaim(q, n) <=>
            /\ candidateState[c] = "Eligible" /\ p.state = "Failed" /\ RetryIsDue(p, now)
            /\ n = p.number + 1
      BY <1>1, <2>1, <2>2, <2>4, <3>1, <3>2 DEF MayClaim
    <3>5. p.number + 1 \in {1} \cup {r.number + 1 : r \in rows}
      BY <2>1
    <3> QED BY <3>3, <3>4, <3>5
  <2> QED BY <2>6, <2>7
<1>2. IInv => DecisionAgreesWithClaim
  BY <1>1 DEF DecisionAgreesWithClaim
<1> QED BY <1>2, InvariantCorrect, PTL

-----------------------------------------------------------------------------
(* The contract.                                                           *)

OpenedIds   == {Id(r) : r \in rows}
ReleasedIds == rejections \cup {v[1] : v \in {x \in verdicts : x[2] = "Failed"}}

LEMMA ExcusedReleased ==
  ASSUME Types, NEW i PROVE Excused(i) <=> i \in ReleasedIds
<1>1. \A v \in verdicts : v = <<v[1], v[2]>>
  BY DEF Types
<1> QED BY <1>1 DEF Excused, ReleasedIds

\* Rows replaced by their twins leave the opened attempts alone.
LEMMA SameOpened ==
  ASSUME RowsTwinned PROVE OpenedIds' = OpenedIds
  BY DEF RowsTwinned, Twins, OpenedIds

LEMMA InsertOpens ==
  ASSUME IInv, NEW a, Fits(a), rows' = rows \cup {a}, UNCHANGED historyVars
  PROVE  \E c \in Candidate, b \in AdapterNames, m \in {1} \cup {i[3] + 1 : i \in OpenedIds} :
           Contract!Open(c, b, m)
<1>n. PICK n \in Nat \ {0} : n = a.number
  BY DEF Fits, Attempt
<1>1. rows' = rows \cup {a} /\ sends' = sends /\ ReleasedIds' = ReleasedIds
  BY DEF historyVars, ReleasedIds
<1>2. /\ a \in Attempt /\ a.number = n
      /\ \A r \in rows : SamePair(r, a) => r.number < a.number /\ Excused(Id(r))
      /\ n > 1 => \E s \in rows : SamePair(a, s) /\ s.number = n - 1
  BY <1>n DEF Fits
<1>3. /\ Id(a) = <<a.candidate, a.adapter, n>> /\ a.candidate \in Candidate
      /\ a.adapter \in AdapterNames /\ OpenedIds' = OpenedIds \cup {Id(a)}
  BY <1>1, <1>2 DEF Id, Attempt, OpenedIds
<1>4. \A i \in OpenedIds : i[1] = a.candidate /\ i[2] = a.adapter => i[3] < n
  BY <1>2 DEF OpenedIds, Id, SamePair
<1>5. n = 1 \/ <<a.candidate, a.adapter, n - 1>> \in OpenedIds \cap ReleasedIds
  <2> SUFFICES ASSUME n > 1 PROVE <<a.candidate, a.adapter, n - 1>> \in OpenedIds \cap ReleasedIds
    OBVIOUS
  <2>1. PICK s \in rows : SamePair(a, s) /\ s.number = n - 1
    BY <1>2
  <2>2. Id(s) = <<a.candidate, a.adapter, n - 1>> /\ Id(s) \in OpenedIds
    BY <2>1 DEF Id, SamePair, OpenedIds
  <2>3. Excused(Id(s))
    BY <2>1, <1>2 DEF SamePair
  <2> QED BY <2>2, <2>3, ExcusedReleased DEF IInv
<1>6. n \in {1} \cup {i[3] + 1 : i \in OpenedIds}
  BY <1>5
<1>7. Contract!Open(a.candidate, a.adapter, n)
  BY <1>1, <1>3, <1>4, <1>5 DEF Contract!Open, OpenedIds, ReleasedIds
<1> QED BY <1>3, <1>6, <1>7

LEMMA DeliverCalls ==
  ASSUME IInv, NEW w \in Worker,
         DeliverAccepted(w) \/ DeliverRejected(w) \/ DeliverUncertain(w)
  PROVE  Id(local[w]) \in OpenedIds /\ Contract!Call(Id(local[w]))
<1>1. /\ pc[w] = "deliver" /\ OpenedIds' = OpenedIds /\ sends' = sends \cup {Id(local[w])}
      /\ ReleasedIds' \in {ReleasedIds, ReleasedIds \cup {Id(local[w])}}
  BY DEF DeliverAccepted, DeliverRejected, DeliverUncertain, storeVars, OpenedIds, ReleasedIds
<1>2. Id(local[w]) \in OpenedIds
  BY <1>1 DEF IInv, Copies, CopySound, Holding, Claiming, Twins, OpenedIds
<1>3. Id(local[w]) \notin sends
  BY <1>1 DEF IInv, SendsSound, SendSound
<1> QED BY <1>1, <1>2, <1>3 DEF Contract!Call, OpenedIds, ReleasedIds

\* A step that means nothing to the contract.
Silent == OpenedIds' = OpenedIds /\ sends' = sends /\ ReleasedIds' = ReleasedIds

LEMMA SilentStutters == Silent <=> UNCHANGED Contract!contractVars
  BY DEF Silent, Contract!contractVars, OpenedIds, ReleasedIds

\* A copy written back, or a reconciled row, replaces its twin.
LEMMA WritersTwinned ==
  ASSUME IInv,
         \/ \E w \in Worker :
              MarkLive(w) \/ MarkReplayLive(w) \/ RecordSuccess(w) \/ RecordFailure(w)
         \/ \E o \in Operator, r \in rows, st \in Outcomes : Reconcile(o, r, st)
  PROVE  RowsTwinned
<1>1. ASSUME NEW w \in Worker, MarkLive(w) \/ MarkReplayLive(w) PROVE RowsTwinned
  <2>1. PICK a : a = MarkedLive(local[w])
    OBVIOUS
  <2>2. rows' = Overwritten(a) /\ pc[w] \in Holding
    BY <1>1, <2>1 DEF MarkLive, MarkReplayLive, Holding, Claiming
  <2>3. PICK t \in rows : Twins(t, a)
    BY <2>1, <2>2, WritersWriteTwins
  <2> QED BY <2>2, <2>3, OverwriteTwins DEF RowsTwinned, IInv
<1>2. ASSUME NEW w \in Worker, RecordSuccess(w) \/ RecordFailure(w) PROVE RowsTwinned
  <2>a. PICK st \in Outcomes : rows' = Overwritten(Completed(local[w], st)) /\ pc[w] \in Holding
    BY <1>2 DEF RecordSuccess, RecordFailure, Outcomes, Holding, Claiming
  <2>1. PICK a : a = Completed(local[w], st) /\ rows' = Overwritten(a)
    BY <2>a
  <2>2. PICK t \in rows : Twins(t, a)
    BY <2>1, <2>a, WritersWriteTwins
  <2> QED BY <2>1, <2>2, OverwriteTwins DEF RowsTwinned, IInv
<1>3. ASSUME NEW o \in Operator, NEW r \in rows, NEW st \in Outcomes, Reconcile(o, r, st)
      PROVE  RowsTwinned
  <2>1. PICK a : a = Reconciled(r, o, st)
    OBVIOUS
  <2>2. rows' = Overwritten(a) /\ Twins(r, a)
    BY <1>3, <2>1, WritersWriteTwins DEF Reconcile
  <2> QED BY <2>2, OverwriteTwins DEF RowsTwinned, IInv
<1> QED BY <1>1, <1>2, <1>3

LEMMA WritersSilent ==
  ASSUME IInv, NEW w \in Worker,
         MarkLive(w) \/ MarkReplayLive(w) \/ RecordSuccess(w) \/ RecordFailure(w)
  PROVE  Silent
<1>1. sends' = sends /\ ReleasedIds' = ReleasedIds
  BY DEF MarkLive, MarkReplayLive, RecordSuccess, RecordFailure, historyVars, ReleasedIds
<1> QED BY <1>1, WritersTwinned, SameOpened DEF Silent

\* A verdict releases an attempt, or means nothing.
LEMMA ReconcileReleases ==
  ASSUME IInv, NEW o \in Operator, NEW r \in rows, NEW st \in Outcomes, Reconcile(o, r, st)
  PROVE  Contract!ContractNext \/ Silent
<1>1. OpenedIds' = OpenedIds
  BY WritersTwinned, SameOpened
<1>2. /\ sends' = sends /\ Id(r) \in OpenedIds
      /\ rejections' = rejections /\ verdicts' = verdicts \cup {<<Id(r), st>>}
  BY DEF Reconcile, OpenedIds
<1>3. CASE st = "Failed"
  <2>0. PICK x : x = <<Id(r), "Failed">>
    OBVIOUS
  <2>1. x = <<Id(r), "Failed">> /\ x[1] = Id(r) /\ x[2] = "Failed"
    BY <2>0
  <2>2. verdicts' = verdicts \cup {x}
    BY <1>2, <1>3, <2>1
  <2>3. ReleasedIds' = ReleasedIds \cup {Id(r)}
    BY <1>2, <2>1, <2>2 DEF ReleasedIds
  <2> QED BY <1>1, <1>2, <2>3 DEF Contract!ContractNext, Contract!Release, OpenedIds, ReleasedIds
<1>4. CASE st # "Failed"
  <2>1. ReleasedIds' = ReleasedIds
    BY <1>2, <1>4 DEF ReleasedIds
  <2> QED BY <1>1, <1>2, <2>1 DEF Silent
<1> QED BY <1>3, <1>4

LEMMA DeliverIsCall ==
  ASSUME IInv, NEW w \in Worker,
         DeliverAccepted(w) \/ DeliverRejected(w) \/ DeliverUncertain(w)
  PROVE  Contract!ContractNext
<1>1. PICK i : i = Id(local[w])
  OBVIOUS
<1>2. i \in OpenedIds /\ Contract!Call(i)
  BY <1>1, DeliverCalls DEF Contract!Call, OpenedIds, ReleasedIds
<1> QED BY <1>2 DEF Contract!ContractNext, OpenedIds

\* Every step of the detailed system is a step of the contract or leaves what
\* the contract speaks of alone.
LEMMA ContractStep == IInv /\ [Next]_vars => [Contract!ContractNext]_(Contract!contractVars)
<1> SUFFICES ASSUME IInv, [Next]_vars PROVE Contract!ContractNext \/ Silent
  BY SilentStutters
<1>1. CASE UNCHANGED vars
  BY <1>1 DEF vars, Silent, OpenedIds, ReleasedIds
<1>2. ASSUME NEW c \in Candidate, NEW st \in {"Eligible", "Suppressed"},
             UpdateNotificationCandidate(c, st)
      PROVE Silent
  BY <1>2 DEF UpdateNotificationCandidate, historyVars, Silent, OpenedIds, ReleasedIds
<1>3. ASSUME NEW w \in Worker, NEW q, Begin(w, q) PROVE Silent
  BY <1>3 DEF Begin, storeVars, historyVars, Silent, OpenedIds, ReleasedIds
<1>4. ASSUME NEW w \in Worker, NEW n \in {1} \cup {r.number + 1 : r \in rows}, ClaimNew(w, n)
      PROVE Contract!ContractNext
  <2>1. n \in Nat \ {0}
    BY DEF IInv, Types, Attempt
  <2>2. PICK a : a = NewAttempt(local[w], n)
    OBVIOUS
  <2>3. Fits(a) /\ rows' = rows \cup {a} /\ UNCHANGED historyVars
    BY <1>4, <2>1, <2>2, ClaimedAttempt DEF ClaimNew
  <2> QED BY <2>3, InsertOpens DEF Contract!ContractNext, OpenedIds
<1>5. ASSUME NEW w \in Worker, NEW r \in rows, ClaimReplay(w, r) PROVE Silent
  BY <1>5 DEF ClaimReplay, storeVars, historyVars, Silent, OpenedIds, ReleasedIds
<1>6. ASSUME NEW w \in Worker, ClaimRefused(w) \/ Crash(w) PROVE Silent
  BY <1>6 DEF ClaimRefused, Crash, storeVars, historyVars, Silent, OpenedIds, ReleasedIds
<1>7. CASE Tick
  BY <1>7 DEF Tick, storeVars, historyVars, Silent, OpenedIds, ReleasedIds
<1> QED BY <1>1, <1>2, <1>3, <1>4, <1>5, <1>6, <1>7, WritersSilent, DeliverIsCall,
           ReconcileReleases DEF Next

\* Seen from the recipient, the attempt table, the threads with their stale
\* copies, the crashes and the operators implement the contract.
THEOREM DeliveryKeepsContract == Spec => ImplementsContract
<1>1. Init => Contract!ContractInit
  BY DEF Init, Contract!ContractInit
<1>2. QED
  BY <1>1, ContractStep, InvariantCorrect, PTL
     DEF Spec, ImplementsContract, Contract!ContractSpec
=============================================================================

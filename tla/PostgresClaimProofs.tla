------------------------ MODULE PostgresClaimProofs ------------------------
(***************************************************************************)
(* The safety of the claim over Postgres, statement by statement, and of   *)
(* the queue over the same table, for every set of candidates, keys,       *)
(* threads and operators.                                                  *)
(*                                                                         *)
(* The rows change between the statements of a claim, so PostgresClaim     *)
(* does not implement Delivery: a row read as Failed may be overwritten by *)
(* a late reply before the insert.  Its proof shares DeliveryProofs'       *)
(* invariant instead.  What a transaction has read stays true because no   *)
(* row of its pair can appear under the lock, and because what it needs of *)
(* the latest row, its number, its creation time and its excuse, is what   *)
(* overwriting never changes.                                              *)
(***************************************************************************)
EXTENDS PostgresClaim, ReconciliationQueue, DeliveryProofs, FiniteSetTheorems

PTypes ==
  /\ candidateState \in [Candidate -> CandidateStates]
  /\ holder \in [Candidate -> Worker \cup {Null}]
  /\ seen \in [Worker -> Attempt \cup {Null}]

\* What the latest attempt s is to a request q while no other claims.
Precedes(s, q) ==
  /\ SamePair(s, q)
  /\ \E r \in rows : Twins(r, s)
  /\ \A r \in rows : SamePair(r, q) => r.number <= s.number
  /\ Excused(Id(s))
  /\ q.created_at >= s.created_at + RetryDelay

\* A transaction holds its candidate, which is Eligible, and what it read
\* still counts.
ClaimSound(w) ==
  /\ pc[w] \in InTransaction =>
       /\ local[w] \in Request /\ local[w].created_at <= now
       /\ holder[local[w].candidate] = w
       /\ candidateState[local[w].candidate] = "Eligible"
  /\ pc[w] # "insert" => seen[w] = Null
  /\ pc[w] = "insert" =>
       IF seen[w] = Null THEN \A r \in rows : ~SamePair(r, local[w])
                         ELSE Precedes(seen[w], local[w])

PInv ==
  /\ IInv /\ PTypes /\ IsFiniteSet(rows)
  /\ LocksBelongToClaims
  /\ \A w \in Worker : ClaimSound(w)

USE DeliveryAssumption, PostgresAssumption

-----------------------------------------------------------------------------
(* Types and time.                                                         *)

\* The steps a thread takes outside the claim keep the types.
LEMMA OutsideTypes ==
  ASSUME Types, NEW w \in Worker, OutsideClaim(w) PROVE Types'
<1>1. ASSUME NEW c \in Candidate, NEW a \in Adapters, NEW k \in Key,
             Begin(w, [candidate |-> c, adapter |-> a, key |-> k, created_at |-> now])
      PROVE Types'
  <2>1. [candidate |-> c, adapter |-> a, key |-> k, created_at |-> now] \in Request
    BY DEF Types, Request
  <2> QED BY <1>1, <2>1 DEF Types, Begin, storeVars, historyVars, Steps, Holding, Claiming
<1>2. CASE MarkLive(w)
  <2>1. MarkedLive(local[w]) \in Attempt
    BY <1>2, AttemptTypes DEF Types, MarkLive, Holding, Claiming
  <2> QED BY <1>2, <2>1 DEF Types, MarkLive, Overwritten, historyVars, Steps, Holding, Claiming
<1>3. CASE MarkReplayLive(w)
  <2>1. MarkedLive(local[w]) \in Attempt
    BY <1>3, AttemptTypes DEF Types, MarkReplayLive, Holding, Claiming
  <2> QED BY <1>3, <2>1
        DEF Types, MarkReplayLive, Overwritten, Finished, historyVars, Steps, Holding, Claiming
<1>4. CASE DeliverAccepted(w) \/ DeliverRejected(w) \/ DeliverUncertain(w)
  BY <1>4 DEF Types, DeliverAccepted, DeliverRejected, DeliverUncertain, Finished,
              storeVars, Steps, Holding, Claiming
<1>5. CASE RecordSuccess(w) \/ RecordFailure(w)
  <2>1. \A st \in Outcomes : Completed(local[w], st) \in Attempt
    BY <1>5, AttemptTypes DEF Types, RecordSuccess, RecordFailure, Holding, Claiming
  <2> QED BY <1>5, <2>1
        DEF Types, RecordSuccess, RecordFailure, Overwritten, Finished, Outcomes,
            historyVars, Steps, Holding, Claiming
<1> QED BY <1>1, <1>2, <1>3, <1>4, <1>5 DEF OutsideClaim

LEMMA ReconcileTypes ==
  ASSUME Types, NEW o \in Operator, NEW r \in rows, NEW st \in Outcomes, Reconcile(o, r, st)
  PROVE  Types'
<1>1. Reconciled(r, o, st) \in Attempt /\ Id(r) \in AttemptId
  BY AttemptTypes DEF Types
<1> QED BY <1>1 DEF Types, Reconcile, Overwritten

\* A thread that moves without rows keeps the types.
LEMMA MoveTypes ==
  ASSUME Types, NEW w \in Worker, NEW step \in Steps, pc' = [pc EXCEPT ![w] = step],
         NEW h \in Attempt \cup Request \cup {Nothing}, local' = [local EXCEPT ![w] = h],
         step = "claim" => h \in Request, step \in Holding => h \in Attempt,
         rows' \subseteq Attempt, now' = now, verdicts' = verdicts
  PROVE  Types'
  BY DEF Types

LEMMA RefusedTypes ==
  ASSUME Types, NEW w \in Worker, Finished(w), rows' = rows, now' = now, verdicts' = verdicts
  PROVE  Types'
  BY DEF Types, Finished, Steps, Holding, Claiming

\* Steps that take, read or write nothing of the claim of w, and leave what it
\* reads in place.
LEMMA ClaimFrame ==
  ASSUME PInv, Monotone, PTypes', IInv', NEW w \in Worker,
         pc'[w] = pc[w], local'[w] = local[w], seen'[w] = seen[w],
         pc[w] \in InTransaction =>
           LET c == local[w].candidate
           IN  /\ holder'[c] = holder[c] /\ candidateState'[c] = candidateState[c]
               /\ \A s \in rows' : s.candidate = c => \E r \in rows : Twins(r, s),
         \A r \in rows : \E s \in rows' : Twins(r, s)
  PROVE  ClaimSound(w)'
<1>1. /\ ClaimSound(w) /\ now \in Nat /\ now' \in Nat /\ now <= now'
      /\ rows \subseteq Attempt /\ rows' \subseteq Attempt
  BY DEF PInv, IInv, Types, Monotone
<1>2. pc[w] \in InTransaction => local[w].created_at <= now'
  BY <1>1 DEF ClaimSound, Request
<1>3. ASSUME pc[w] = "insert", seen[w] = Null, NEW s \in rows', SamePair(s, local[w]) PROVE FALSE
  <2>1. s.candidate = local[w].candidate
    BY <1>3 DEF SamePair
  <2>2. PICK r \in rows : Twins(r, s)
    BY <1>3, <2>1 DEF InTransaction
  <2>3. SamePair(r, local[w])
    BY <1>3, <2>2 DEF Twins, Id, SamePair
  <2> QED BY <1>1, <1>3, <2>3 DEF ClaimSound
<1>4. ASSUME pc[w] = "insert", seen[w] # Null PROVE Precedes(seen[w], local[w])'
  <2>1. Precedes(seen[w], local[w])
    BY <1>1, <1>4 DEF ClaimSound
  <2>2. \E s \in rows' : Twins(s, seen[w])
    BY <2>1 DEF Precedes, Twins
  <2>3. ASSUME NEW s \in rows', SamePair(s, local[w]) PROVE s.number <= seen[w].number
    <3>1. s.candidate = local[w].candidate
      BY <2>3 DEF SamePair
    <3>2. PICK r \in rows : Twins(r, s)
      BY <1>4, <3>1 DEF InTransaction
    <3>3. SamePair(r, local[w]) /\ r.number = s.number
      BY <2>3, <3>2 DEF Twins, Id, SamePair
    <3> QED BY <2>1, <3>3 DEF Precedes
  <2>4. Excused(Id(seen[w]))'
    BY <2>1, ExcusedMonotone DEF Precedes, Id
  <2> QED BY <2>1, <2>2, <2>3, <2>4 DEF Precedes, SamePair
<1> QED BY <1>1, <1>2, <1>3, <1>4 DEF ClaimSound

\* A thread outside a claim has read nothing.
LEMMA NoClaimSound ==
  ASSUME NEW w \in Worker, pc'[w] \notin InTransaction, seen'[w] = Null PROVE ClaimSound(w)'
  BY DEF ClaimSound, InTransaction

LEMMA LetGo ==
  ASSUME PTypes, NEW w \in Worker, Released(w)
  PROVE  /\ PTypes' <=> (candidateState' \in [Candidate -> CandidateStates])
         /\ seen'[w] = Null /\ \A c \in Candidate : holder'[c] # w
         /\ \A v \in Worker \ {w} :
              seen'[v] = seen[v] /\ \A c \in Candidate : holder'[c] = v <=> holder[c] = v
  BY DEF PTypes, Released

LEMMA SubsetFinite ==
  ASSUME IsFiniteSet(rows), NEW a, rows' \subseteq rows \cup {a} PROVE IsFiniteSet(rows')
  BY FS_AddElement, FS_Subset

\* The claims of the threads other than w survive a step of w that adds rows
\* for candidates it has locked only, and touches no state of a locked
\* candidate.
LEMMA ClaimsFrame ==
  ASSUME PInv, Monotone, IInv', PTypes', IsFiniteSet(rows'), NEW w, w # Null, Others(w),
         \A v \in Worker \ {w} :
           seen'[v] = seen[v] /\ \A c \in Candidate : holder'[c] = v <=> holder[c] = v,
         w \in Worker => ClaimSound(w)',
         \A c \in Candidate : holder'[c] = w =>
           pc'[w] \in InTransaction /\ local'[w].candidate = c,
         \A c \in Candidate : candidateState'[c] = candidateState[c] \/ holder[c] = Null,
         \A r \in rows : \E s \in rows' : Twins(r, s),
         \A s \in rows' : (\E r \in rows : Twins(r, s)) \/ holder[s.candidate] = w
  PROVE  PInv'
<1>1. ASSUME NEW v \in Worker \ {w} PROVE ClaimSound(v)'
  <2>1. pc'[v] = pc[v] /\ local'[v] = local[v] /\ seen'[v] = seen[v]
    BY DEF Others
  <2>2. ASSUME pc[v] \in InTransaction
        PROVE  LET c == local[v].candidate
               IN  /\ holder'[c] = holder[c] /\ candidateState'[c] = candidateState[c]
                   /\ \A s \in rows' : s.candidate = c => \E r \in rows : Twins(r, s)
    <3>1. local[v].candidate \in Candidate /\ holder[local[v].candidate] = v
      BY <2>2 DEF PInv, ClaimSound, Request
    <3> QED BY <3>1
  <2> QED BY <2>1, <2>2, ClaimFrame
<1>2. LocksBelongToClaims'
  <2> SUFFICES ASSUME NEW c \in Candidate, holder'[c] # Null
               PROVE  pc'[holder'[c]] \in InTransaction /\ local'[holder'[c]].candidate = c
    BY DEF LocksBelongToClaims
  <2>1. holder'[c] \in Worker
    BY DEF PTypes
  <2>2. CASE holder'[c] = w
    BY <2>2
  <2>3. CASE holder'[c] # w
    BY <2>1, <2>3 DEF PInv, LocksBelongToClaims, Others
  <2> QED BY <2>2, <2>3
<1> QED BY <1>1, <1>2 DEF PInv

\* A step in which w does not claim, or is done claiming.
LEMMA NotClaiming ==
  ASSUME PInv, Monotone, IInv', NEW w \in Worker, Others(w), pc'[w] \notin InTransaction,
         Released(w) \/ (pc[w] \notin InTransaction /\ UNCHANGED postgresVars),
         candidateState' = candidateState, IsFiniteSet(rows'),
         \A r \in rows : \E s \in rows' : Twins(r, s),
         \A s \in rows' : (\E r \in rows : Twins(r, s)) \/ holder[s.candidate] = w
  PROVE  PInv'
<1>1. /\ seen'[w] = Null /\ \A c \in Candidate : holder'[c] # w
      /\ \A v \in Worker \ {w} :
           seen'[v] = seen[v] /\ \A c \in Candidate : holder'[c] = v <=> holder[c] = v
      /\ PTypes'
  <2>1. CASE Released(w)
    BY <2>1, LetGo DEF PInv, PTypes
  <2>2. CASE pc[w] \notin InTransaction /\ UNCHANGED postgresVars
    <3>1. holder' = holder /\ seen' = seen /\ seen[w] = Null
      BY <2>2 DEF PInv, ClaimSound, InTransaction, postgresVars
    <3>2. \A c \in Candidate : holder[c] # w
      BY <2>2 DEF PInv, LocksBelongToClaims
    <3> QED BY <3>1, <3>2 DEF PInv, PTypes
  <2> QED BY <2>1, <2>2
<1>2. ClaimSound(w)'
  BY <1>1, NoClaimSound
<1> QED BY <1>1, <1>2, ClaimsFrame

\* A step of w within its claim, which writes nothing.
LEMMA WithinClaim ==
  ASSUME PInv, Monotone, IInv', PTypes', NEW w \in Worker, Others(w),
         pc'[w] \in InTransaction, local'[w] = local[w],
         \A v \in Worker \ {w} :
           seen'[v] = seen[v] /\ \A c \in Candidate : holder'[c] = v <=> holder[c] = v,
         \A c \in Candidate : holder'[c] = w => local[w].candidate = c,
         ClaimSound(w)', candidateState' = candidateState, rows' = rows
  PROVE  PInv'
<1>1. /\ IsFiniteSet(rows') /\ \A r \in rows : \E s \in rows' : Twins(r, s)
      /\ \A s \in rows' : \E r \in rows : Twins(r, s)
  BY DEF PInv, Twins
<1> QED BY <1>1, ClaimsFrame

\* A step in which no thread moves and no locked candidate changes.
LEMMA NoThreadMoves ==
  ASSUME PInv, Monotone, IInv', PTypes', UNCHANGED <<pc, local, postgresVars>>,
         \A c \in Candidate : candidateState'[c] = candidateState[c] \/ holder[c] = Null,
         RowsTwinned, IsFiniteSet(rows')
  PROVE  PInv'
<1>1. PICK w : w \notin Worker \cup {Null}
  BY NoSetContainsEverything
<1>2. /\ Others(w) /\ holder' = holder /\ seen' = seen
      /\ \A c \in Candidate : holder'[c] # w
  BY <1>1 DEF Others, postgresVars, PInv, PTypes
<1> QED BY <1>1, <1>2, ClaimsFrame DEF RowsTwinned

-----------------------------------------------------------------------------
(* The steps.                                                              *)

LEMMA RefusedStep ==
  ASSUME PInv, Monotone, NEW w \in Worker, Refused(w), candidateState' = candidateState,
         UNCHANGED <<now, historyVars>>
  PROVE  PInv'
<1>1. /\ Finished(w) /\ Released(w) /\ rows' = rows /\ now' = now /\ sends' = sends
      /\ verdicts' = verdicts
  BY DEF Refused, historyVars
<1>2. Types' /\ RowsKept
  BY <1>1, RefusedTypes, SameRows DEF PInv, IInv
<1>3. IInv'
  BY <1>1, <1>2, FinishedStep DEF PInv
<1>4. Others(w) /\ pc'[w] = "idle"
  BY <1>1 DEF PInv, IInv, Types, Finished, Others
<1>5. pc'[w] \notin InTransaction /\ IsFiniteSet(rows')
  BY <1>1, <1>4 DEF InTransaction, PInv
<1> QED BY <1>1, <1>2, <1>3, <1>4, <1>5, NotClaiming DEF RowsKept, RowsTwinned

LEMMA LockStep ==
  ASSUME PInv, Monotone, NEW w \in Worker, LockCandidate(w) PROVE PInv'
<1>1. /\ pc[w] = "claim" /\ local[w] \in Request /\ local[w].created_at <= now
      /\ local[w].candidate \in Candidate /\ holder[local[w].candidate] = Null
      /\ seen[w] = Null /\ candidateState' = candidateState /\ UNCHANGED <<now, historyVars>>
  BY DEF LockCandidate, PInv, IInv, Types, Copies, CopySound, ClaimSound, Request
<1>2. CASE Refused(w)
  BY <1>1, <1>2, RefusedStep
<1>3. CASE /\ candidateState[local[w].candidate] = "Eligible"
           /\ holder' = [holder EXCEPT ![local[w].candidate] = w]
           /\ pc' = [pc EXCEPT ![w] = "find key"]
           /\ UNCHANGED <<rows, local, seen>>
  <2>1. /\ Others(w) /\ pc'[w] = "find key" /\ local'[w] = local[w] /\ rows' = rows
        /\ local' = [local EXCEPT ![w] = local[w]] /\ sends' = sends /\ verdicts' = verdicts
        /\ now' = now
    BY <1>1, <1>3 DEF PInv, IInv, Types, Others, historyVars
  <2>2. Types'
    BY <1>1, <1>3, <2>1, MoveTypes DEF PInv, IInv, Types, Steps, Holding, Claiming
  <2>3. RowsKept
    BY <2>1, <2>2, SameRows DEF PInv
  <2>4. IInv'
    BY <2>1, <2>2, <2>3, LetGoStep DEF PInv, Holding, Claiming
  <2>5. PTypes'
    BY <1>1, <1>3 DEF PInv, PTypes
  <2>6. /\ holder'[local[w].candidate] = w
        /\ \A c \in Candidate : holder'[c] = w => local[w].candidate = c
    BY <1>1, <1>3 DEF PInv, PTypes, LocksBelongToClaims, InTransaction
  <2>7. \A v \in Worker \ {w} :
          seen'[v] = seen[v] /\ \A c \in Candidate : holder'[c] = v <=> holder[c] = v
    BY <1>1, <1>3 DEF PInv, PTypes
  <2>8. ClaimSound(w)'
    BY <1>1, <1>3, <2>1, <2>6 DEF ClaimSound, InTransaction
  <2> QED BY <1>1, <2>1, <2>4, <2>5, <2>6, <2>7, <2>8, WithinClaim DEF InTransaction
<1> QED BY <1>2, <1>3 DEF LockCandidate

\* A transaction moves on to its next statement with its lock.
LEMMA NextStatement ==
  ASSUME PInv, Monotone, NEW w \in Worker, NEW step \in InTransaction, pc[w] \in InTransaction,
         pc' = [pc EXCEPT ![w] = step], NEW s \in Attempt \cup {Null},
         seen' = [seen EXCEPT ![w] = s],
         step # "insert" => s = Null,
         step = "insert" => IF s = Null THEN \A r \in rows : ~SamePair(r, local[w])
                                        ELSE Precedes(s, local[w]),
         UNCHANGED <<rows, candidateState, now, local, holder, historyVars>>
  PROVE  PInv'
<1>1. /\ Others(w) /\ pc'[w] = step /\ local'[w] = local[w] /\ rows' = rows /\ now' = now
      /\ local' = [local EXCEPT ![w] = local[w]] /\ sends' = sends /\ verdicts' = verdicts
      /\ seen'[w] = s /\ \A v \in Worker \ {w} : seen'[v] = seen[v]
  BY DEF PInv, IInv, Types, PTypes, Others, historyVars
<1>2. step \in Steps /\ step \notin Holding \cup {"claim"}
  BY DEF InTransaction, Steps, Holding, Claiming
<1>3. Types'
  BY <1>1, <1>2, MoveTypes DEF PInv, IInv, Types
<1>4. RowsKept
  BY <1>1, <1>3, SameRows DEF PInv
<1>5. IInv'
  BY <1>1, <1>2, <1>3, <1>4, LetGoStep DEF PInv
<1>6. PTypes'
  BY DEF PInv, PTypes
<1>7. /\ \A c \in Candidate : holder'[c] = w => local[w].candidate = c
      /\ \A v \in Worker \ {w} : \A c \in Candidate : holder'[c] = v <=> holder[c] = v
  BY DEF PInv, LocksBelongToClaims
<1>8. ASSUME s # Null, step = "insert" PROVE Precedes(s, local[w])'
  <2>1. Precedes(s, local[w])
    BY <1>8
  <2>2. Excused(Id(s)) => Excused(Id(s))'
    BY ExcusedMonotone DEF Id
  <2> QED BY <1>1, <2>1, <2>2 DEF Precedes, SamePair
<1>9. ClaimSound(w)'
  BY <1>1, <1>8 DEF PInv, ClaimSound
<1> QED BY <1>1, <1>5, <1>6, <1>7, <1>9, WithinClaim

LEMMA FindKeyStep ==
  ASSUME PInv, Monotone, NEW w \in Worker, FindKey(w) PROVE PInv'
<1>1. /\ pc[w] = "find key" /\ seen[w] = Null /\ rows' = rows /\ candidateState' = candidateState
      /\ now' = now /\ sends' = sends /\ verdicts' = verdicts /\ UNCHANGED historyVars
  BY DEF FindKey, storeVars, historyVars, PInv, ClaimSound
<1>2. CASE pc' = [pc EXCEPT ![w] = "find latest"] /\ UNCHANGED <<local, postgresVars>>
  <2>1. seen' = [seen EXCEPT ![w] = Null] /\ holder' = holder
    BY <1>1, <1>2 DEF postgresVars, PInv, PTypes
  <2> QED BY <1>1, <1>2, <2>1, NextStatement DEF InTransaction
<1>3. CASE Released(w) /\ Finished(w)
  BY <1>1, <1>3, RefusedStep DEF Refused
<1>4. ASSUME NEW r \in rows, Released(w), pc' = [pc EXCEPT ![w] = "markReplay"],
             local' = [local EXCEPT ![w] = r]
      PROVE PInv'
  <2>1. Others(w) /\ pc'[w] = "markReplay" /\ local'[w] = r
    BY <1>4 DEF PInv, IInv, Types, Others
  <2>2. Types'
    BY <1>1, <1>4, MoveTypes DEF PInv, IInv, Types, Steps, Holding
  <2>3. IInv'
    BY <1>1, <2>1, <2>2, ReplayStep DEF PInv
  <2>4. RowsTwinned
    BY <1>1, <2>2, SameRows DEF PInv, RowsKept
  <2>5. pc'[w] \notin InTransaction /\ IsFiniteSet(rows')
    BY <1>1, <2>1 DEF InTransaction, PInv
  <2> QED BY <1>1, <1>4, <2>1, <2>3, <2>4, <2>5, NotClaiming DEF RowsTwinned
<1> QED BY <1>2, <1>3, <1>4 DEF FindKey

LEMMA FindLatestStep ==
  ASSUME PInv, Monotone, NEW w \in Worker, FindLatest(w) PROVE PInv'
<1>1. /\ pc[w] = "find latest" /\ seen[w] = Null /\ candidateState' = candidateState
      /\ UNCHANGED <<now, historyVars>> /\ local[w] \in Request
  BY DEF FindLatest, PInv, ClaimSound, InTransaction
<1>2. CASE /\ \A r \in rows : ~SamePair(r, local[w])
           /\ pc' = [pc EXCEPT ![w] = "insert"]
           /\ UNCHANGED <<rows, local, postgresVars>>
  <2>1. seen' = [seen EXCEPT ![w] = Null] /\ holder' = holder
    BY <1>1, <1>2 DEF postgresVars, PInv, PTypes
  <2> QED BY <1>1, <1>2, <2>1, NextStatement DEF InTransaction
<1>3. CASE Refused(w)
  BY <1>1, <1>3, RefusedStep
<1>4. ASSUME NEW r \in rows, IsLatest(r, local[w]), r.state = "Failed",
             RetryIsDue(r, local[w].created_at), seen' = [seen EXCEPT ![w] = r],
             pc' = [pc EXCEPT ![w] = "insert"], UNCHANGED <<rows, local, holder>>
      PROVE PInv'
  <2>0. r \in Attempt /\ r.completed_at # Null
    BY <1>4 DEF PInv, IInv, Types, RetryIsDue
  <2>1. r \in Attempt /\ Excused(Id(r)) /\ r.completed_at \in Nat /\ r.completed_at >= r.created_at
    BY <1>4, <2>0 DEF PInv, IInv, RowsSound, CompletedAfterCreated, Attempt
  <2>2. local[w].created_at >= r.created_at + RetryDelay
    <3>1. r.created_at \in Nat /\ local[w].created_at \in Nat
      BY <1>1, <2>1 DEF Attempt, Request
    <3>2. local[w].created_at >= r.completed_at + RetryDelay
      BY <1>4 DEF RetryIsDue
    <3> HIDE DEF Attempt, Request
    <3> QED BY <2>1, <3>1, <3>2
  <2>3. Precedes(r, local[w]) /\ r # Null
    BY <1>4, <2>1, <2>2 DEF Precedes, IsLatest, Twins
  <2> QED BY <1>1, <1>4, <2>1, <2>3, NextStatement DEF InTransaction
<1> QED BY <1>2, <1>3, <1>4 DEF FindLatest

\* What a transaction has read under its lock is still enough when it inserts.
LEMMA NumberedFits ==
  ASSUME PInv, NEW w \in Worker, pc[w] = "insert", ~ViolatesUnique(Numbered(w)),
         NEW a, a = Numbered(w)
  PROVE  Fits(a) /\ a.candidate = local[w].candidate
<1> DEFINE q == local[w]
<1>1. q \in Request /\ q.created_at <= now /\ \A r \in rows : r.key # a.key
  BY DEF PInv, ClaimSound, InTransaction, ViolatesUnique
<1>2. PICK n \in Nat \ {0} : n = IF seen[w] = Null THEN 1 ELSE seen[w].number + 1
  BY DEF PInv, PTypes, Attempt
<1>3. /\ a \in Attempt /\ a.number = n /\ a.state = "Prepared" /\ a.completed_at = Null
      /\ a.mode = "DRY_RUN" /\ a.created_at = q.created_at /\ a.candidate = q.candidate
      /\ \A r : SamePair(r, a) <=> SamePair(r, q)
  BY <1>1, <1>2, AttemptTypes DEF Numbered, NewAttempt, SamePair
<1>4. CASE seen[w] = Null
  BY <1>1, <1>2, <1>3, <1>4 DEF Fits, PInv, ClaimSound
<1>5. CASE seen[w] # Null
  <2>1. PICK p : p = seen[w]
    OBVIOUS
  <2>2. p \in Attempt /\ n = p.number + 1 /\ Precedes(p, q)
    BY <1>2, <1>5, <2>1 DEF PInv, PTypes, ClaimSound
  <2>3. PICK t \in rows : Twins(t, p)
    BY <2>2 DEF Precedes
  <2>4. t \in Attempt /\ SamePair(t, p) /\ t.number = p.number /\ t.created_at = p.created_at
    BY <2>3, IdEquality DEF Twins, PInv, IInv, Types
  <2>5. ASSUME NEW r \in rows, SamePair(r, a)
        PROVE  /\ r.number < a.number
               /\ a.created_at >= r.created_at + RetryDelay
               /\ Excused(Id(r))
    <3>1. r \in Attempt /\ r.number <= p.number /\ SamePair(r, t) /\ SamePair(r, p)
      BY <1>3, <2>2, <2>4, <2>5 DEF Precedes, PInv, IInv, Types, SamePair
    <3>2. CASE r.number = p.number
      <4>1. r = t /\ Id(r) = Id(p)
        BY <2>4, <3>1, <3>2, IdEquality DEF PInv, IInv, RowsUnique
      <4> QED BY <1>3, <2>2, <2>4, <3>2, <4>1 DEF Precedes, Attempt
    <3>3. CASE r.number < p.number
      <4>1. t.created_at >= r.created_at + RetryDelay /\ Excused(Id(r))
        BY <2>4, <3>1, <3>3 DEF PInv, IInv, Ledger, RetrySpacing, NoBlindRetry
      <4>2. q.created_at >= t.created_at + RetryDelay
        BY <2>2, <2>4 DEF Precedes
      <4> QED BY <1>1, <1>3, <2>2, <2>4, <3>1, <3>3, <4>1, <4>2 DEF Attempt, Request
    <3> QED BY <3>1, <3>2, <3>3, <2>2 DEF Attempt
  <2>6. SamePair(a, t) /\ t.number = a.number - 1
    BY <1>3, <2>2, <2>4 DEF Precedes, SamePair, Attempt
  <2> QED BY <1>1, <1>3, <2>5, <2>6 DEF Fits
<1> QED BY <1>4, <1>5

LEMMA InsertAttemptStep ==
  ASSUME PInv, Monotone, NEW w \in Worker, InsertAttempt(w) PROVE PInv'
<1>1. PICK a : a = Numbered(w)
  OBVIOUS
<1>2. /\ pc[w] = "insert" /\ candidateState' = candidateState /\ UNCHANGED <<now, historyVars>>
      /\ holder[local[w].candidate] = w
  BY DEF InsertAttempt, PInv, ClaimSound, InTransaction
<1>3. CASE ViolatesUnique(a)
  BY <1>1, <1>2, <1>3, RefusedStep DEF InsertAttempt
<1>4. CASE ~ViolatesUnique(a)
  <2>1. /\ rows' = rows \cup {a} /\ Released(w) /\ local' = [local EXCEPT ![w] = a]
        /\ pc' = [pc EXCEPT ![w] = IF NeedsLiveMark(a) THEN "mark" ELSE "deliver"]
    BY <1>1, <1>4 DEF InsertAttempt
  <2>2. Fits(a) /\ a.candidate = local[w].candidate /\ a \in Attempt
    BY <1>1, <1>2, <1>4, NumberedFits DEF Fits
  <2>3. /\ Others(w) /\ pc'[w] \in {"mark", "deliver"} /\ local'[w] = a
        /\ pc'[w] = "deliver" => ~NeedsLiveMark(a)
    BY <2>1 DEF PInv, IInv, Types, Others
  <2>4. Types'
    BY <1>2, <2>1, <2>2, MoveTypes DEF PInv, IInv, Types, Steps, Holding, Claiming, historyVars
  <2>5. IInv'
    BY <1>2, <2>1, <2>2, <2>3, <2>4, InsertStep DEF PInv
  <2>6. /\ \A r \in rows : \E s \in rows' : Twins(r, s)
        /\ \A s \in rows' : (\E r \in rows : Twins(r, s)) \/ holder[s.candidate] = w
    BY <1>2, <2>1, <2>2 DEF Twins
  <2>7. IsFiniteSet(rows') /\ pc'[w] \notin InTransaction
    BY <2>1, <2>3, SubsetFinite DEF PInv, InTransaction
  <2> QED BY <1>2, <2>1, <2>3, <2>5, <2>6, <2>7, NotClaiming
<1> QED BY <1>3, <1>4

\* Written rows, whoever writes them, are rows but one.
LEMMA OutsideFinite ==
  ASSUME PInv,
         \/ \E w \in Worker : OutsideClaim(w)
         \/ \E o \in Operator, r \in rows, st \in Outcomes : Reconcile(o, r, st)
  PROVE  IsFiniteSet(rows')
<1>1. \E a : rows' \subseteq rows \cup {a}
  BY DEF OutsideClaim, Begin, MarkLive, MarkReplayLive, DeliverAccepted, DeliverRejected,
         DeliverUncertain, RecordSuccess, RecordFailure, Reconcile, Overwritten, storeVars
<1> QED BY <1>1, SubsetFinite DEF PInv

LEMMA OutsideClaimStep ==
  ASSUME PInv, Monotone, NEW w \in Worker, OutsideClaim(w) PROVE PInv'
<1>1. Types'
  BY OutsideTypes DEF PInv, IInv
<1>2. ASSUME NEW c \in Candidate, NEW a \in Adapters, NEW k \in Key,
             Begin(w, [candidate |-> c, adapter |-> a, key |-> k, created_at |-> now])
      PROVE  IInv' /\ RowsTwinned
  <2>1. [candidate |-> c, adapter |-> a, key |-> k, created_at |-> now] \in Request
    BY DEF PInv, IInv, Types, Request
  <2>2. rows' = rows
    BY <1>2 DEF Begin, storeVars
  <2> QED BY <1>1, <1>2, <2>1, <2>2, BeginStep, SameRows DEF PInv, RowsKept
<1>3. ASSUME MarkLive(w) \/ MarkReplayLive(w) \/ RecordSuccess(w) \/ RecordFailure(w)
      PROVE  IInv' /\ RowsTwinned
  <2>1. RowsTwinned
    BY <1>3, WritersTwinned DEF PInv
  <2>2. IInv'
    BY <1>1, <1>3, MarkLiveStep, MarkReplayLiveStep, RecordStep DEF PInv
  <2> QED BY <2>1, <2>2
<1>4. ASSUME DeliverAccepted(w) \/ DeliverRejected(w) \/ DeliverUncertain(w)
      PROVE  IInv' /\ RowsTwinned
  <2>1. rows' = rows
    BY <1>4 DEF DeliverAccepted, DeliverRejected, DeliverUncertain, storeVars
  <2> QED BY <1>1, <1>4, <2>1, DeliverStep, SameRows DEF PInv, RowsKept
<1>5. IInv' /\ RowsTwinned
  BY <1>2, <1>3, <1>4 DEF OutsideClaim
<1>6. /\ Others(w) /\ pc[w] \notin InTransaction /\ pc'[w] \notin InTransaction
      /\ candidateState' = candidateState /\ UNCHANGED postgresVars
  BY DEF OutsideClaim, Begin, MarkLive, MarkReplayLive, DeliverAccepted, DeliverRejected,
         DeliverUncertain, RecordSuccess, RecordFailure, Finished, storeVars,
         PInv, IInv, Types, Others, InTransaction
<1> QED BY <1>5, <1>6, OutsideFinite, NotClaiming DEF RowsTwinned

LEMMA PMonotone == PInv /\ [PNext]_allVars => Monotone
<1> SUFFICES ASSUME PInv, [PNext]_allVars PROVE Monotone
  OBVIOUS
<1>1. CASE UNCHANGED allVars \/ Tick
  BY <1>1 DEF PInv, IInv, Types, allVars, vars, Tick, historyVars, Monotone
<1>2. CASE \E w \in Worker : OutsideClaim(w)
  BY <1>2 DEF PInv, IInv, Types, Monotone, OutsideClaim, Begin, MarkLive, MarkReplayLive,
         DeliverAccepted, DeliverRejected, DeliverUncertain, RecordSuccess, RecordFailure,
         historyVars
<1>3. CASE \E w \in Worker : LockCandidate(w) \/ ClaimStep(w) \/ LoseConnection(w)
  <2>1. UNCHANGED <<now, historyVars>>
    BY <1>3 DEF LockCandidate, ClaimStep, FindKey, FindLatest, InsertAttempt, LoseConnection, Crash
  <2> QED BY <2>1 DEF PInv, IInv, Types, Monotone, historyVars
<1>4. CASE \E c \in Candidate, st \in {"Eligible", "Suppressed"} : UpdateLockedCandidate(c, st)
  BY <1>4 DEF PInv, IInv, Types, Monotone, UpdateLockedCandidate, UpdateNotificationCandidate,
         historyVars
<1>5. CASE \E o \in Operator, r \in rows, outcome \in Outcomes : Reconcile(o, r, outcome)
  BY <1>5 DEF PInv, IInv, Types, Monotone, Reconcile
<1> QED BY <1>1, <1>2, <1>3, <1>4, <1>5 DEF PNext

LEMMA PInductiveInit == PInit => PInv
<1> SUFFICES ASSUME PInit PROVE PInv
  OBVIOUS
<1>1. IInv
  BY InductiveInit DEF PInit
<1>2. PTypes /\ LocksBelongToClaims /\ \A w \in Worker : ClaimSound(w)
  BY DEF PInit, Init, PTypes, CandidateStates, LocksBelongToClaims, ClaimSound, InTransaction
<1>3. IsFiniteSet(rows)
  BY FS_EmptySet DEF PInit, Init
<1> QED BY <1>1, <1>2, <1>3 DEF PInv

LEMMA PInductiveStep == PInv /\ [PNext]_allVars => PInv'
<1> SUFFICES ASSUME PInv, [PNext]_allVars PROVE PInv'
  OBVIOUS
<1>0. Monotone /\ Types /\ IInv
  BY PMonotone DEF PInv, IInv
<1>1. ASSUME UNCHANGED <<rows, pc, local, sends, verdicts, postgresVars>>, Types',
             candidateState' \in [Candidate -> CandidateStates],
             \A c \in Candidate : candidateState'[c] = candidateState[c] \/ holder[c] = Null
      PROVE PInv'
  <2>1. RowsKept
    BY <1>0, <1>1, SameRows
  <2>2. IInv'
    BY <1>0, <1>1, <2>1, NobodyMoves
  <2>3. PTypes' /\ IsFiniteSet(rows')
    BY <1>1 DEF PInv, PTypes, postgresVars
  <2> QED BY <1>0, <1>1, <2>1, <2>2, <2>3, NoThreadMoves DEF RowsKept
<1>2. CASE UNCHANGED allVars
  BY <1>0, <1>1, <1>2 DEF allVars, vars, Types, PInv, PTypes
<1>3. ASSUME NEW c \in Candidate, NEW st \in {"Eligible", "Suppressed"}, UpdateLockedCandidate(c, st)
      PROVE PInv'
  <2>1. Types'
    BY <1>0, <1>3 DEF UpdateLockedCandidate, UpdateNotificationCandidate, historyVars, Types
  <2>2. /\ candidateState' \in [Candidate -> CandidateStates]
        /\ \A d \in Candidate : candidateState'[d] = candidateState[d] \/ holder[d] = Null
    BY <1>3 DEF UpdateLockedCandidate, UpdateNotificationCandidate, PInv, PTypes, CandidateStates
  <2> QED BY <1>1, <1>3, <2>1, <2>2
        DEF UpdateLockedCandidate, UpdateNotificationCandidate, historyVars
<1>4. ASSUME Tick, UNCHANGED postgresVars PROVE PInv'
  <2>1. Types'
    BY <1>0, <1>4 DEF Tick, storeVars, historyVars, Types
  <2> QED BY <1>1, <1>4, <2>1 DEF Tick, storeVars, historyVars, PInv, PTypes
<1>5. ASSUME NEW o \in Operator, NEW r \in rows, NEW st \in Outcomes, Reconcile(o, r, st),
             UNCHANGED postgresVars
      PROVE PInv'
  <2>1. Types' /\ RowsTwinned /\ IsFiniteSet(rows')
    BY <1>0, <1>5, ReconcileTypes, WritersTwinned, OutsideFinite
  <2>2. IInv'
    BY <1>0, <1>5, <2>1, ReconcileStep
  <2>3. PTypes' /\ UNCHANGED <<pc, local, candidateState>>
    BY <1>5 DEF Reconcile, PInv, PTypes, postgresVars
  <2> QED BY <1>0, <1>5, <2>1, <2>2, <2>3, NoThreadMoves
<1>6. ASSUME NEW w \in Worker, LoseConnection(w) PROVE PInv'
  BY <1>0, <1>6, RefusedStep DEF LoseConnection, Crash, Refused, storeVars
<1>7. ASSUME NEW w \in Worker, LockCandidate(w) \/ ClaimStep(w) \/ OutsideClaim(w) PROVE PInv'
  BY <1>0, <1>7, LockStep, FindKeyStep, FindLatestStep, InsertAttemptStep, OutsideClaimStep
     DEF ClaimStep
<1> QED BY <1>2, <1>3, <1>4, <1>5, <1>6, <1>7 DEF PNext

-----------------------------------------------------------------------------
(* The theorems.                                                           *)

\* The invariant, Delivery's own included, holds of every reachable state.
THEOREM ClaimInvariant == PSpec => []PInv
  BY PInductiveInit, PInductiveStep, PTL DEF PSpec

\* Whichever way a claim ends, its lock ends with it: nobody waits for a row
\* whose holder has gone.
THEOREM LocksReleased == PSpec => []LocksBelongToClaims
<1>1. PInv => LocksBelongToClaims
  BY DEF PInv
<1> QED BY <1>1, ClaimInvariant, PTL

\* Two transactions that looked up the same key before either inserted do not
\* both insert, and neither do two keys that meet at one number.
THEOREM KeysUnique == PSpec => []OneAttemptPerKey
<1>1. PInv => OneAttemptPerKey
  BY DEF PInv, IInv, Ledger
<1> QED BY <1>1, ClaimInvariant, PTL

\* The statements of a claim, interleaved with everything else, keep what
\* Delivery promises of the attempts: no blind retry, one send, LIVE rows.
THEOREM PostgresIsSafe == PSpec => [](NoBlindRetry /\ SendOnce /\ LiveSendsMarked /\ RetrySpacing)
<1>1. PInv => NoBlindRetry /\ SendOnce /\ LiveSendsMarked /\ RetrySpacing
  BY DEF PInv, IInv, Ledger, Copies, ClaimantsDistinct, SendsSound, SendSound, SendOnce, Claiming
<1> QED BY <1>1, ClaimInvariant, PTL

\* What a step that does not insert does to the attempts.
LEMMA InsertsOnly ==
  ASSUME PInv, [PNext]_allVars, \A w \in Worker : ~InsertAttempt(w) PROVE OpenedIds' = OpenedIds
<1>1. CASE rows' = rows
  BY <1>1 DEF OpenedIds
<1>2. CASE RowsTwinned
  BY <1>2, SameOpened
<1>3. CASE \E w \in Worker : OutsideClaim(w)
  <2>1. rows' = rows \/ RowsTwinned
    BY <1>3, WritersTwinned DEF PInv, OutsideClaim, Begin, DeliverAccepted, DeliverRejected,
         DeliverUncertain, storeVars
  <2> QED BY <1>1, <1>2, <2>1
<1>4. CASE \E o \in Operator, r \in rows, outcome \in Outcomes : Reconcile(o, r, outcome)
  BY <1>2, <1>4, WritersTwinned DEF PInv
<1>5. CASE \E w \in Worker : LockCandidate(w) \/ FindKey(w) \/ FindLatest(w) \/ LoseConnection(w)
  BY <1>1, <1>5 DEF LockCandidate, FindKey, FindLatest, Refused, LoseConnection, Crash, storeVars
<1>6. CASE \/ UNCHANGED allVars \/ Tick
           \/ \E c \in Candidate, st \in {"Eligible", "Suppressed"} : UpdateLockedCandidate(c, st)
  BY <1>1, <1>6 DEF allVars, vars, Tick, storeVars, UpdateLockedCandidate, UpdateNotificationCandidate
<1> QED BY <1>3, <1>4, <1>5, <1>6 DEF PNext, ClaimStep

\* A candidate that was Suppressed since its claim began gets no attempt.
THEOREM ClaimsAreCurrent == PSpec => ClaimsWhileEligible
<1>1. ASSUME PInv, [PNext]_allVars, NEW a \in rows', \A r \in rows : Id(r) # Id(a)
      PROVE  candidateState[a.candidate] = "Eligible"
  <2>1. PICK w \in Worker : InsertAttempt(w)
    BY <1>1, InsertsOnly DEF OpenedIds
  <2>2. PICK b : b = Numbered(w)
    OBVIOUS
  <2>3. pc[w] = "insert" /\ ~ViolatesUnique(b) /\ a = b
    BY <1>1, <2>1, <2>2 DEF InsertAttempt, Refused
  <2>4. a.candidate = local[w].candidate
    BY <1>1, <2>2, <2>3, NumberedFits
  <2> QED BY <1>1, <2>3, <2>4 DEF PInv, ClaimSound, InTransaction
<1>2. PInv /\ [PNext]_allVars =>
        [\A a \in rows' :
           (\A r \in rows : Id(r) # Id(a)) => candidateState[a.candidate] = "Eligible"]_allVars
  BY <1>1
<1> QED BY <1>2, ClaimInvariant, PTL DEF PSpec, ClaimsWhileEligible

LEMMA PContractStep == PInv /\ [PNext]_allVars => [Contract!ContractNext]_(Contract!contractVars)
<1> SUFFICES ASSUME PInv, [PNext]_allVars PROVE Contract!ContractNext \/ Silent
  BY SilentStutters
<1>1. ASSUME OpenedIds' = OpenedIds, UNCHANGED historyVars PROVE Silent
  BY <1>1 DEF Silent, historyVars, ReleasedIds
<1>2. ASSUME NEW w \in Worker, InsertAttempt(w) PROVE Contract!ContractNext \/ Silent
  <2>1. PICK a : a = Numbered(w)
    OBVIOUS
  <2>2. pc[w] = "insert" /\ UNCHANGED historyVars
    BY <1>2 DEF InsertAttempt
  <2>3. CASE ViolatesUnique(a)
    BY <1>1, <1>2, <2>1, <2>2, <2>3 DEF InsertAttempt, Refused, OpenedIds
  <2>4. CASE ~ViolatesUnique(a)
    <3>1. Fits(a) /\ rows' = rows \cup {a}
      BY <1>2, <2>1, <2>2, <2>4, NumberedFits DEF InsertAttempt
    <3> QED BY <2>2, <3>1, InsertOpens DEF PInv, Contract!ContractNext, OpenedIds
  <2> QED BY <2>3, <2>4
<1>3. ASSUME NEW w \in Worker, OutsideClaim(w) PROVE Contract!ContractNext \/ Silent
  <2>1. CASE UNCHANGED <<storeVars, historyVars>>
    BY <1>1, <2>1 DEF storeVars, OpenedIds
  <2> QED BY <1>3, <2>1, WritersSilent, DeliverIsCall DEF PInv, OutsideClaim, Begin
<1>4. ASSUME NEW o \in Operator, NEW r \in rows, NEW st \in Outcomes, Reconcile(o, r, st)
      PROVE  Contract!ContractNext \/ Silent
  BY <1>4, ReconcileReleases DEF PInv
<1>5. CASE \E w \in Worker : LockCandidate(w) \/ FindKey(w) \/ FindLatest(w) \/ LoseConnection(w)
  BY <1>1, <1>5 DEF LockCandidate, FindKey, FindLatest, Refused, LoseConnection, Crash, storeVars,
         OpenedIds
<1>6. CASE \/ UNCHANGED allVars \/ Tick
           \/ \E c \in Candidate, st \in {"Eligible", "Suppressed"} : UpdateLockedCandidate(c, st)
  BY <1>1, <1>6 DEF allVars, vars, historyVars, Tick, storeVars, UpdateLockedCandidate,
         UpdateNotificationCandidate, OpenedIds
<1> QED BY <1>2, <1>3, <1>4, <1>5, <1>6 DEF PNext, ClaimStep

\* Seen from the recipient, the interleaved claims over Postgres implement the
\* contract that the claim in one step implements.
THEOREM PostgresKeepsContract == PSpec => ImplementsContract
<1>1. PInit => Contract!ContractInit
  BY DEF PInit, Init, Contract!ContractInit
<1> QED BY <1>1, PContractStep, ClaimInvariant, PTL
       DEF PSpec, ImplementsContract, Contract!ContractSpec

-----------------------------------------------------------------------------
(* The reconciliation queue.                                               *)

LEMMA FirstOfFinite ==
  ASSUME NEW S, IsFiniteSet(S), NEW n \in Nat, NEW before, NEW F \in FirstOf(S, n, before)
  PROVE  /\ F \subseteq S /\ IsFiniteSet(F) /\ Cardinality(F) \in Nat /\ Cardinality(S) \in Nat
         /\ F = S \/ (Cardinality(F) = n /\ Cardinality(S) > n)
         /\ \A r \in S \ F, f \in F : <<r, f>> \notin before
<1>1. F \subseteq S /\ \A r \in S \ F, f \in F : <<r, f>> \notin before
  BY DEF FirstOf
<1>2. /\ IsFiniteSet(F) /\ Cardinality(F) <= Cardinality(S)
      /\ Cardinality(S) = Cardinality(F) => S = F
  BY <1>1, FS_Subset
<1>3. Cardinality(F) \in Nat /\ Cardinality(S) \in Nat
  BY <1>2, FS_CardinalityType
<1>4. F # S => Cardinality(F) = n
  BY DEF FirstOf
<1> QED BY <1>1, <1>2, <1>3, <1>4

\* An attempt that blocks its pair is listed, or the queue says that its scan or
\* its list was cut off, and what it lists comes first in the order of that cut.
THEOREM QueueHidesNothing == PSpec => []QueueOmitsNothing
<1>1. PInv => QueueOmitsNothing
  <2> SUFFICES ASSUME PInv, NEW q \in Queues, NEW r \in {x \in rows : x.state = "Prepared"}
               PROVE  \/ r \in q.items
                      \/ q.scan_limit_reached /\ \A item \in q.items : ~Newer(r, item)
                      \/ /\ q.item_limit_reached /\ q.prepared_count > Cardinality(q.items)
                         /\ \A item \in q.items : ~Before(r, item)
    BY DEF QueueOmitsNothing
  <2> DEFINE older == OldestFirst
             newer == NewerFirst
             prepared(scanned) == {x \in scanned : x.state = "Prepared"}
  <2>0. PICK scan \in ScanLimits, limit \in QueueLimits :
          \E scanned \in FirstOf(rows, scan, newer) :
            \E items \in FirstOf(prepared(scanned), limit, older) : q = Queue(scanned, items, scan, limit)
    BY DEF Queues
  <2>1. PICK scanned \in FirstOf(rows, scan, newer) :
          \E items \in FirstOf(prepared(scanned), limit, older) : q = Queue(scanned, items, scan, limit)
    BY <2>0
  <2>2. PICK items \in FirstOf(prepared(scanned), limit, older) : q = Queue(scanned, items, scan, limit)
    BY <2>1
  <2>3. PICK P : P = prepared(scanned)
    OBVIOUS
  <2>4. /\ q.items = items /\ q.prepared_count = Cardinality(P)
        /\ q.scan_limit_reached <=> Cardinality(scanned) = scan
        /\ q.item_limit_reached <=> Cardinality(P) > limit
    BY <2>2, <2>3 DEF Queue
  <2>5. /\ scanned \subseteq rows /\ IsFiniteSet(scanned)
        /\ scanned = rows \/ Cardinality(scanned) = scan
        /\ \A x \in rows \ scanned, y \in scanned : <<x, y>> \notin newer
    BY QueueAssumption, FirstOfFinite DEF PInv
  <2>6. P \subseteq scanned /\ IsFiniteSet(P)
    BY <2>3, <2>5, FS_Subset
  <2>7. items \in FirstOf(P, limit, older)
    BY <2>2, <2>3
  <2>8. /\ items \subseteq P /\ Cardinality(items) \in Nat /\ Cardinality(P) \in Nat
        /\ items = P \/ (Cardinality(items) = limit /\ Cardinality(P) > limit)
        /\ \A x \in P \ items, y \in items : <<x, y>> \notin older
    BY <2>6, <2>7, QueueAssumption, FirstOfFinite
  <2>9. items \subseteq rows
    BY <2>5, <2>6, <2>8
  <2>10. CASE r \notin scanned
    <3>1. \A item \in q.items : ~Newer(r, item)
      BY <2>4, <2>5, <2>6, <2>8, <2>9, <2>10 DEF NewerFirst
    <3> QED BY <2>4, <2>5, <2>10, <3>1
  <2>11. CASE r \in scanned /\ r \notin items
    <3>1. r \in P \ items
      BY <2>3, <2>11
    <3>2. q.item_limit_reached /\ q.prepared_count > Cardinality(q.items)
      BY <2>4, <2>8, <3>1
    <3>3. \A item \in q.items : ~Before(r, item)
      BY <2>4, <2>8, <2>9, <3>1 DEF OldestFirst
    <3> QED BY <3>2, <3>3
  <2> QED BY <2>4, <2>10, <2>11
<1> QED BY <1>1, ClaimInvariant, PTL
=============================================================================

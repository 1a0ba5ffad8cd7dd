---------------------------- MODULE PostgresClaim ----------------------------
(***************************************************************************)
(* Delivery over the Postgres store, where a claim is not one step: it     *)
(* locks the candidate's row, looks the key up, reads the latest attempt   *)
(* and inserts, each statement seeing what is committed by then (READ      *)
(* COMMITTED), and updates of attempts lock nothing.                       *)
(*                                                                         *)
(* Threads, adapters and operators are those of Delivery; the claim is     *)
(* replaced.  reconcile_prepared_delivery_attempt reads and writes its row *)
(* under a lock and stays one step.                                        *)
(*                                                                         *)
(* External: Postgres releases a transaction's locks when it ends, hands   *)
(* them to those who wait, and an insert waits for an uncommitted one of   *)
(* the same key, so that inserting and committing are one step here.       *)
(***************************************************************************)
EXTENDS Delivery

VARIABLES
  holder, \* candidate -> the thread that has its row locked
  seen    \* thread -> the latest attempt its transaction read

postgresVars == <<holder, seen>>
allVars == <<vars, postgresVars>>

\* None is no thread and no attempt.
ASSUME PostgresAssumption == Null \notin Worker \cup Attempt

InTransaction == {"find key", "find latest", "insert"}

PInit ==
  /\ Init
  /\ holder = [c \in Candidate |-> Null]
  /\ seen = [w \in Worker |-> Null]

\* The transaction of w ends, and with it its lock.
Released(w) ==
  /\ holder' = [c \in Candidate |-> IF holder[c] = w THEN Null ELSE holder[c]]
  /\ seen' = [seen EXCEPT ![w] = Null]

\* The claim raises: the transaction is rolled back.
Refused(w) ==
  /\ Finished(w)
  /\ Released(w)
  /\ UNCHANGED rows

\* Mutant: SELECT without FOR UPDATE.
ReadCandidate(w) ==
  /\ pc[w] = "claim"
  /\ IF candidateState[local[w].candidate] = "Eligible"
     THEN pc' = [pc EXCEPT ![w] = "find key"] /\ UNCHANGED <<rows, local, postgresVars>>
     ELSE Refused(w)
  /\ UNCHANGED <<candidateState, now, historyVars>>

\* SELECT ... FOR UPDATE waits for the row, and then sees its latest version.
LockCandidate(w) ==
  /\ pc[w] = "claim"
  /\ holder[local[w].candidate] = Null
  /\ IF candidateState[local[w].candidate] = "Eligible"
     THEN /\ holder' = [holder EXCEPT ![local[w].candidate] = w]
          /\ pc' = [pc EXCEPT ![w] = "find key"]
          /\ UNCHANGED <<rows, local, seen>>
     ELSE Refused(w)
  /\ UNCHANGED <<candidateState, now, historyVars>>

\* The row under the key of w's request, if there is one: another pair's is
\* refused, its own is returned, and a replayed live attempt is marked again.
FindKey(w) ==
  LET found == {r \in rows : r.key = local[w].key}
  IN  /\ pc[w] = "find key"
      /\ \/ /\ found = {}
            /\ pc' = [pc EXCEPT ![w] = "find latest"]
            /\ UNCHANGED <<local, postgresVars>>
         \/ \E r \in found :
              /\ Released(w)
              /\ IF SamePair(r, local[w]) /\ NeedsLiveMark(r)
                 THEN /\ pc' = [pc EXCEPT ![w] = "markReplay"]
                      /\ local' = [local EXCEPT ![w] = r]
                 ELSE Finished(w)
      /\ UNCHANGED <<storeVars, now, historyVars>>

\* Mutant: an attempt in flight does not stop the next one.
FindLatestSettledOnly(w) ==
  /\ pc[w] = "find latest"
  /\ IF \E r \in rows : IsLatest(r, local[w]) /\ r.state = "Succeeded"
     THEN Refused(w)
     ELSE /\ seen' = [seen EXCEPT ![w] = IF \E r \in rows : IsLatest(r, local[w])
                                         THEN CHOOSE r \in rows : IsLatest(r, local[w])
                                         ELSE Null]
          /\ pc' = [pc EXCEPT ![w] = "insert"]
          /\ UNCHANGED <<rows, local, holder>>
  /\ UNCHANGED <<candidateState, now, historyVars>>

\* Mutant: a claim that is refused leaves its transaction open.
FindLatestLeftOpen(w) ==
  /\ pc[w] = "find latest"
  /\ \/ /\ \A r \in rows : ~SamePair(r, local[w])
        /\ pc' = [pc EXCEPT ![w] = "insert"]
        /\ UNCHANGED <<local, postgresVars>>
     \/ /\ \E r \in rows : SamePair(r, local[w])
        /\ Finished(w)
        /\ UNCHANGED postgresVars
  /\ UNCHANGED <<storeVars, now, historyVars>>

FindLatest(w) ==
  /\ pc[w] = "find latest"
  /\ \/ /\ \A r \in rows : ~SamePair(r, local[w])
        /\ pc' = [pc EXCEPT ![w] = "insert"]
        /\ UNCHANGED <<rows, local, postgresVars>>
     \/ \E r \in rows :
          /\ IsLatest(r, local[w])
          /\ IF r.state = "Failed" /\ RetryIsDue(r, local[w].created_at)
             THEN /\ seen' = [seen EXCEPT ![w] = r]
                  /\ pc' = [pc EXCEPT ![w] = "insert"]
                  /\ UNCHANGED <<rows, local, holder>>
             ELSE Refused(w)
  /\ UNCHANGED <<candidateState, now, historyVars>>

Numbered(w) == NewAttempt(local[w], IF seen[w] = Null THEN 1 ELSE seen[w].number + 1)

\* Mutant: the keys are not UNIQUE.
ViolatesNumberOnly(a) == \E r \in rows : Id(r) = Id(a)

\* The UNIQUE constraints of delivery_attempts.
ViolatesUnique(a) == \E r \in rows : r.key = a.key \/ Id(r) = Id(a)

InsertAttempt(w) ==
  /\ pc[w] = "insert"
  /\ LET a == Numbered(w)
     IN  IF ViolatesUnique(a)
         THEN Refused(w)
         ELSE /\ rows' = rows \cup {a}
              /\ local' = [local EXCEPT ![w] = a]
              /\ pc' = [pc EXCEPT ![w] = IF NeedsLiveMark(a) THEN "mark" ELSE "deliver"]
              /\ Released(w)
  /\ UNCHANGED <<candidateState, now, historyVars>>

ClaimStep(w) == FindKey(w) \/ FindLatest(w) \/ InsertAttempt(w)

\* UPDATE notification_candidates waits for the lock of a claim.
UpdateLockedCandidate(c, st) ==
  /\ holder[c] = Null
  /\ UpdateNotificationCandidate(c, st)
  /\ UNCHANGED postgresVars

\* The connection is lost: what was not committed is rolled back.
LoseConnection(w) ==
  /\ Crash(w)
  /\ Released(w)

\* What a thread does outside the claim is as in Delivery.
OutsideClaim(w) ==
  /\ \/ \E c \in Candidate, a \in Adapters, k \in Key :
          Begin(w, [candidate |-> c, adapter |-> a, key |-> k, created_at |-> now])
     \/ MarkLive(w) \/ MarkReplayLive(w)
     \/ DeliverAccepted(w) \/ DeliverRejected(w) \/ DeliverUncertain(w)
     \/ RecordSuccess(w) \/ RecordFailure(w)
  /\ UNCHANGED postgresVars

PNext ==
  \/ \E c \in Candidate, st \in {"Eligible", "Suppressed"} : UpdateLockedCandidate(c, st)
  \/ \E w \in Worker : LockCandidate(w) \/ ClaimStep(w) \/ OutsideClaim(w) \/ LoseConnection(w)
  \/ /\ \/ \E o \in Operator, r \in rows, outcome \in Outcomes : Reconcile(o, r, outcome)
        \/ Tick
     /\ UNCHANGED postgresVars

PSpec == PInit /\ [][PNext]_allVars

-----------------------------------------------------------------------------
(* Properties: OneAttemptPerKey and ImplementsContract of Delivery, and    *)

\* An attempt appears only while its candidate is Eligible, although its state
\* was read three statements earlier: a candidate Suppressed meanwhile waits
\* (postgres_storage.py:567 FOR UPDATE).
ClaimsWhileEligible ==
  [][\A a \in rows' :
       (\A r \in rows : Id(r) # Id(a)) => candidateState[a.candidate] = "Eligible"]_allVars

\* A row is locked only by a thread that is in the middle of a claim for it:
\* whatever way a claim ends, refused, replayed, in a unique violation or with
\* its connection lost, nobody waits for it any longer (postgres_storage.py:560).
LocksBelongToClaims ==
  \A c \in Candidate : holder[c] # Null =>
    pc[holder[c]] \in InTransaction /\ local[holder[c]].candidate = c
=============================================================================

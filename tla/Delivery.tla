------------------------------ MODULE Delivery ------------------------------
(***************************************************************************)
(* Delivery attempts of one workspace: the attempt table of the store, the *)
(* request threads that claim an attempt, call an adapter and record the   *)
(* result, and the operators who reconcile attempts left Prepared.         *)
(*                                                                         *)
(* A store call is one transaction (BEGIN IMMEDIATE in SQLite, the RLock   *)
(* of the memory store), hence one action.  Between two store calls other  *)
(* threads run, and a thread holds on to the attempt it read: that copy is *)
(* local[w].  update_delivery_attempt writes the whole copy back without   *)
(* looking at the stored row.                                              *)
(*                                                                         *)
(* Left out: wording of errors and summaries, claim_owner, source_id.      *)
(* Bound: MaxTime.  The keys callers use bound the number of attempts.     *)
(***************************************************************************)
EXTENDS Naturals, FiniteSets

CONSTANTS
  Candidate,   \* notification candidates
  Adapters,    \* adapters callers use, among AdapterNames
  Key,         \* idempotency keys callers use
  Worker,      \* request threads
  Operator,    \* people resolving Prepared attempts
  RetryDelay,  \* delivery_retry_minutes of the source
  MaxTime,     \* bound of the clock
  Null,        \* Python's None
  Nothing      \* what an idle thread holds

AdapterNames == {"dry-run", "teams-workflow", "resend-email"}
LiveAdapters == {"teams-workflow", "resend-email"}

ASSUME DeliveryAssumption ==
  /\ Adapters \subseteq AdapterNames
  /\ RetryDelay \in Nat
  /\ MaxTime \in Nat
  /\ Null \notin Nat

VARIABLES
  candidateState, \* candidate -> state in notification_candidates
  rows,           \* the rows of delivery_attempts
  now,            \* minutes
  pc,             \* thread -> the call it makes next
  local,          \* thread -> the request or the attempt it holds
  \* What happened outside the store, never read by the actions' guards:
  sends,          \* attempts whose adapter was called
  accepted,       \* attempts the recipient's side accepted
  rejections,     \* attempts whose own thread was told of a definitive failure
  verdicts        \* what operators decided: <<attempt id, outcome>>

storeVars   == <<candidateState, rows>>
historyVars == <<sends, accepted, rejections, verdicts>>
vars == <<candidateState, rows, now, pc, local, sends, accepted, rejections, verdicts>>

-----------------------------------------------------------------------------
CandidateStates == {"Pending", "Eligible", "Suppressed"}
AttemptStates   == {"Prepared", "Succeeded", "Failed"}
Outcomes        == {"Succeeded", "Failed"}

Attempt ==
  [candidate: Candidate, adapter: AdapterNames, number: Nat \ {0}, key: Key,
   mode: {"DRY_RUN", "LIVE"}, state: AttemptStates, created_at: Nat,
   completed_at: Nat \cup {Null}, reconciled_by: Operator \cup {Null}]

Request == [candidate: Candidate, adapter: AdapterNames, key: Key, created_at: Nat]

AttemptId == Candidate \X AdapterNames \X (Nat \ {0})

\* The id of an attempt is candidate:adapter:number.
Id(r) == <<r.candidate, r.adapter, r.number>>

\* x and y (requests or attempts) are about the same candidate and adapter.
SamePair(x, y) == x.candidate = y.candidate /\ x.adapter = y.adapter

Init ==
  /\ candidateState = [c \in Candidate |-> "Pending"]
  /\ rows = {}
  /\ now = 0
  /\ pc = [w \in Worker |-> "idle"]
  /\ local = [w \in Worker |-> Nothing]
  /\ sends = {}
  /\ accepted = {}
  /\ rejections = {}
  /\ verdicts = {}

-----------------------------------------------------------------------------
(* The store.                                                              *)

\* update_notification_candidate overwrites whatever is there; the policy
\* evaluation that calls it decides Eligible or Suppressed.
UpdateNotificationCandidate(c, st) ==
  /\ candidateState' = [candidateState EXCEPT ![c] = st]
  /\ UNCHANGED <<rows, now, pc, local, historyVars>>

IsLatest(r, q) == \* r is the row of highest number for the pair of q
  /\ r \in rows
  /\ SamePair(r, q)
  /\ \A s \in rows : SamePair(s, q) => s.number <= r.number

KeyTaken(k) == \E r \in rows : r.key = k

\* Mutant: the delay is subtracted.
RetryIsDueEarly(r, at) == r.completed_at # Null /\ at + RetryDelay >= r.completed_at

RetryIsDue(r, at) == r.completed_at # Null /\ at >= r.completed_at + RetryDelay

\* Mutant: a Prepared attempt that is past the delay may be retried.
MayClaimAbandoned(q, n) ==
  /\ candidateState[q.candidate] = "Eligible"
  /\ ~KeyTaken(q.key)
  /\ \/ /\ \A r \in rows : ~SamePair(r, q)
        /\ n = 1
     \/ \E r \in rows :
          /\ IsLatest(r, q)
          /\ r.state # "Succeeded"
          /\ q.created_at >= r.created_at + RetryDelay
          /\ n = r.number + 1

\* The next attempt for q gets number n.
MayClaim(q, n) ==
  /\ candidateState[q.candidate] = "Eligible"
  /\ ~KeyTaken(q.key)
  /\ \/ /\ \A r \in rows : ~SamePair(r, q)
        /\ n = 1
     \/ \E r \in rows :
          /\ IsLatest(r, q)
          /\ r.state = "Failed"
          /\ RetryIsDue(r, q.created_at)
          /\ n = r.number + 1

\* The row an earlier request left under the key of q.
Replays(q, r) ==
  /\ candidateState[q.candidate] = "Eligible"
  /\ r \in rows
  /\ r.key = q.key
  /\ SamePair(r, q)

\* Mutant: attempts are numbered from zero.
NewAttemptFromZero(q, n) ==
  [candidate |-> q.candidate, adapter |-> q.adapter, number |-> n - 1, key |-> q.key,
   mode |-> "DRY_RUN", state |-> "Prepared", created_at |-> q.created_at,
   completed_at |-> Null, reconciled_by |-> Null]

NewAttempt(q, n) ==
  [candidate |-> q.candidate, adapter |-> q.adapter, number |-> n, key |-> q.key,
   mode |-> "DRY_RUN", state |-> "Prepared", created_at |-> q.created_at,
   completed_at |-> Null, reconciled_by |-> Null]

\* UPDATE delivery_attempts SET attempt_json = ... WHERE id = ...
Overwritten(a) == {r \in rows : Id(r) # Id(a)} \cup {a}

-----------------------------------------------------------------------------
(* Request threads: dry_run_delivery, deliver_teams_candidate and          *)
(* deliver_email_candidate.                                                *)

\* The handler is entered: it takes the time and reads the candidate and its
\* source, which are there (neither is ever deleted).
Begin(w, q) ==
  /\ pc[w] = "idle"
  /\ q.created_at = now
  /\ pc' = [pc EXCEPT ![w] = "claim"]
  /\ local' = [local EXCEPT ![w] = q]
  /\ UNCHANGED <<storeVars, now, historyVars>>

NeedsLiveMark(a) == a.adapter \in LiveAdapters /\ a.mode # "LIVE"

Finished(w) ==
  /\ pc' = [pc EXCEPT ![w] = "idle"]
  /\ local' = [local EXCEPT ![w] = Nothing]

\* claim_delivery_attempt inserts a new Prepared row.
ClaimNew(w, n) ==
  /\ pc[w] = "claim"
  /\ MayClaim(local[w], n)
  /\ LET a == NewAttempt(local[w], n)
     IN  /\ rows' = rows \cup {a}
         /\ local' = [local EXCEPT ![w] = a]
         /\ pc' = [pc EXCEPT ![w] = IF NeedsLiveMark(a) THEN "mark" ELSE "deliver"]
  /\ UNCHANGED <<candidateState, now, historyVars>>

\* Mutant: the callers forget to return when the claim was replayed.
ClaimReplayAndDeliver(w, r) ==
  /\ pc[w] = "claim"
  /\ Replays(local[w], r)
  /\ pc' = [pc EXCEPT ![w] = IF NeedsLiveMark(r) THEN "mark" ELSE "deliver"]
  /\ local' = [local EXCEPT ![w] = r]
  /\ UNCHANGED <<storeVars, now, historyVars>>

\* claim_delivery_attempt finds the key: the caller gets the stored attempt.
ClaimReplay(w, r) ==
  /\ pc[w] = "claim"
  /\ Replays(local[w], r)
  /\ IF NeedsLiveMark(r)
     THEN /\ pc' = [pc EXCEPT ![w] = "markReplay"]
          /\ local' = [local EXCEPT ![w] = r]
     ELSE Finished(w)
  /\ UNCHANGED <<storeVars, now, historyVars>>

\* claim_delivery_attempt raises.
ClaimRefused(w) ==
  /\ pc[w] = "claim"
  /\ \A r \in rows : ~Replays(local[w], r)
  /\ \A n \in {1} \cup {r.number + 1 : r \in rows} : ~MayClaim(local[w], n)
  /\ Finished(w)
  /\ UNCHANGED <<storeVars, now, historyVars>>

\* Mutant: the mode is set on the copy only.
MarkLiveLocally(w) ==
  /\ pc[w] = "mark"
  /\ local' = [local EXCEPT ![w].mode = "LIVE"]
  /\ pc' = [pc EXCEPT ![w] = "deliver"]
  /\ UNCHANGED <<storeVars, now, historyVars>>

MarkedLive(a) == [a EXCEPT !.mode = "LIVE"]

\* The claimant of a live attempt writes its copy back with mode LIVE.
MarkLive(w) ==
  /\ pc[w] = "mark"
  /\ LET a == MarkedLive(local[w])
     IN  /\ rows' = Overwritten(a)
         /\ local' = [local EXCEPT ![w] = a]
  /\ pc' = [pc EXCEPT ![w] = "deliver"]
  /\ UNCHANGED <<candidateState, now, historyVars>>

\* So does a thread that replays a key, before it returns.
MarkReplayLive(w) ==
  /\ pc[w] = "markReplay"
  /\ rows' = Overwritten(MarkedLive(local[w]))
  /\ Finished(w)
  /\ UNCHANGED <<candidateState, now, historyVars>>

\* adapter.deliver returns normally.
DeliverAccepted(w) ==
  /\ pc[w] = "deliver"
  /\ sends' = sends \cup {Id(local[w])}
  /\ accepted' = accepted \cup {Id(local[w])}
  /\ pc' = [pc EXCEPT ![w] = "recordSuccess"]
  /\ UNCHANGED <<storeVars, now, local, rejections, verdicts>>

\* adapter.deliver raises the adapter's rejection, or the dry run fails.
\* Resend can answer 2xx with no email id: the adapter reports a rejection
\* of a message that was accepted.
DeliverRejected(w) ==
  /\ pc[w] = "deliver"
  /\ sends' = sends \cup {Id(local[w])}
  /\ \/ accepted' = accepted
     \/ /\ local[w].adapter = "resend-email"
        /\ accepted' = accepted \cup {Id(local[w])}
  /\ rejections' = rejections \cup {Id(local[w])}
  /\ pc' = [pc EXCEPT ![w] = "recordFailure"]
  /\ UNCHANGED <<storeVars, now, local, verdicts>>

\* Mutant: a transport error is recorded as a failure.
DeliverUncertainFails(w) ==
  /\ pc[w] = "deliver"
  /\ local[w].adapter \in LiveAdapters
  /\ sends' = sends \cup {Id(local[w])}
  /\ \/ accepted' = accepted
     \/ accepted' = accepted \cup {Id(local[w])}
  /\ pc' = [pc EXCEPT ![w] = "recordFailure"]
  /\ UNCHANGED <<storeVars, now, local, rejections, verdicts>>

\* A transport error (httpx.RequestError): the provider may or may not have
\* accepted the message; the thread returns and the row is left as it is.  A
\* reply that cannot be decoded and a crash during the call leave the same.
DeliverUncertain(w) ==
  /\ pc[w] = "deliver"
  /\ local[w].adapter \in LiveAdapters
  /\ sends' = sends \cup {Id(local[w])}
  /\ \/ accepted' = accepted
     \/ accepted' = accepted \cup {Id(local[w])}
  /\ Finished(w)
  /\ UNCHANGED <<storeVars, now, rejections, verdicts>>

\* The attempt as the thread completes it: its own copy, completed at the
\* time the request was made.
Completed(a, outcome) == [a EXCEPT !.state = outcome, !.completed_at = a.created_at]

RecordSuccess(w) ==
  /\ pc[w] = "recordSuccess"
  /\ rows' = Overwritten(Completed(local[w], "Succeeded"))
  /\ Finished(w)
  /\ UNCHANGED <<candidateState, now, historyVars>>

RecordFailure(w) ==
  /\ pc[w] = "recordFailure"
  /\ rows' = Overwritten(Completed(local[w], "Failed"))
  /\ Finished(w)
  /\ UNCHANGED <<candidateState, now, historyVars>>

\* The process stops, or a store call fails: the thread is gone, the rows stay.
Crash(w) ==
  /\ pc[w] # "idle"
  /\ Finished(w)
  /\ UNCHANGED <<storeVars, now, historyVars>>

-----------------------------------------------------------------------------
(* Operators.                                                              *)

Reconciled(r, o, outcome) ==
  [r EXCEPT !.state = outcome, !.completed_at = now, !.reconciled_by = o]

\* reconcile_prepared_delivery_attempt: read and written in one transaction.
Reconcile(o, r, outcome) ==
  /\ r \in rows
  /\ r.state = "Prepared"
  /\ rows' = Overwritten(Reconciled(r, o, outcome))
  /\ verdicts' = verdicts \cup {<<Id(r), outcome>>}
  /\ UNCHANGED <<candidateState, now, pc, local, sends, accepted, rejections>>

\* Mutant: at the moment the delay ends the retry is not due yet.
RetryDecisionDueLater(c, a) ==
  LET mine == {r \in rows : r.candidate = c /\ r.adapter = a}
  IN  /\ candidateState[c] = "Eligible"
      /\ \A r \in mine :
           (\A s \in mine : s.number <= r.number) =>
             /\ r.state \notin {"Succeeded", "Prepared"}
             /\ r.completed_at # Null
             /\ now > r.completed_at + RetryDelay

\* delivery_retry_decision, the read-only answer to "may this be retried now?".
RetryDecisionDue(c, a) ==
  LET mine == {r \in rows : r.candidate = c /\ r.adapter = a}
  IN  /\ candidateState[c] = "Eligible"
      /\ \A r \in mine :
           (\A s \in mine : s.number <= r.number) =>
             /\ r.state \notin {"Succeeded", "Prepared"}
             /\ r.completed_at # Null
             /\ now >= r.completed_at + RetryDelay

Tick ==
  /\ now < MaxTime
  /\ now' = now + 1
  /\ UNCHANGED <<storeVars, pc, local, historyVars>>

-----------------------------------------------------------------------------
Next ==
  \/ \E c \in Candidate, st \in {"Eligible", "Suppressed"} :
       UpdateNotificationCandidate(c, st)
  \/ \E w \in Worker :
       \/ \E c \in Candidate, a \in Adapters, k \in Key :
            Begin(w, [candidate |-> c, adapter |-> a, key |-> k, created_at |-> now])
       \/ \E n \in {1} \cup {r.number + 1 : r \in rows} : ClaimNew(w, n)
       \/ \E r \in rows : ClaimReplay(w, r)
       \/ ClaimRefused(w)
       \/ MarkLive(w)
       \/ MarkReplayLive(w)
       \/ DeliverAccepted(w)
       \/ DeliverRejected(w)
       \/ DeliverUncertain(w)
       \/ RecordSuccess(w)
       \/ RecordFailure(w)
       \/ Crash(w)
  \/ \E o \in Operator, r \in rows, outcome \in Outcomes : Reconcile(o, r, outcome)
  \/ Tick

Spec == Init /\ [][Next]_vars

-----------------------------------------------------------------------------
(* Properties.                                                             *)

\* The pcs at which a thread holds an attempt, and those at which it is the
\* one that claimed it.
Claiming == {"mark", "deliver", "recordSuccess", "recordFailure"}
Holding  == Claiming \cup {"markReplay"}

\* The type invariant: a thread holds a request until it claims, then a copy
\* of a row.
TypeOK ==
  /\ candidateState \in [Candidate -> CandidateStates]
  /\ rows \subseteq Attempt
  /\ now \in Nat
  /\ pc \in [Worker -> Holding \cup {"idle", "claim"}]
  /\ local \in [Worker -> Attempt \cup Request \cup {Nothing}]
  /\ \A w \in Worker :
       /\ pc[w] = "claim" => local[w] \in Request
       /\ pc[w] \in Holding => local[w] \in Attempt
  /\ sends \subseteq AttemptId
  /\ accepted \subseteq AttemptId
  /\ rejections \subseteq AttemptId
  /\ verdicts \subseteq AttemptId \X Outcomes

\* An attempt may be followed by another: the thread that made it was told of
\* a definitive failure, or an operator decided that it failed.
Excused(i) == i \in rejections \/ <<i, "Failed">> \in verdicts

\* An attempt whose fate is unknown is never retried: "Preserve Prepared so
\* an operator must reconcile before any retry" (email_delivery.py:215).
\* Crashes, transport errors and copies written back late included.
NoBlindRetry ==
  \A r, s \in rows : SamePair(r, s) /\ r.number < s.number => Excused(Id(r))

\* The adapter is called at most once for an attempt: a thread about to call
\* it is the only one that will, and it was not called before.  Replays of a
\* key and crashed threads included.
SendOnce ==
  \A w \in Worker : pc[w] = "deliver" =>
    /\ Id(local[w]) \notin sends
    /\ \A v \in Worker \ {w} :
         pc[v] \in Claiming => Id(local[v]) # Id(local[w])

\* Whoever reads the table knows of every call that left the machine: the
\* row of an attempt whose live adapter was called says LIVE, although the
\* claim inserts it as DRY_RUN and late writers replace it.
LiveSendsMarked ==
  \A r \in rows : Id(r) \in sends /\ r.adapter \in LiveAdapters => r.mode = "LIVE"

\* Attempts for one candidate and adapter are created at least the retry
\* delay apart, whether their predecessor failed or was reconciled, and
\* although a thread uses the time at which its request began.
RetrySpacing ==
  \A r, s \in rows :
    SamePair(r, s) /\ r.number < s.number => s.created_at >= r.created_at + RetryDelay

\* An idempotency key belongs to one attempt, for ever.
OneAttemptPerKey == \A r, s \in rows : r.key = s.key => Id(r) = Id(s)

\* The attempts of a pair are numbered 1, 2, ... and a number has one row.
NumbersContiguous ==
  /\ \A r, s \in rows : Id(r) = Id(s) => r = s
  /\ \A r \in rows :
       r.number > 1 => \E s \in rows : SamePair(r, s) /\ s.number = r.number - 1

\* delivery_retry_decision and claim_delivery_attempt, which decide the same
\* question in two places, agree on every reachable table.
DecisionAgreesWithClaim ==
  \A c \in Candidate, a \in Adapters, k \in Key :
    ~KeyTaken(k) =>
      (RetryDecisionDue(c, a)
         <=> \E n \in {1} \cup {r.number + 1 : r \in rows} :
               MayClaim([candidate |-> c, adapter |-> a, key |-> k, created_at |-> now], n))

\* The recipient's view of all this.
Contract == INSTANCE DeliveryContract WITH
  opened   <- {Id(r) : r \in rows},
  called   <- sends,
  released <- rejections \cup {v[1] : v \in {x \in verdicts : x[2] = "Failed"}}

\* Whatever happens to the rows, delivery keeps its contract.
ImplementsContract == Contract!ContractSpec

\* Once an operator reconciled an attempt as Succeeded, and none as Failed,
\* there is no further attempt (tests/test_attempt_reconciliation.py:144).
ReconciledSuccessBlocksAttempts ==
  [][\A v \in verdicts : v[2] = "Succeeded" /\ <<v[1], "Failed">> \notin verdicts' =>
       \A r \in rows' : r.candidate = v[1][1] /\ r.adapter = v[1][2]
                          => \E s \in rows : Id(s) = Id(r)]_vars

\* Without an operator's decision the recipient gets one message at most: a
\* rejection is definitive (email_delivery.py:152).
RejectionIsDefinitive ==
  \A i, j \in accepted :
    i[1] = j[1] /\ i[2] = j[2] /\ i # j => \E v \in verdicts : v[1] \in {i, j}
=============================================================================

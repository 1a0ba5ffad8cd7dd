---------------------------- MODULE Credentials ----------------------------
(***************************************************************************)
(* One stored provider credential: connecting and reconnecting it through  *)
(* OAuth, refreshing it when a check finds its access token expired, and   *)
(* revoking it.                                                            *)
(*                                                                         *)
(* Each read or write of a store is one action, as is each request to the  *)
(* provider.  Writers of the credential serialise on its row (Postgres) or *)
(* file (SQLite); a refresh holds that lock while it talks to the          *)
(* provider.  Readers do not wait.  What a thread has read is its work[t]. *)
(*                                                                         *)
(* Left out: encryption (a token is a number), scopes, names, the access   *)
(* token beyond its expiry, and the source's type and workspace.  Two      *)
(* clock readings are never equal.  Bounds: MaxTokens, MaxTime.            *)
(***************************************************************************)
EXTENDS Naturals, FiniteSets

CONSTANTS
  Connector,        \* threads that start authorizations and serve callbacks
  Resolver,         \* threads that resolve the credential for a check
  Revoker,          \* threads that revoke it
  Account,          \* accounts at the provider
  Transaction,      \* ids of authorization transactions
  AuthorizationTTL, \* life of a transaction
  AccessTTL,        \* life of an access token
  ReconnectOmits,   \* a reconnect may get no refresh token
  MaxTokens,        \* bound of the refresh tokens issued
  MaxTime,          \* bound of the clock
  Null              \* Python's None

ASSUME CredentialsAssumption ==
  /\ {AuthorizationTTL, AccessTTL} \subseteq Nat \ {0}
  /\ {MaxTokens, MaxTime} \subseteq Nat
  /\ ReconnectOmits \in BOOLEAN
  /\ Null \notin Nat \cup Account \cup Transaction

VARIABLES
  record,       \* the row of provider_credentials, or Null
  transactions, \* the rows of oauth_authorization_transactions
  lock,         \* the thread that refreshes, or Null
  now,
  pc,           \* thread -> what it does next
  work,         \* thread -> what it has read
  \* The provider:
  issued,       \* refresh tokens issued: 1..issued
  live,         \* those it still accepts
  \* History, never read by the guards of actions:
  spent,        \* transaction -> code exchanges made and denials taken for it
  lost          \* tokens replaced by one that was never stored

vars == <<record, transactions, lock, now, pc, work, issued, live, spent, lost>>
stored == <<record, transactions>>
provider == <<issued, live, spent, lost>>

Thread == Connector \cup Resolver \cup Revoker

Operation == {"connect", "reconnect"}

Record ==
  [subject_id: Account, refresh_token: Nat \cup {Null}, expires_at: Nat \cup {Null},
   created_at: Nat, updated_at: Nat, revoked_at: Nat \cup {Null}]

TransactionRow ==
  [operation: Operation, expires_at: Nat, consumed_at: Nat \cup {Null}]

\* None is no thread, operation or row.
ASSUME NullAssumption == Null \notin Thread \cup Operation \cup Record \cup TransactionRow

Step ==
  {"idle", "create", "consume", "read", "exchange", "upsert",
   "clock", "lock", "rotate", "store", "revoke"}

Work ==
  [operation: Operation \cup {Null}, transaction: Transaction \cup {Null},
   denied: BOOLEAN, at: Nat, existing: Record \cup {Null}, replacement: Record \cup {Null},
   omitted: BOOLEAN]

NoWork ==
  [operation |-> Null, transaction |-> Null, denied |-> FALSE, at |-> 0,
   existing |-> Null, replacement |-> Null, omitted |-> FALSE]

Init ==
  /\ record = Null
  /\ transactions = [x \in Transaction |-> Null]
  /\ lock = Null
  /\ now = 0
  /\ pc = [t \in Thread |-> "idle"]
  /\ work = [t \in Thread |-> NoWork]
  /\ issued = 0
  /\ live = {}
  /\ spent = [x \in Transaction |-> 0]
  /\ lost = {}

Goto(t, step, w) ==
  /\ pc' = [pc EXCEPT ![t] = step]
  /\ work' = [work EXCEPT ![t] = w]

Finish(t) == Goto(t, "idle", NoWork)

\* datetime.now(): later than every reading before.
ReadClock ==
  /\ now < MaxTime
  /\ now' = now + 1

\* Seals tokens for a fresh record; refresh is Null if there is none.
SealProviderCredential(subject, refresh, expires, at) ==
  [subject_id |-> subject, refresh_token |-> refresh, expires_at |-> expires,
   created_at |-> at, updated_at |-> at, revoked_at |-> Null]

\* Mutants: created_at, or the revocation, is not compared.
ReplacementOfAnyAge(e, r) ==
  /\ e.subject_id = r.subject_id
  /\ r.updated_at >= e.updated_at
  /\ e.revoked_at # Null => r.revoked_at # Null
ReplacementOfRevoked(e, r) ==
  /\ e.subject_id = r.subject_id
  /\ e.created_at = r.created_at
  /\ r.updated_at >= e.updated_at

\* validate_credential_replacement accepts r in place of e.
ValidReplacement(e, r) ==
  /\ e.subject_id = r.subject_id
  /\ e.created_at = r.created_at
  /\ r.updated_at >= e.updated_at
  /\ e.revoked_at # Null => r.revoked_at # Null

\* An operation may go on with the credential e.
ValidCredentialOperation(operation, e) ==
  IF operation = "connect" THEN e = Null ELSE e # Null /\ e.revoked_at = Null

-----------------------------------------------------------------------------
(* Connect and reconnect.                                                  *)

\* POST /api/oauth/.../start: the credential is looked up...
StartAuthorization(t, operation) ==
  /\ pc[t] = "idle"
  /\ IF ValidCredentialOperation(operation, record)
     THEN Goto(t, "create", [NoWork EXCEPT !.operation = operation])
     ELSE Finish(t)
  /\ UNCHANGED <<stored, lock, now, provider>>

\* ...and the transaction persisted; the browser goes to the provider.
CreateTransaction(t) ==
  /\ pc[t] = "create"
  /\ ReadClock
  /\ \E x \in Transaction :
       /\ transactions[x] = Null
       /\ transactions' = [transactions EXCEPT ![x] =
            [operation   |-> work[t].operation,
             expires_at  |-> now' + AuthorizationTTL,
             consumed_at |-> Null]]
  /\ Finish(t)
  /\ UNCHANGED <<record, lock, provider>>

\* GET /api/oauth/.../callback, with a code or the provider's denial.  The
\* browser may come back more than once, and late.
ReceiveCallback(t, x, denied) ==
  /\ pc[t] = "idle"
  /\ transactions[x] # Null
  /\ ReadClock
  /\ Goto(t, "consume",
          [NoWork EXCEPT !.transaction = x, !.denied = denied, !.at = now'])
  /\ UNCHANGED <<stored, lock, provider>>

\* Mutant: only the expiry is looked at.
MayConsumeAgain(x, at) == at < transactions[x].expires_at

MayConsume(x, at) == transactions[x].consumed_at = Null /\ at < transactions[x].expires_at

Consume(t) ==
  LET x == work[t].transaction
  IN  /\ pc[t] = "consume"
      /\ IF MayConsume(x, work[t].at)
         THEN /\ transactions' = [transactions EXCEPT ![x].consumed_at = work[t].at]
              /\ IF work[t].denied
                 THEN Finish(t) /\ spent' = [spent EXCEPT ![x] = @ + 1]
                 ELSE Goto(t, "read", work[t]) /\ UNCHANGED spent
         ELSE Finish(t) /\ UNCHANGED <<transactions, spent>>
      /\ UNCHANGED <<record, lock, now, issued, live, lost>>

ReadExisting(t) ==
  /\ pc[t] = "read"
  /\ IF ValidCredentialOperation(transactions[work[t].transaction].operation, record)
     THEN Goto(t, "exchange", [work[t] EXCEPT !.existing = record])
     ELSE Finish(t)
  /\ UNCHANGED <<stored, lock, now, provider>>

\* What the callback writes: an existing record keeps its creation time, and
\* its refresh token if the provider gave none.
CallbackRecord(e, subject, refresh, expires, at) ==
  LET fresh == SealProviderCredential(subject, refresh, expires, at)
  IN  IF e = Null THEN fresh
      ELSE [fresh EXCEPT !.created_at = e.created_at,
                         !.refresh_token = IF refresh = Null THEN e.refresh_token ELSE refresh]

\* The refresh tokens an exchange may bring.
Grants(operation) ==
  {n \in {issued + 1} : n <= MaxTokens}
    \cup (IF operation = "reconnect" /\ ~ReconnectOmits THEN {} ELSE {Null})

\* The code is exchanged for tokens, and the account they belong to looked
\* up: the person at the browser may have signed in with any.
ExchangeCode(t) ==
  LET w == work[t]
      e == w.existing
  IN  /\ pc[t] = "exchange"
      /\ \E account \in Account, expires \in {Null, w.at + AccessTTL},
            refresh \in Grants(transactions[w.transaction].operation) :
           /\ IF refresh = Null
              THEN UNCHANGED <<issued, live>>
              ELSE issued' = refresh /\ live' = live \cup {refresh}
           /\ IF e # Null /\ account # e.subject_id
              THEN Finish(t)
              ELSE Goto(t, "upsert",
                        [w EXCEPT
                           !.replacement = CallbackRecord(e, account, refresh, expires, w.at),
                           !.omitted = (refresh = Null)])
      /\ spent' = [spent EXCEPT ![w.transaction] = @ + 1]
      /\ UNCHANGED <<stored, lock, now, lost>>

\* Waits while a refresh is under way.
Upsert(t) ==
  /\ pc[t] = "upsert"
  /\ lock = Null
  /\ record' = IF record = Null \/ ValidReplacement(record, work[t].replacement)
               THEN work[t].replacement
               ELSE record
  /\ Finish(t)
  /\ UNCHANGED <<transactions, lock, now, provider>>

-----------------------------------------------------------------------------
(* Resolution for a check, and refresh.                                    *)

GetForCheck(t) ==
  /\ pc[t] = "idle"
  /\ IF record # Null /\ record.revoked_at = Null
     THEN Goto(t, "clock", [NoWork EXCEPT !.existing = record])
     ELSE Finish(t)
  /\ UNCHANGED <<stored, lock, now, provider>>

Expired(e, at) == e.expires_at = Null \/ e.expires_at <= at

\* The access token read serves the check unless it has expired.
DecideRefresh(t) ==
  /\ pc[t] = "clock"
  /\ ReadClock
  /\ IF Expired(work[t].existing, now')
     THEN Goto(t, "lock", [NoWork EXCEPT !.at = now'])
     ELSE Finish(t)
  /\ UNCHANGED <<stored, lock, provider>>

\* What is stored is to be refreshed by a check made at this time.
MayRefresh(e, at) ==
  /\ e.revoked_at = Null
  /\ Expired(e, at)
  /\ at >= e.updated_at
  /\ e.refresh_token # Null

\* Mutant: the row is read without waiting for its lock.
ReadWithoutLock(t) ==
  /\ pc[t] = "lock"
  /\ IF record # Null /\ MayRefresh(record, work[t].at)
     THEN lock' = t /\ Goto(t, "rotate", [work[t] EXCEPT !.existing = record])
     ELSE Finish(t) /\ UNCHANGED lock
  /\ UNCHANGED <<stored, now, provider>>

\* _locked_credential_update: the row is locked and read again.
LockCredential(t) ==
  /\ pc[t] = "lock"
  /\ lock = Null
  /\ IF record # Null /\ MayRefresh(record, work[t].at)
     THEN lock' = t /\ Goto(t, "rotate", [work[t] EXCEPT !.existing = record])
     ELSE Finish(t) /\ UNCHANGED lock
  /\ UNCHANGED <<stored, now, provider>>

\* Mutant: the new refresh token is not kept.
RefreshedAccessOnly(e, refresh, at) ==
  [SealProviderCredential(e.subject_id, e.refresh_token, at + AccessTTL, at)
     EXCEPT !.created_at = e.created_at]

\* The record a refresh writes: the token the provider returned, if it did.
RefreshedRecord(e, refresh, at) ==
  [SealProviderCredential(e.subject_id, refresh, at + AccessTTL, at)
     EXCEPT !.created_at = e.created_at]

\* The provider takes the refresh token, if it still accepts it: it may
\* return none, or a new one next to the old, or a new one in its place.
Rotate(t) ==
  LET e       == work[t].existing
      new     == issued + 1
      Return(refresh) ==
        Goto(t, "store", [work[t] EXCEPT !.replacement = RefreshedRecord(e, refresh, work[t].at)])
  IN  /\ pc[t] = "rotate"
      /\ \/ /\ e.refresh_token \in live
            /\ Return(e.refresh_token)
            /\ UNCHANGED <<lock, issued, live>>
         \/ /\ e.refresh_token \in live
            /\ new <= MaxTokens
            /\ issued' = new
            /\ live' \in {live \cup {new}, (live \ {e.refresh_token}) \cup {new}}
            /\ Return(new)
            /\ UNCHANGED lock
         \/ /\ e.refresh_token \notin live
            /\ Finish(t)
            /\ lock' = Null
            /\ UNCHANGED <<issued, live>>
      /\ UNCHANGED <<stored, now, spent, lost>>

StoreRefreshed(t) ==
  /\ pc[t] = "store"
  /\ ValidReplacement(work[t].existing, work[t].replacement)
  /\ record' = work[t].replacement
  /\ lock' = Null
  /\ Finish(t)
  /\ UNCHANGED <<transactions, now, provider>>

-----------------------------------------------------------------------------
(* Revocation, and failures.                                               *)

Revoke(t) ==
  /\ pc[t] = "idle"
  /\ ReadClock
  /\ Goto(t, "revoke", [NoWork EXCEPT !.at = now'])
  /\ UNCHANGED <<stored, lock, provider>>

\* Mutant: the revocation may be older than the record.
RevokeAtAnyTime(e, at) ==
  IF e.revoked_at # Null THEN e ELSE [e EXCEPT !.revoked_at = at, !.updated_at = at]

RevokeCredentialRecord(e, at) ==
  IF e.revoked_at # Null \/ at < e.updated_at THEN e
  ELSE [e EXCEPT !.revoked_at = at, !.updated_at = at]

RevokeWrite(t) ==
  /\ pc[t] = "revoke"
  /\ lock = Null
  /\ record' = IF record = Null THEN Null ELSE RevokeCredentialRecord(record, work[t].at)
  /\ Finish(t)
  /\ UNCHANGED <<transactions, lock, now, provider>>

\* The thread dies, its request to the provider fails or returns what it must
\* refuse (no expiry, foreign scopes, an account that cannot be verified), or
\* it waits too long for the lock.  A token the provider replaced is lost.
Abandon(t) ==
  /\ pc[t] # "idle"
  /\ Finish(t)
  /\ lock' = IF lock = t THEN Null ELSE lock
  /\ lost' = IF pc[t] = "store" THEN lost \cup ({work[t].existing.refresh_token} \ live) ELSE lost
  /\ UNCHANGED <<stored, now, issued, live, spent>>

-----------------------------------------------------------------------------
ConnectStep(t) ==
  \/ \E operation \in Operation : StartAuthorization(t, operation)
  \/ CreateTransaction(t)
  \/ \E x \in Transaction, denied \in BOOLEAN : ReceiveCallback(t, x, denied)
  \/ Consume(t)
  \/ ReadExisting(t)
  \/ ExchangeCode(t)
  \/ Upsert(t)

ResolveStep(t) ==
  \/ GetForCheck(t)
  \/ DecideRefresh(t)
  \/ LockCredential(t)
  \/ Rotate(t)
  \/ StoreRefreshed(t)

RevokeStep(t) == Revoke(t) \/ RevokeWrite(t)

Next ==
  \/ \E t \in Connector : ConnectStep(t)
  \/ \E t \in Resolver : ResolveStep(t)
  \/ \E t \in Revoker : RevokeStep(t)
  \/ \E t \in Thread : Abandon(t)

Spec == Init /\ [][Next]_vars

-----------------------------------------------------------------------------
\* Every variable keeps its type; the lock is held by who refreshes.
TypeOK ==
  /\ record \in Record \cup {Null}
  /\ record # Null => record.created_at <= record.updated_at /\ record.updated_at <= now
  /\ transactions \in [Transaction -> TransactionRow \cup {Null}]
  /\ lock \in Thread \cup {Null}
  /\ \A t \in Thread : lock = t <=> pc[t] \in {"rotate", "store"}
  /\ now \in Nat
  /\ pc \in [Thread -> Step]
  /\ work \in [Thread -> Work]
  /\ issued \in Nat
  /\ live \subseteq 1 .. issued
  /\ spent \in [Transaction -> Nat]
  /\ lost \subseteq 1 .. issued

\* Between refreshes, the refresh token stored is one the provider accepts,
\* whatever overlapped: it can only be dead because a refresh died after the
\* provider answered it (credential_refresh.py, _locked_credential_update).
StoredTokenWorks ==
  lock = Null /\ record # Null /\ record.revoked_at = Null /\ record.refresh_token # Null
    => record.refresh_token \in live \cup lost

\* Two checks never both rotate one refresh token: what a refresh is about
\* to present is what is stored, and was not replaced before
\* (credential_refresh.py:59).
NoTokenReuse ==
  \A t \in Thread :
    pc[t] = "rotate" => /\ work[t].existing = record
                        /\ record.refresh_token \in live \cup lost

\* An authorization is answered once: one exchange of a code or one denial,
\* however often and wherever the browser comes back
\* (oauth_authorization.py, consume_authorization_transaction).
OneExchangePerTransaction ==
  \A x \in Transaction :
    spent[x] + Cardinality({t \in Connector : /\ pc[t] \in {"read", "exchange"}
                                              /\ work[t].transaction = x}) <= 1

\* A stored credential stays the credential of one account and one
\* connection: no connect that was under way replaces it, and no reconnect
\* moves it to another account (docs/ARCHITECTURE.md:9).
AccountNeverSwitches ==
  [][record # Null => /\ record'.subject_id = record.subject_id
                      /\ record'.created_at = record.created_at]_vars

\* Nothing changes a revoked credential, neither the refreshes and reconnects
\* that read it before it was revoked (credential_store.py:126).
RevokedIsForever ==
  [][record # Null /\ record.revoked_at # Null => record' = record]_vars

\* A callback without a refresh token leaves the one stored in place
\* (docs/ARCHITECTURE.md:176).
OmittedTokenPreserved ==
  [][\A t \in Connector :
       pc[t] = "upsert" /\ work[t].omitted /\ record # Null /\ record' # record
         => record'.refresh_token = record.refresh_token]_vars
=============================================================================

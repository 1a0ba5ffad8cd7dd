-------------------------- MODULE CredentialsProofs --------------------------
(***************************************************************************)
(* The safety of Credentials, for any number of threads, accounts,         *)
(* authorizations and tokens and any lifetimes.                            *)
(***************************************************************************)
EXTENDS Credentials, TLAPS, FiniteSetTheorems

\* What a connecting thread holds refers to what is stored.
ConnectSound(t) ==
  /\ work[t].at <= now
  /\ pc[t] = "create" => work[t].operation # Null
  /\ pc[t] \in {"consume", "read", "exchange"} =>
       /\ work[t].transaction # Null
       /\ transactions[work[t].transaction] # Null
  /\ pc[t] = "exchange" /\ work[t].existing # Null => record # Null
  /\ pc[t] = "clock" => work[t].existing # Null

\* What a callback is about to write is not revoked, and if there is nothing
\* to replace it is a fresh record.
ReplacementSound(t) ==
  pc[t] = "upsert" =>
    /\ work[t].replacement # Null
    /\ work[t].replacement.revoked_at = Null
    /\ work[t].replacement.updated_at <= now
    /\ record = Null => work[t].replacement.created_at = work[t].replacement.updated_at

\* What a refresh read under the lock is what is stored, until it is done.
RefreshSound(t) ==
  /\ pc[t] \in {"rotate", "store"} =>
       /\ record # Null
       /\ work[t].existing = record
       /\ MayRefresh(record, work[t].at)
  /\ pc[t] = "store" =>
       /\ work[t].replacement # Null
       /\ work[t].replacement
            = RefreshedRecord(record, work[t].replacement.refresh_token, work[t].at)

\* A token that is stored, or was read or is about to be stored, was issued.
Issued(r) == r # Null /\ r.refresh_token # Null => r.refresh_token \in 1 .. issued

Holds(t, x) == pc[t] \in {"read", "exchange"} /\ work[t].transaction = x

\* An authorization is unused, in the hands of one thread, or spent.
AuthorizationSound(x) ==
  /\ transactions[x] = Null \/ transactions[x].consumed_at = Null =>
       spent[x] = 0 /\ \A t \in Thread : ~Holds(t, x)
  /\ spent[x] <= 1
  /\ spent[x] = 1 => \A t \in Thread : ~Holds(t, x)
  /\ \A t, u \in Thread : Holds(t, x) /\ Holds(u, x) => t = u

IInv ==
  /\ TypeOK
  /\ \A t \in Thread : ConnectSound(t) /\ ReplacementSound(t) /\ RefreshSound(t)
  /\ Issued(record)
  /\ \A t \in Thread : Issued(work[t].existing) /\ Issued(work[t].replacement)
  /\ \A x \in Transaction : AuthorizationSound(x)

\* The token a callback is about to store is accepted, and nobody else has it.
PendingToken(t) == IF pc[t] = "upsert" THEN work[t].replacement.refresh_token ELSE Null

PendingSound(t) ==
  PendingToken(t) # Null =>
    /\ PendingToken(t) \in live
    /\ record # Null => PendingToken(t) # record.refresh_token
    /\ \A u \in Thread \ {t} : PendingToken(u) # PendingToken(t)

\* So is the token a refresh is about to store.
StoringSound(t) ==
  pc[t] = "store" =>
    /\ work[t].replacement.refresh_token \in live
    /\ \A u \in Thread : PendingToken(u) # work[t].replacement.refresh_token

\* The token stored is accepted, but for what a refresh has replaced.
StoredSound ==
  record # Null /\ record.refresh_token # Null =>
    record.refresh_token \in live \cup lost \/ \E t \in Thread : pc[t] = "store"

\* Only a connect goes on without a stored credential.
OperationSound(t) ==
  pc[t] = "exchange" =>
    (transactions[work[t].transaction].operation = "connect" <=> work[t].existing = Null)

TokensSound ==
  /\ \A t \in Thread : PendingSound(t) /\ StoringSound(t) /\ OperationSound(t)
  /\ StoredSound

-----------------------------------------------------------------------------
(* Types.                                                                  *)

USE CredentialsAssumption, NullAssumption

LEMMA TypeInit == Init => TypeOK
  BY DEF Init, TypeOK, NoWork, Work, Step

LEMMA RecordTypes ==
  /\ \A a \in Account, refresh \in Nat \cup {Null}, expires \in Nat \cup {Null}, at \in Nat :
       SealProviderCredential(a, refresh, expires, at) \in Record
  /\ \A e \in Record \cup {Null}, a \in Account, refresh \in Nat \cup {Null},
        expires \in Nat \cup {Null}, at \in Nat : CallbackRecord(e, a, refresh, expires, at) \in Record
  /\ \A e \in Record, refresh \in Nat \cup {Null}, at \in Nat : RefreshedRecord(e, refresh, at) \in Record
  /\ \A e \in Record, at \in Nat : RevokeCredentialRecord(e, at) \in Record
<1>1. \A a \in Account, refresh \in Nat \cup {Null}, expires \in Nat \cup {Null}, at \in Nat :
        SealProviderCredential(a, refresh, expires, at) \in Record
  BY DEF SealProviderCredential, Record
<1>2. ASSUME NEW e \in Record \cup {Null}, NEW a \in Account, NEW refresh \in Nat \cup {Null},
             NEW expires \in Nat \cup {Null}, NEW at \in Nat
      PROVE  CallbackRecord(e, a, refresh, expires, at) \in Record
  <2>1. CASE e = Null
    BY <1>1, <2>1 DEF CallbackRecord
  <2>2. CASE e # Null
    <3> DEFINE kept == IF refresh = Null THEN e.refresh_token ELSE refresh
    <3>1. e \in Record /\ kept \in Nat \cup {Null} /\ e.created_at \in Nat
      BY <2>2 DEF Record
    <3>2. CallbackRecord(e, a, refresh, expires, at)
            = [subject_id |-> a, refresh_token |-> kept, expires_at |-> expires,
               created_at |-> e.created_at, updated_at |-> at, revoked_at |-> Null]
      BY <2>2 DEF CallbackRecord, SealProviderCredential
    <3> QED BY <3>1, <3>2 DEF Record
  <2> QED BY <2>1, <2>2
<1>3. ASSUME NEW e \in Record, NEW refresh \in Nat \cup {Null}, NEW at \in Nat
      PROVE  RefreshedRecord(e, refresh, at) \in Record
  <2>1. RefreshedRecord(e, refresh, at)
          = [subject_id |-> e.subject_id, refresh_token |-> refresh, expires_at |-> at + AccessTTL,
             created_at |-> e.created_at, updated_at |-> at, revoked_at |-> Null]
    BY DEF RefreshedRecord, SealProviderCredential
  <2> QED BY <2>1 DEF Record
<1>4. \A e \in Record, at \in Nat : RevokeCredentialRecord(e, at) \in Record
  BY DEF RevokeCredentialRecord, Record
<1> QED BY <1>1, <1>2, <1>3, <1>4

LEMMA GotoTypes ==
  ASSUME TypeOK, NEW t \in Thread, NEW step \in Step, NEW w \in Work, Goto(t, step, w)
  PROVE  /\ pc' \in [Thread -> Step] /\ work' \in [Thread -> Work]
         /\ pc'[t] = step /\ work'[t] = w
         /\ \A u \in Thread \ {t} : pc'[u] = pc[u] /\ work'[u] = work[u]
  BY DEF TypeOK, Goto

LEMMA NoWorkType ==
  /\ NoWork \in Work
  /\ \A at \in Nat : [NoWork EXCEPT !.at = at] \in Work
  /\ \A x \in Transaction, denied \in BOOLEAN, at \in Nat :
        [NoWork EXCEPT !.transaction = x, !.denied = denied, !.at = at] \in Work
  BY DEF NoWork, Work

LEMMA Fields ==
  /\ \A w \in Work :
       /\ w.operation \in Operation \cup {Null} /\ w.transaction \in Transaction \cup {Null}
       /\ w.at \in Nat /\ w.existing \in Record \cup {Null} /\ w.replacement \in Record \cup {Null}
  /\ \A e \in Record :
       /\ e.subject_id \in Account /\ e.refresh_token \in Nat \cup {Null}
       /\ e.created_at \in Nat /\ e.updated_at \in Nat /\ e.revoked_at \in Nat \cup {Null}
  BY DEF Work, Record

LEMMA WorkTypes ==
  ASSUME NEW w \in Work
  PROVE  /\ \A operation \in Operation : [w EXCEPT !.operation = operation] \in Work
         /\ \A x \in Transaction, denied \in BOOLEAN, at \in Nat :
               [w EXCEPT !.transaction = x, !.denied = denied, !.at = at] \in Work
         /\ \A e \in Record \cup {Null} : [w EXCEPT !.existing = e] \in Work
         /\ \A e \in Record : [w EXCEPT !.replacement = e] \in Work
         /\ \A e \in Record, omitted \in BOOLEAN :
               [w EXCEPT !.replacement = e, !.omitted = omitted] \in Work
         /\ \A at \in Nat : [w EXCEPT !.at = at] \in Work
  BY DEF Work

LEMMA Lifetimes == AuthorizationTTL \in Nat /\ AccessTTL \in Nat /\ Null \notin Nat
  BY DEF CredentialsAssumption

Refreshing == {"rotate", "store"}

\* A step of one thread keeps the types if what it writes has them, and if it
\* takes the lock when it starts to refresh and gives it back when it is done.
LEMMA TypeMove ==
  ASSUME TypeOK, NEW t \in Thread, NEW step \in Step, NEW w \in Work, Goto(t, step, w),
         lock' = IF step \in Refreshing THEN t ELSE IF pc[t] \in Refreshing THEN Null ELSE lock,
         step \in Refreshing => lock \in {Null, t},
         now' \in Nat, record' \in Record \cup {Null},
         record' # Null => record'.created_at <= record'.updated_at /\ record'.updated_at <= now',
         transactions' \in [Transaction -> TransactionRow \cup {Null}],
         issued' \in Nat, live' \subseteq 1 .. issued', lost' \subseteq 1 .. issued',
         spent' \in [Transaction -> Nat]
  PROVE  TypeOK'
<1>1. /\ pc' \in [Thread -> Step] /\ work' \in [Thread -> Work]
      /\ pc'[t] = step
      /\ \A u \in Thread \ {t} : pc'[u] = pc[u]
  BY GotoTypes
<1>2. ASSUME NEW u \in Thread PROVE lock' = u <=> pc'[u] \in Refreshing
  <2>1. CASE u = t
    BY <1>1, <2>1 DEF TypeOK, Refreshing
  <2>2. CASE u # t
    BY <1>1, <2>2 DEF TypeOK, Refreshing
  <2> QED BY <2>1, <2>2
<1> QED BY <1>1, <1>2 DEF TypeOK, Refreshing

\* The record stays in time when nothing but the clock has moved.
LEMMA RecordInTime ==
  ASSUME TypeOK, record' = record, now' = now \/ now' = now + 1
  PROVE  /\ record' \in Record \cup {Null} /\ now' \in Nat
         /\ record' # Null => record'.created_at <= record'.updated_at /\ record'.updated_at <= now'
  BY DEF TypeOK, Record

LEMMA TypeConnect ==
  ASSUME IInv, NEW t \in Thread, ConnectStep(t) PROVE TypeOK'
<1>0. TypeOK /\ NoWork \in Work /\ work[t] \in Work /\ ConnectSound(t) /\ ReplacementSound(t)
  BY NoWorkType DEF IInv, TypeOK
<1>1. ASSUME NEW operation \in Operation, StartAuthorization(t, operation) PROVE TypeOK'
  <2>1. [NoWork EXCEPT !.operation = operation] \in Work
    BY <1>0, WorkTypes
  <2>2. \E step \in {"create", "idle"}, w \in Work : Goto(t, step, w)
    BY <1>0, <1>1, <2>1 DEF StartAuthorization, Finish
  <2> QED BY <1>0, <1>1, <2>2, TypeMove, RecordInTime
        DEF StartAuthorization, stored, provider, TypeOK, Step, Refreshing
<1>2. CASE CreateTransaction(t)
  <2>1. transactions' \in [Transaction -> TransactionRow \cup {Null}]
    <3>1. now' + AuthorizationTTL \in Nat /\ work[t].operation \in Operation
      BY <1>0, <1>2, Lifetimes, Fields DEF CreateTransaction, ReadClock, TypeOK, ConnectSound
    <3>2. [operation |-> work[t].operation, expires_at |-> now' + AuthorizationTTL,
           consumed_at |-> Null] \in TransactionRow
      BY <3>1 DEF TransactionRow
    <3> QED BY <1>0, <1>2, <3>2 DEF CreateTransaction, TypeOK
  <2>2. Goto(t, "idle", NoWork) /\ pc[t] = "create" /\ now' = now + 1
    BY <1>2 DEF CreateTransaction, ReadClock, Finish
  <2> QED BY <1>0, <1>2, <2>1, <2>2, TypeMove, RecordInTime
        DEF CreateTransaction, provider, TypeOK, Step, Refreshing
<1>3. ASSUME NEW x \in Transaction, NEW denied \in BOOLEAN, ReceiveCallback(t, x, denied)
      PROVE TypeOK'
  <2>1. [NoWork EXCEPT !.transaction = x, !.denied = denied, !.at = now'] \in Work
    <3>1. now' \in Nat
      BY <1>0, <1>3 DEF ReceiveCallback, ReadClock, TypeOK
    <3> QED BY <3>1, NoWorkType, Zenon
  <2>2. pc[t] = "idle" /\ now' = now + 1 /\ \E w \in Work : Goto(t, "consume", w)
    BY <1>3, <2>1 DEF ReceiveCallback, ReadClock
  <2>3. UNCHANGED <<record, transactions, lock, issued, live, spent, lost>>
    BY <1>3 DEF ReceiveCallback, stored, provider
  <2> QED BY <1>0, <2>2, <2>3, TypeMove, RecordInTime DEF TypeOK, Step, Refreshing
<1>4. CASE Consume(t)
  <2> DEFINE x == work[t].transaction
  <2>1. x \in Transaction /\ transactions[x] \in TransactionRow /\ work[t].at \in Nat
    BY <1>0, <1>4, Fields DEF Consume, TypeOK, ConnectSound
  <2>2. transactions' \in [Transaction -> TransactionRow \cup {Null}]
    <3>1. [transactions[x] EXCEPT !.consumed_at = work[t].at] \in TransactionRow
      BY <2>1 DEF TransactionRow
    <3>2. [transactions EXCEPT ![x].consumed_at = work[t].at]
            = [transactions EXCEPT ![x] = [transactions[x] EXCEPT !.consumed_at = work[t].at]]
      OBVIOUS
    <3> QED BY <1>0, <1>4, <2>1, <3>1, <3>2 DEF Consume, TypeOK
  <2>3. spent' \in [Transaction -> Nat]
    BY <1>0, <1>4, <2>1 DEF Consume, TypeOK
  <2>4. \E step \in {"read", "idle"}, w \in Work : Goto(t, step, w)
    BY <1>0, <1>4 DEF Consume, Finish
  <2> QED BY <1>0, <1>4, <2>2, <2>3, <2>4, TypeMove, RecordInTime
        DEF Consume, TypeOK, Step, Refreshing
<1>5. CASE ReadExisting(t)
  <2>1. [work[t] EXCEPT !.existing = record] \in Work
    BY <1>0, WorkTypes DEF TypeOK
  <2>2. \E step \in {"exchange", "idle"}, w \in Work : Goto(t, step, w)
    BY <1>0, <1>5, <2>1 DEF ReadExisting, Finish
  <2> QED BY <1>0, <1>5, <2>2, TypeMove, RecordInTime
        DEF ReadExisting, stored, provider, TypeOK, Step, Refreshing
<1>6. CASE ExchangeCode(t)
  <2> DEFINE w == work[t]
  <2>1. PICK account \in Account, expires \in {Null, w.at + AccessTTL},
             refresh \in Grants(transactions[w.transaction].operation) :
          /\ IF refresh = Null
              THEN UNCHANGED <<issued, live>>
              ELSE issued' = refresh /\ live' = live \cup {refresh}
          /\ IF w.existing # Null /\ account # w.existing.subject_id
              THEN Finish(t)
              ELSE Goto(t, "upsert",
                        [w EXCEPT
                           !.replacement = CallbackRecord(w.existing, account, refresh, expires, w.at),
                           !.omitted = (refresh = Null)])
    BY <1>6 DEF ExchangeCode
  <2>2. refresh = Null \/ refresh = issued + 1
    BY <2>1 DEF Grants
  <2>3. expires \in Nat \cup {Null} /\ refresh \in Nat \cup {Null}
    BY <1>0, <2>2, Lifetimes, Fields DEF TypeOK
  <2>4. [w EXCEPT !.replacement = CallbackRecord(w.existing, account, refresh, expires, w.at),
                  !.omitted = (refresh = Null)] \in Work
    BY <1>0, <2>3, Fields, WorkTypes, RecordTypes
  <2>5. \E step \in {"upsert", "idle"}, v \in Work : Goto(t, step, v)
    BY <1>0, <2>1, <2>4 DEF Finish
  <2>6. issued' \in Nat /\ live' \subseteq 1 .. issued' /\ lost \subseteq 1 .. issued'
    BY <1>0, <2>1, <2>2 DEF TypeOK
  <2>7. spent' \in [Transaction -> Nat]
    BY <1>0, <1>6, Fields DEF ExchangeCode, TypeOK, ConnectSound
  <2> QED BY <1>0, <1>6, <2>5, <2>6, <2>7, TypeMove, RecordInTime
        DEF ExchangeCode, stored, TypeOK, Step, Refreshing
<1>7. CASE Upsert(t)
  <2>1. record' \in Record /\ record'.created_at <= record'.updated_at /\ record'.updated_at <= now'
    BY <1>0, <1>7, Fields DEF Upsert, TypeOK, ReplacementSound, ValidReplacement
  <2> QED BY <1>0, <1>7, <2>1, TypeMove
        DEF Upsert, Finish, provider, TypeOK, Step, Refreshing
<1> QED BY <1>1, <1>2, <1>3, <1>4, <1>5, <1>6, <1>7 DEF ConnectStep

LEMMA TypeResolve ==
  ASSUME IInv, NEW t \in Thread, ResolveStep(t) PROVE TypeOK'
<1>0. /\ TypeOK /\ NoWork \in Work /\ work[t] \in Work
      /\ ConnectSound(t) /\ RefreshSound(t)
  BY NoWorkType DEF IInv, TypeOK
<1>1. CASE GetForCheck(t)
  <2>1. [NoWork EXCEPT !.existing = record] \in Work
    BY <1>0, WorkTypes DEF TypeOK
  <2>2. \E step \in {"clock", "idle"}, w \in Work : Goto(t, step, w)
    BY <1>0, <1>1, <2>1 DEF GetForCheck, Finish
  <2> QED BY <1>0, <1>1, <2>2, TypeMove, RecordInTime
        DEF GetForCheck, stored, provider, TypeOK, Step, Refreshing
<1>2. CASE DecideRefresh(t)
  <2>1. pc[t] = "clock" /\ now' = now + 1
    BY <1>2 DEF DecideRefresh, ReadClock
  <2>2. [NoWork EXCEPT !.at = now'] \in Work
    <3>1. now' \in Nat
      BY <1>0, <2>1 DEF TypeOK
    <3> QED BY <3>1, NoWorkType, Zenon
  <2>3. \E step \in {"lock", "idle"}, w \in Work : Goto(t, step, w)
    BY <1>0, <1>2, <2>2 DEF DecideRefresh, Finish
  <2>4. UNCHANGED <<record, transactions, lock, issued, live, spent, lost>>
    BY <1>2 DEF DecideRefresh, stored, provider
  <2>5. /\ record' \in Record \cup {Null} /\ now' \in Nat
        /\ record' # Null => record'.created_at <= record'.updated_at /\ record'.updated_at <= now'
    BY <1>0, <2>1, <2>4, RecordInTime
  <2>6. PICK step \in {"lock", "idle"}, w \in Work : Goto(t, step, w)
    BY <2>3
  <2>7. /\ transactions' \in [Transaction -> TransactionRow \cup {Null}]
        /\ issued' \in Nat /\ live' \subseteq 1 .. issued' /\ lost' \subseteq 1 .. issued'
        /\ spent' \in [Transaction -> Nat]
    BY <1>0, <2>4 DEF TypeOK
  <2>8. step \in Step /\ step \notin Refreshing /\ pc[t] \notin Refreshing
    BY <2>1, <2>6 DEF Step, Refreshing
  <2>9. lock' = IF step \in Refreshing THEN t ELSE IF pc[t] \in Refreshing THEN Null ELSE lock
    BY <2>4, <2>8
  <2> QED BY <1>0, <2>5, <2>6, <2>7, <2>8, <2>9, TypeMove
<1>3. CASE LockCredential(t)
  <2>1. [work[t] EXCEPT !.existing = record] \in Work
    BY <1>0, WorkTypes DEF TypeOK
  <2>2. \/ lock' = t /\ \E w \in Work : Goto(t, "rotate", w)
        \/ lock' = lock /\ Goto(t, "idle", NoWork)
    BY <1>0, <1>3, <2>1 DEF LockCredential, Finish
  <2>3. pc[t] = "lock" /\ lock = Null /\ UNCHANGED <<record, transactions, now, issued, live, spent, lost>>
    BY <1>3 DEF LockCredential, stored, provider
  <2> QED BY <1>0, <2>2, <2>3, TypeMove, RecordInTime DEF TypeOK, Step, Refreshing
<1>4. CASE Rotate(t)
  <2>1. /\ pc[t] = "rotate" /\ lock = t /\ record # Null /\ work[t].existing = record
        /\ record.refresh_token \in Nat /\ UNCHANGED <<record, transactions, now, spent, lost>>
    BY <1>0, <1>4, Fields DEF Rotate, TypeOK, RefreshSound, MayRefresh, stored
  <2>2. \A refresh \in Nat :
          [work[t] EXCEPT !.replacement = RefreshedRecord(record, refresh, work[t].at)] \in Work
    BY <1>0, <2>1, Fields, WorkTypes, RecordTypes DEF TypeOK
  <2>3. issued + 1 \in Nat
    BY <1>0 DEF TypeOK
  <2>4. \/ lock' = lock /\ \E w \in Work : Goto(t, "store", w)
        \/ lock' = Null /\ Goto(t, "idle", NoWork)
    BY <1>4, <2>1, <2>2, <2>3 DEF Rotate, Finish
  <2>5. issued' \in Nat /\ live' \subseteq 1 .. issued' /\ lost \subseteq 1 .. issued'
    BY <1>0, <1>4 DEF Rotate, TypeOK
  <2> QED BY <1>0, <2>1, <2>4, <2>5, TypeMove, RecordInTime DEF TypeOK, Step, Refreshing
<1>5. CASE StoreRefreshed(t)
  <2>1. /\ pc[t] = "store" /\ lock = t /\ record # Null /\ work[t].existing = record
        /\ work[t].replacement \in Record /\ record' = work[t].replacement
        /\ record' = RefreshedRecord(record, record'.refresh_token, work[t].at)
        /\ work[t].at >= record.updated_at
    BY <1>0, <1>5, Fields DEF StoreRefreshed, TypeOK, RefreshSound, MayRefresh
  <2>2. record'.created_at = record.created_at /\ record'.updated_at = work[t].at
    BY <2>1 DEF RefreshedRecord, SealProviderCredential
  <2>3. work[t].at <= now /\ work[t].at \in Nat /\ record \in Record
    BY <1>0, <2>1, Fields DEF ConnectSound, TypeOK
  <2>4. record' # Null => record'.created_at <= record'.updated_at /\ record'.updated_at <= now
    BY <1>0, <2>1, <2>2, <2>3, Fields DEF TypeOK
  <2>5. lock' = Null /\ Goto(t, "idle", NoWork)
        /\ UNCHANGED <<transactions, now, issued, live, spent, lost>>
    BY <1>5 DEF StoreRefreshed, provider, Finish
  <2> QED BY <1>0, <2>1, <2>4, <2>5, TypeMove DEF TypeOK, Step, Refreshing
<1> QED BY <1>1, <1>2, <1>3, <1>4, <1>5 DEF ResolveStep

LEMMA TypeRevoke ==
  ASSUME IInv, NEW t \in Thread, RevokeStep(t) \/ Abandon(t) PROVE TypeOK'
<1>0. TypeOK /\ NoWork \in Work /\ work[t] \in Work /\ ConnectSound(t) /\ RefreshSound(t)
  BY NoWorkType DEF IInv, TypeOK
<1>1. CASE Revoke(t)
  <2>1. pc[t] = "idle" /\ now' = now + 1 /\ UNCHANGED <<record, transactions, lock, issued, live, spent, lost>>
    BY <1>1 DEF Revoke, ReadClock, stored, provider
  <2>2. [NoWork EXCEPT !.at = now'] \in Work
    <3>1. now' \in Nat
      BY <1>0, <2>1 DEF TypeOK
    <3> QED BY <3>1, NoWorkType, Zenon
  <2>3. \E w \in Work : Goto(t, "revoke", w)
    BY <1>1, <2>2 DEF Revoke
  <2> QED BY <1>0, <2>1, <2>3, TypeMove, RecordInTime DEF TypeOK, Step, Refreshing
<1>2. CASE RevokeWrite(t)
  <2>1. record' # Null => record \in Record /\ record' = RevokeCredentialRecord(record, work[t].at)
    BY <1>0, <1>2 DEF RevokeWrite, TypeOK
  <2>2. work[t].at <= now /\ work[t].at \in Nat
    BY <1>0, Fields DEF ConnectSound
  <2>3. record' \in Record \cup {Null}
    BY <2>1, <2>2, RecordTypes
  <2>4. record' # Null => record'.created_at <= record'.updated_at /\ record'.updated_at <= now
    <3>1. CASE record = Null
      BY <1>2, <3>1 DEF RevokeWrite
    <3>2. CASE record # Null
      <4>1. record \in Record /\ record' = RevokeCredentialRecord(record, work[t].at)
        BY <1>0, <1>2, <3>2 DEF RevokeWrite, TypeOK
      <4>2. \/ record' = record
            \/ /\ record'.created_at = record.created_at /\ record'.updated_at = work[t].at
               /\ ~(work[t].at < record.updated_at)
        BY <4>1 DEF RevokeCredentialRecord, Record
      <4> QED BY <1>0, <2>2, <3>2, <4>1, <4>2, Fields DEF TypeOK
    <3> QED BY <3>1, <3>2
  <2>5. pc[t] = "revoke" /\ Goto(t, "idle", NoWork)
        /\ UNCHANGED <<transactions, lock, now, issued, live, spent, lost>>
    BY <1>2 DEF RevokeWrite, provider, Finish
  <2> QED BY <1>0, <2>3, <2>4, <2>5, TypeMove DEF TypeOK, Step, Refreshing
<1>3. CASE Abandon(t)
  <2>1. Goto(t, "idle", NoWork) /\ UNCHANGED <<record, transactions, now, issued, live, spent>>
        /\ lock' = IF pc[t] \in Refreshing THEN Null ELSE lock
    BY <1>0, <1>3 DEF Abandon, stored, Finish, TypeOK, Refreshing
  <2>2. pc[t] = "store" => work[t].existing.refresh_token \in 1 .. issued
    BY <1>0 DEF IInv, Issued, RefreshSound, MayRefresh
  <2>3. lost' \subseteq 1 .. issued'
    BY <1>0, <1>3, <2>1, <2>2 DEF Abandon, TypeOK
  <2> QED BY <1>0, <2>1, <2>3, TypeMove, RecordInTime DEF TypeOK, Step, Refreshing
<1> QED BY <1>1, <1>2, <1>3 DEF RevokeStep

LEMMA TypeStep == ASSUME IInv, [Next]_vars PROVE TypeOK'
<1>1. CASE UNCHANGED vars
  BY <1>1 DEF IInv, TypeOK, vars
<1>2. CASE Next
  BY <1>2, TypeConnect, TypeResolve, TypeRevoke DEF Next, Thread
<1> QED BY <1>1, <1>2

-----------------------------------------------------------------------------
(* The inductive invariant.                                                *)

\* What a step of t leaves to every other thread: time only advances, rows
\* appear and never vanish, and a refresh under way is alone with the record.
Advance(t) ==
  /\ now <= now' /\ issued <= issued'
  /\ record # Null => record' # Null
  /\ \A x \in Transaction : transactions[x] # Null => transactions'[x] # Null
  /\ record' # record => lock \in {Null, t}
  /\ \A u \in Thread \ {t} : pc'[u] = pc[u] /\ work'[u] = work[u]

ThreadSound(t) == 
  /\ ConnectSound(t) /\ ReplacementSound(t) /\ RefreshSound(t)
  /\ Issued(work[t].existing) /\ Issued(work[t].replacement)

LEMMA Others ==
  ASSUME IInv, NEW t \in Thread, Advance(t), TypeOK', NEW u \in Thread \ {t}
  PROVE  ThreadSound(u)'
<1>1. pc'[u] = pc[u] /\ work'[u] = work[u] /\ work[u] \in Work /\ TypeOK
  BY DEF Advance, IInv, TypeOK
<1>2. now \in Nat /\ now' \in Nat /\ now <= now' /\ issued \in Nat /\ issued' \in Nat /\ issued <= issued'
  BY DEF Advance, IInv, TypeOK
<1>3. ConnectSound(u)'
  <2>1. ConnectSound(u) /\ work[u].at \in Nat /\ work[u].transaction \in Transaction \cup {Null}
    BY <1>1, Fields DEF IInv
  <2> QED BY <1>1, <1>2, <2>1 DEF ConnectSound, Advance
<1>4. ReplacementSound(u)'
  <2>1. /\ ReplacementSound(u)
        /\ work[u].replacement # Null => work[u].replacement \in Record /\ work[u].replacement.updated_at \in Nat
    BY <1>1, Fields DEF IInv
  <2> QED BY <1>1, <1>2, <2>1 DEF ReplacementSound, Advance
<1>5. RefreshSound(u)'
  <2>1. pc[u] \in Refreshing => record' = record
    BY <1>1 DEF TypeOK, Advance, Refreshing
  <2> QED BY <1>1, <2>1 DEF RefreshSound, IInv, Refreshing
<1>6. Issued(work[u].existing)' /\ Issued(work[u].replacement)'
  BY <1>1, <1>2 DEF Issued, IInv
<1> QED BY <1>3, <1>4, <1>5, <1>6 DEF ThreadSound

LEMMA IdleSound ==
  ASSUME TypeOK', NEW t \in Thread, pc'[t] = "idle", work'[t] = NoWork
  PROVE  ThreadSound(t)'
<1>1. work'[t].at = 0 /\ work'[t].existing = Null /\ work'[t].replacement = Null /\ now' \in Nat
  BY DEF NoWork, TypeOK
<1> QED BY <1>1 DEF ThreadSound, ConnectSound, ReplacementSound, RefreshSound, Issued

\* An authorization is as sound as it was if nobody took it up.
LEMMA AuthorizationFrame ==
  ASSUME IInv, UNCHANGED <<transactions, spent>>,
         \A t \in Thread, x \in Transaction : Holds(t, x)' => Holds(t, x)
  PROVE  \A x \in Transaction : AuthorizationSound(x)'
  BY DEF IInv, AuthorizationSound

LEMMA Assemble ==
  ASSUME IInv, NEW t \in Thread, Advance(t), TypeOK', ThreadSound(t)', Issued(record)',
         \A x \in Transaction : AuthorizationSound(x)'
  PROVE  IInv'
  BY Others DEF IInv, ThreadSound

\* Reading, and steps that touch no row.
LEMMA InvQuiet ==
  ASSUME IInv, NEW t \in Thread, TypeOK', ThreadSound(t)',
         UNCHANGED <<record, transactions, spent>>, now <= now', issued <= issued',
         NEW step \in Step \ {"read", "exchange"}, NEW w \in Work, Goto(t, step, w)
  PROVE  IInv'
<1>1. TypeOK
  BY DEF IInv
<1>2. pc'[t] = step /\ \A u \in Thread \ {t} : pc'[u] = pc[u] /\ work'[u] = work[u]
  BY <1>1, GotoTypes
<1>3. Advance(t)
  BY <1>2 DEF Advance
<1>4. Issued(record)'
  BY <1>1 DEF Issued, IInv, TypeOK
<1>5. \A u \in Thread, x \in Transaction : Holds(u, x)' => Holds(u, x)
  BY <1>2 DEF Holds
<1> QED BY <1>3, <1>4, <1>5, AuthorizationFrame, Assemble

LEMMA InvFinish ==
  ASSUME IInv, NEW t \in Thread, TypeOK', Finish(t),
         UNCHANGED <<transactions, spent>>, now <= now', issued <= issued',
         record # Null => record' # Null, record' # record => lock \in {Null, t}, Issued(record)'
  PROVE  IInv'
<1>1. TypeOK /\ NoWork \in Work /\ Goto(t, "idle", NoWork)
  BY NoWorkType DEF IInv, Finish
<1>2. /\ pc'[t] = "idle" /\ work'[t] = NoWork
      /\ \A u \in Thread \ {t} : pc'[u] = pc[u] /\ work'[u] = work[u]
  BY <1>1, GotoTypes DEF Step
<1>3. Advance(t) /\ ThreadSound(t)'
  BY <1>2, IdleSound DEF Advance
<1>4. \A u \in Thread, x \in Transaction : Holds(u, x)' => Holds(u, x)
  BY <1>2 DEF Holds
<1> QED BY <1>3, <1>4, AuthorizationFrame, Assemble

LEMMA InvStart ==
  ASSUME IInv, NEW t \in Thread, TypeOK',
         NEW operation \in Operation, StartAuthorization(t, operation)
  PROVE  IInv'
<1> DEFINE w == [NoWork EXCEPT !.operation = operation]
<1>0. w \in Work
  BY NoWorkType, WorkTypes
<1>1. TypeOK /\ w \in Work /\ now <= now' /\ issued <= issued'
      /\ UNCHANGED <<record, transactions, spent, now, issued, lock>>
  BY <1>0 DEF IInv, StartAuthorization, stored, provider, TypeOK
<1>2. CASE Finish(t)
  BY <1>1, <1>2, InvFinish DEF IInv, Issued
<1>3. CASE Goto(t, "create", w)
  <2>1. pc'[t] = "create" /\ work'[t] = w
    BY <1>1, <1>3, GotoTypes DEF Step
  <2>2. w.operation # Null /\ w.at = 0 /\ w.existing = Null /\ w.replacement = Null
    BY NullAssumption DEF NoWork
  <2>3. ThreadSound(t)'
    BY <1>1, <2>1, <2>2
       DEF ThreadSound, ConnectSound, ReplacementSound, RefreshSound, Issued, TypeOK
  <2> QED BY <1>1, <1>3, <2>3, InvQuiet DEF Step
<1> QED BY <1>2, <1>3 DEF StartAuthorization

LEMMA InvCreate ==
  ASSUME IInv, NEW t \in Thread, TypeOK', CreateTransaction(t)
  PROVE  IInv'
<1>1. TypeOK /\ NoWork \in Work /\ Goto(t, "idle", NoWork) /\ now' = now + 1
      /\ UNCHANGED <<record, lock, issued, live, spent, lost>>
  BY NoWorkType DEF IInv, CreateTransaction, Finish, ReadClock, provider
<1>2. PICK x \in Transaction :
        /\ transactions[x] = Null
        /\ transactions' = [transactions EXCEPT ![x] =
             [operation |-> work[t].operation, expires_at |-> now' + AuthorizationTTL,
              consumed_at |-> Null]]
  BY DEF CreateTransaction
<1>3. /\ pc'[t] = "idle" /\ work'[t] = NoWork
      /\ \A u \in Thread \ {t} : pc'[u] = pc[u] /\ work'[u] = work[u]
  BY <1>1, GotoTypes DEF Step
<1>4. /\ transactions'[x].consumed_at = Null /\ transactions'[x] # Null
      /\ \A y \in Transaction \ {x} : transactions'[y] = transactions[y]
  <2>1. transactions'[x] # Null
    BY <1>1, <1>2, Fields, Lifetimes DEF TypeOK, TransactionRow, NullAssumption, IInv, ConnectSound, CreateTransaction
  <2> QED BY <1>1, <1>2, <2>1 DEF TypeOK
<1>5. Advance(t) /\ ThreadSound(t)'
  BY <1>1, <1>3, <1>4, IdleSound DEF Advance, TypeOK
<1>6. \A u \in Thread, y \in Transaction : Holds(u, y)' => Holds(u, y)
  BY <1>3 DEF Holds
<1>7. ASSUME NEW y \in Transaction PROVE AuthorizationSound(y)'
  <2>1. AuthorizationSound(y)
    BY DEF IInv
  <2>2. CASE y = x
    BY <1>1, <1>2, <1>4, <1>6, <2>1, <2>2 DEF AuthorizationSound
  <2>3. CASE y # x
    BY <1>1, <1>4, <1>6, <2>1, <2>3 DEF AuthorizationSound
  <2> QED BY <2>2, <2>3
<1> QED BY <1>1, <1>5, <1>7, Assemble DEF IInv, Issued

LEMMA InvReceive ==
  ASSUME IInv, NEW t \in Thread, TypeOK',
         NEW x \in Transaction, NEW denied \in BOOLEAN, ReceiveCallback(t, x, denied)
  PROVE  IInv'
<1> DEFINE w == [NoWork EXCEPT !.transaction = x, !.denied = denied, !.at = now']
<1>1. TypeOK /\ now' = now + 1 /\ now' \in Nat /\ transactions[x] # Null /\ x # Null
      /\ UNCHANGED <<record, transactions, spent, issued>> /\ Goto(t, "consume", w)
  BY DEF IInv, ReceiveCallback, ReadClock, stored, provider, TypeOK, CredentialsAssumption
<1>2. w \in Work
  BY <1>1, NoWorkType, Zenon
<1>3. pc'[t] = "consume" /\ work'[t] = w
  BY <1>1, <1>2, GotoTypes DEF Step
<1>4. w.transaction = x /\ w.at = now' /\ w.existing = Null /\ w.replacement = Null
  BY DEF NoWork
<1>5. ThreadSound(t)'
  BY <1>1, <1>3, <1>4 DEF ThreadSound, ConnectSound, ReplacementSound, RefreshSound, Issued
<1> QED BY <1>1, <1>2, <1>5, InvQuiet DEF Step, TypeOK

LEMMA InvConsume ==
  ASSUME IInv, NEW t \in Thread, TypeOK', Consume(t)
  PROVE  IInv'
<1>0. /\ TypeOK /\ work[t] \in Work /\ NoWork \in Work /\ ConnectSound(t) /\ pc[t] = "consume"
      /\ UNCHANGED <<record, lock, now, issued, live, lost>>
  BY NoWorkType DEF IInv, TypeOK, Consume
<1>x. PICK x \in Transaction : x = work[t].transaction
  BY <1>0, Fields DEF ConnectSound
<1>1. /\ x = work[t].transaction /\ transactions[x] \in TransactionRow /\ AuthorizationSound(x)
      /\ work[t].at \in Nat /\ work[t].at # Null
  BY <1>0, <1>x, Fields, Lifetimes DEF IInv, TypeOK, ConnectSound
<1>2. CASE ~MayConsume(x, work[t].at)
  BY <1>0, <1>1, <1>2, InvFinish DEF Consume, IInv, Issued, TypeOK
<1>3. CASE MayConsume(x, work[t].at)
  <2>1. /\ transactions[x].consumed_at = Null
        /\ transactions' = [transactions EXCEPT ![x].consumed_at = work[t].at]
        /\ \/ Finish(t) /\ spent' = [spent EXCEPT ![x] = @ + 1]
           \/ Goto(t, "read", work[t]) /\ UNCHANGED spent
    BY <1>1, <1>3 DEF Consume, MayConsume
  <2>2. /\ transactions'[x] # Null /\ transactions'[x].consumed_at # Null
        /\ \A y \in Transaction \ {x} : transactions'[y] = transactions[y]
    <3>1. transactions'[x] = [transactions[x] EXCEPT !.consumed_at = work[t].at]
      BY <1>0, <1>1, <2>1 DEF TypeOK
    <3>2. transactions'[x].consumed_at = work[t].at /\ transactions'[x] \in TransactionRow
      BY <1>0, <1>1, <3>1 DEF TransactionRow
    <3> QED BY <1>0, <1>1, <2>1, <3>2, NullAssumption DEF TypeOK
  <2>3. spent[x] = 0 /\ \A u \in Thread : ~Holds(u, x)
    BY <1>0, <1>1, <2>1 DEF AuthorizationSound
  <2>4. \A u \in Thread \ {t} : pc'[u] = pc[u] /\ work'[u] = work[u]
    BY <1>0, <1>1, <2>1, GotoTypes DEF Finish, Step
  <2>5. Advance(t)
    BY <1>0, <1>1, <2>2, <2>4 DEF Advance, TypeOK
  <2>6. ThreadSound(t)'
    <3>1. CASE Finish(t)
      BY <1>0, <1>1, <3>1, GotoTypes, IdleSound DEF Finish, Step
    <3>2. CASE Goto(t, "read", work[t])
      <4>1. pc'[t] = "read" /\ work'[t] = work[t]
        BY <1>0, <1>1, <3>2, GotoTypes DEF Step
      <4>2. x # Null /\ work[t].at <= now /\ Issued(work[t].existing) /\ Issued(work[t].replacement)
        BY <1>0, <1>1 DEF IInv, ConnectSound
      <4> QED BY <1>0, <1>1, <2>2, <4>1, <4>2
            DEF ThreadSound, ConnectSound, ReplacementSound, RefreshSound, Issued
    <3> QED BY <2>1, <3>1, <3>2
  <2>7. ASSUME NEW y \in Transaction PROVE AuthorizationSound(y)'
    <3>1. CASE y # x
      <4>1. spent'[y] = spent[y] /\ transactions'[y] = transactions[y]
        BY <1>0, <1>1, <2>1, <2>2, <3>1 DEF TypeOK
      <4>2. pc'[t] = "idle" \/ work'[t].transaction = x
        BY <1>0, <1>1, <2>1, GotoTypes DEF Finish, Step
      <4>3. \A u \in Thread : Holds(u, y)' => Holds(u, y)
        BY <2>4, <3>1, <4>2 DEF Holds
      <4> QED BY <4>1, <4>3 DEF IInv, AuthorizationSound
    <3>2. CASE y = x
      <4>1. \A u \in Thread : Holds(u, x)' => u = t
        BY <2>3, <2>4 DEF Holds
      <4>2. CASE Finish(t) /\ spent' = [spent EXCEPT ![x] = @ + 1]
        <5>1. pc'[t] = "idle" /\ spent'[x] = 1
          BY <1>0, <1>1, <2>3, <4>2, GotoTypes DEF Finish, Step, TypeOK
        <5>2. \A u \in Thread : ~Holds(u, x)'
          BY <4>1, <5>1 DEF Holds
        <5> QED BY <2>2, <3>2, <5>1, <5>2 DEF AuthorizationSound
      <4>3. CASE UNCHANGED spent
        BY <2>2, <2>3, <3>2, <4>1, <4>3 DEF AuthorizationSound
      <4> QED BY <2>1, <4>2, <4>3
    <3> QED BY <3>1, <3>2
  <2> QED BY <1>0, <1>1, <2>5, <2>6, <2>7, Assemble DEF IInv, Issued
<1> QED BY <1>2, <1>3

LEMMA InvRead ==
  ASSUME IInv, NEW t \in Thread, TypeOK', ReadExisting(t)
  PROVE  IInv'
<1> DEFINE w == [work[t] EXCEPT !.existing = record]
<1>1. /\ TypeOK /\ work[t] \in Work /\ pc[t] = "read"
      /\ UNCHANGED <<record, transactions, lock, now, issued, live, spent, lost>>
      /\ Finish(t) \/ Goto(t, "exchange", w)
  BY DEF IInv, ReadExisting, TypeOK, stored, provider
<1>2. CASE Finish(t)
  BY <1>1, <1>2, InvFinish DEF IInv, Issued, TypeOK
<1>3. CASE Goto(t, "exchange", w)
  <2>1. w \in Work
    BY <1>1, WorkTypes DEF TypeOK
  <2>2. pc'[t] = "exchange" /\ work'[t] = w /\ \A u \in Thread \ {t} : pc'[u] = pc[u] /\ work'[u] = work[u]
    BY <1>1, <1>3, <2>1, GotoTypes DEF Step
  <2>3. /\ w.transaction = work[t].transaction /\ w.at = work[t].at /\ w.existing = record
        /\ w.replacement = work[t].replacement
    BY <1>1 DEF Work
  <2>4. Advance(t)
    BY <1>1, <2>2 DEF Advance, TypeOK
  <2>5. ThreadSound(t)'
    BY <1>1, <2>2, <2>3
       DEF IInv, ThreadSound, ConnectSound, ReplacementSound, RefreshSound, Issued
  <2>6. \A u \in Thread, y \in Transaction : Holds(u, y)' => Holds(u, y)
    BY <1>1, <2>2, <2>3 DEF Holds
  <2> QED BY <1>1, <2>4, <2>5, <2>6, AuthorizationFrame, Assemble DEF IInv, Issued
<1> QED BY <1>1, <1>2, <1>3

\* What the callback writes keeps the account and the creation time of what
\* it replaces, is never revoked, and holds a token that was there or issued.
LEMMA CallbackFields ==
  ASSUME NEW e \in Record \cup {Null}, NEW a \in Account, NEW refresh, NEW expires, NEW at
  PROVE  LET r == CallbackRecord(e, a, refresh, expires, at)
         IN  /\ r.revoked_at = Null /\ r.updated_at = at /\ r.subject_id = a
             /\ r.created_at = IF e = Null THEN at ELSE e.created_at
             /\ r.refresh_token = IF e # Null /\ refresh = Null THEN e.refresh_token ELSE refresh
<1>1. CASE e = Null
  BY <1>1 DEF CallbackRecord, SealProviderCredential
<1>2. CASE e # Null
  BY <1>2 DEF CallbackRecord, SealProviderCredential
<1> QED BY <1>1, <1>2

LEMMA InvExchange ==
  ASSUME IInv, NEW t \in Thread, TypeOK', ExchangeCode(t)
  PROVE  IInv'
<1>0. /\ TypeOK /\ work[t] \in Work /\ NoWork \in Work /\ ConnectSound(t) /\ pc[t] = "exchange"
      /\ UNCHANGED <<record, transactions, lock, now, lost>>
  BY NoWorkType DEF IInv, TypeOK, ExchangeCode, stored
<1>x. PICK x \in Transaction : x = work[t].transaction
  BY <1>0, Fields DEF ConnectSound
<1>e. PICK e \in Record \cup {Null} : e = work[t].existing
  BY <1>0, Fields
<1>1. PICK account \in Account, expires \in {Null, work[t].at + AccessTTL},
           refresh \in Grants(transactions[x].operation) :
        /\ IF refresh = Null
            THEN UNCHANGED <<issued, live>>
            ELSE issued' = refresh /\ live' = live \cup {refresh}
        /\ IF e # Null /\ account # e.subject_id
            THEN Finish(t)
            ELSE Goto(t, "upsert",
                      [work[t] EXCEPT
                         !.replacement = CallbackRecord(e, account, refresh, expires, work[t].at),
                         !.omitted = (refresh = Null)])
  BY <1>x, <1>e DEF ExchangeCode
<1>2. refresh = Null \/ refresh = issued + 1
  BY <1>1 DEF Grants
<1>3. issued \in Nat /\ issued' \in Nat /\ issued <= issued' /\ refresh \in 1 .. issued' \cup {Null}
  BY <1>0, <1>1, <1>2 DEF TypeOK
<1>4. expires \in Nat \cup {Null} /\ refresh \in Nat \cup {Null} /\ work[t].at \in Nat
  BY <1>0, <1>3, Fields, Lifetimes
<1> DEFINE r == CallbackRecord(e, account, refresh, expires, work[t].at)
<1> DEFINE w == [work[t] EXCEPT !.replacement = r, !.omitted = (refresh = Null)]
<1>5. r \in Record /\ w \in Work
  BY <1>0, <1>4, WorkTypes, RecordTypes
<1>6. \A u \in Thread \ {t} : pc'[u] = pc[u] /\ work'[u] = work[u]
  BY <1>0, <1>1, <1>5, GotoTypes DEF Finish, Step
<1>7. \/ pc'[t] = "idle" /\ work'[t] = NoWork
      \/ pc'[t] = "upsert" /\ work'[t] = w
  BY <1>0, <1>1, <1>5, GotoTypes DEF Finish, Step
<1>8. Advance(t)
  BY <1>0, <1>3, <1>6 DEF Advance, TypeOK
<1>9. ThreadSound(t)'
  <2>1. CASE pc'[t] = "idle" /\ work'[t] = NoWork
    BY <2>1, IdleSound
  <2>2. CASE pc'[t] = "upsert" /\ work'[t] = w
    <3>1. w.replacement = r /\ w.at = work[t].at /\ w.existing = e
      BY <1>0, <1>e DEF Work
    <3>2. /\ r.revoked_at = Null /\ r.updated_at = work[t].at
          /\ r.created_at = IF e = Null THEN work[t].at ELSE e.created_at
          /\ r.refresh_token = IF e # Null /\ refresh = Null THEN e.refresh_token ELSE refresh
      BY CallbackFields
    <3>3. (e # Null => record # Null) /\ work[t].at <= now /\ r # Null
      BY <1>0, <1>e, <1>5, NullAssumption DEF ConnectSound
    <3>4. ConnectSound(t)'
      BY <1>0, <2>2, <3>1, <3>3 DEF ConnectSound
    <3>5. ReplacementSound(t)'
      BY <1>0, <2>2, <3>1, <3>2, <3>3 DEF ReplacementSound
    <3>6. RefreshSound(t)'
      BY <2>2 DEF RefreshSound
    <3>7. e # Null /\ e.refresh_token # Null => e.refresh_token \in 1 .. issued'
      BY <1>e, <1>3 DEF IInv, Issued
    <3>8. Issued(work[t].existing)' /\ Issued(work[t].replacement)'
      BY <1>3, <2>2, <3>1, <3>2, <3>7 DEF Issued
    <3> QED BY <3>4, <3>5, <3>6, <3>8 DEF ThreadSound
  <2> QED BY <1>7, <2>1, <2>2
<1>10. ASSUME NEW y \in Transaction PROVE AuthorizationSound(y)'
  <2>1. AuthorizationSound(y) /\ pc'[t] \notin {"read", "exchange"} /\ transactions' = transactions
    BY <1>0, <1>7 DEF IInv
  <2>2. \A u \in Thread : Holds(u, y)' => Holds(u, y) /\ u # t
    BY <1>6, <2>1 DEF Holds
  <2>3. CASE y # x
    <3>1. spent'[y] = spent[y]
      BY <1>0, <1>x, <2>3 DEF ExchangeCode, TypeOK
    <3> QED BY <2>1, <2>2, <3>1 DEF AuthorizationSound
  <2>4. CASE y = x
    <3>1. Holds(t, x) /\ spent[x] \in Nat /\ spent'[x] = spent[x] + 1
      BY <1>0, <1>x DEF Holds, ExchangeCode, TypeOK
    <3>2. spent'[x] = 1 /\ (\A u \in Thread : ~Holds(u, x)')
          /\ transactions[x] # Null /\ transactions[x].consumed_at # Null
      BY <2>1, <2>2, <2>4, <3>1 DEF AuthorizationSound
    <3> QED BY <2>1, <2>4, <3>2 DEF AuthorizationSound
  <2> QED BY <2>3, <2>4
<1>11. Issued(record)'
  BY <1>0, <1>3 DEF IInv, Issued
<1> QED BY <1>8, <1>9, <1>10, <1>11, Assemble

LEMMA InvUpsert ==
  ASSUME IInv, NEW t \in Thread, TypeOK', Upsert(t)
  PROVE  IInv'
<1>1. /\ TypeOK /\ lock = Null /\ Finish(t)
      /\ UNCHANGED <<transactions, lock, now, issued, live, spent, lost>>
      /\ record' \in {record, work[t].replacement} /\ work[t].replacement # Null
  BY DEF IInv, Upsert, provider, ReplacementSound
<1>2. Issued(record)'
  BY <1>1 DEF IInv, Issued
<1> QED BY <1>1, <1>2, InvFinish DEF TypeOK

LEMMA InvGet ==
  ASSUME IInv, NEW t \in Thread, TypeOK', GetForCheck(t)
  PROVE  IInv'
<1> DEFINE w == [NoWork EXCEPT !.existing = record]
<1>0. TypeOK /\ w \in Work
  BY NoWorkType, WorkTypes DEF IInv, TypeOK
<1>1. /\ UNCHANGED <<record, transactions, spent, lock, now, issued>>
      /\ Finish(t) \/ (record # Null /\ Goto(t, "clock", w))
  BY DEF GetForCheck, stored, provider
<1>2. CASE Finish(t)
  BY <1>0, <1>1, <1>2, InvFinish DEF IInv, Issued, TypeOK
<1>3. CASE record # Null /\ Goto(t, "clock", w)
  <2>1. pc'[t] = "clock" /\ work'[t] = w
    BY <1>0, <1>3, GotoTypes DEF Step
  <2>2. w.existing = record /\ w.replacement = Null /\ w.at = 0
    BY DEF NoWork
  <2>3. ThreadSound(t)'
    BY <1>0, <1>1, <1>3, <2>1, <2>2
       DEF ThreadSound, ConnectSound, ReplacementSound, RefreshSound, Issued, IInv, TypeOK
  <2> QED BY <1>0, <1>1, <1>3, <2>3, InvQuiet DEF Step, TypeOK
<1> QED BY <1>1, <1>2, <1>3

LEMMA InvDecide ==
  ASSUME IInv, NEW t \in Thread, TypeOK', DecideRefresh(t) \/ Revoke(t)
  PROVE  IInv'
<1> DEFINE w == [NoWork EXCEPT !.at = now']
<1>1. /\ now' = now + 1 /\ UNCHANGED <<record, transactions, lock, issued, spent>>
      /\ Finish(t) \/ Goto(t, "lock", w) \/ Goto(t, "revoke", w)
  BY DEF DecideRefresh, Revoke, ReadClock, stored, provider
<1>2. TypeOK /\ now' \in Nat /\ now <= now' /\ issued <= issued'
  BY <1>1 DEF IInv, TypeOK
<1>3. w \in Work
  BY <1>2, NoWorkType, Zenon
<1>4. CASE Finish(t)
  BY <1>1, <1>2, <1>4, InvFinish DEF IInv, Issued
<1>5. ASSUME NEW step \in {"lock", "revoke"}, Goto(t, step, w) PROVE IInv'
  <2>1. step \in Step \ {"read", "exchange"}
    BY DEF Step
  <2>2. pc'[t] = step /\ work'[t] = w
    BY <1>2, <1>3, <1>5, <2>1, GotoTypes
  <2>3. w.existing = Null /\ w.replacement = Null /\ w.at = now'
    BY DEF NoWork
  <2>4. ThreadSound(t)'
    BY <1>2, <2>2, <2>3 DEF ThreadSound, ConnectSound, ReplacementSound, RefreshSound, Issued
  <2> QED BY <1>1, <1>2, <1>3, <1>5, <2>1, <2>4, InvQuiet
<1> QED BY <1>1, <1>4, <1>5

LEMMA InvLock ==
  ASSUME IInv, NEW t \in Thread, TypeOK', LockCredential(t)
  PROVE  IInv'
<1> DEFINE w == [work[t] EXCEPT !.existing = record]
<1>0. TypeOK /\ work[t] \in Work /\ w \in Work
  BY WorkTypes DEF IInv, TypeOK
<1>1. /\ lock = Null /\ UNCHANGED <<record, transactions, spent, now, issued>>
      /\ \/ Finish(t)
         \/ record # Null /\ MayRefresh(record, work[t].at) /\ Goto(t, "rotate", w)
  BY DEF LockCredential, stored, provider
<1>2. CASE Finish(t)
  BY <1>0, <1>1, <1>2, InvFinish DEF IInv, Issued, TypeOK
<1>3. CASE record # Null /\ MayRefresh(record, work[t].at) /\ Goto(t, "rotate", w)
  <2>1. pc'[t] = "rotate" /\ work'[t] = w
    BY <1>0, <1>3, GotoTypes DEF Step
  <2>2. w.existing = record /\ w.replacement = work[t].replacement /\ w.at = work[t].at
    BY <1>0 DEF Work
  <2>3. ConnectSound(t)' /\ ReplacementSound(t)'
    BY <1>1, <2>1, <2>2 DEF ConnectSound, ReplacementSound, IInv
  <2>4. RefreshSound(t)'
    BY <1>1, <1>3, <2>1, <2>2 DEF RefreshSound, MayRefresh, Expired
  <2>5. Issued(work[t].existing)' /\ Issued(work[t].replacement)'
    BY <1>1, <2>1, <2>2 DEF IInv, Issued
  <2> QED BY <1>0, <1>1, <1>3, <2>3, <2>4, <2>5, InvQuiet DEF Step, TypeOK, ThreadSound
<1> QED BY <1>1, <1>2, <1>3

LEMMA RefreshFields ==
  ASSUME NEW e \in Record, NEW refresh, NEW at
  PROVE  LET r == RefreshedRecord(e, refresh, at)
         IN  /\ r.subject_id = e.subject_id /\ r.created_at = e.created_at /\ r.updated_at = at
             /\ r.refresh_token = refresh /\ r.revoked_at = Null
  BY DEF RefreshedRecord, SealProviderCredential

LEMMA InvRotate ==
  ASSUME IInv, NEW t \in Thread, TypeOK', Rotate(t)
  PROVE  IInv'
<1>0. /\ TypeOK /\ work[t] \in Work /\ pc[t] = "rotate" /\ record \in Record
      /\ work[t].existing = record /\ MayRefresh(record, work[t].at)
      /\ UNCHANGED <<record, transactions, now, spent>> /\ now \in Nat /\ issued \in Nat
      /\ live \subseteq 1 .. issued
  BY DEF IInv, TypeOK, Rotate, RefreshSound, stored
<1> DEFINE w(refresh) ==
      [work[t] EXCEPT !.replacement = RefreshedRecord(record, refresh, work[t].at)]
<1>1. /\ issued' \in {issued, issued + 1}
      /\ \/ Finish(t) /\ lock' = Null
         \/ \E refresh \in 1 .. issued' : Goto(t, "store", w(refresh))
  <2>1. record.refresh_token \in live => record.refresh_token \in 1 .. issued
    BY <1>0
  <2>2. issued + 1 \in 1 .. issued + 1
    BY <1>0
  <2> QED BY <1>0, <2>1, <2>2 DEF Rotate
<1>2. issued' \in Nat /\ issued <= issued'
  BY <1>0, <1>1
<1>3. Issued(record)'
  BY <1>0, <1>2 DEF IInv, Issued
<1>4. CASE Finish(t)
  BY <1>0, <1>2, <1>3, <1>4, InvFinish
<1>5. ASSUME NEW refresh \in 1 .. issued', Goto(t, "store", w(refresh)) PROVE IInv'
  <2>0. refresh \in Nat /\ work[t].at \in Nat
    BY <1>0, <1>2, Fields
  <2>1. RefreshedRecord(record, refresh, work[t].at) \in Record
    BY <1>0, <2>0, RecordTypes
  <2>2. w(refresh) \in Work
    BY <1>0, <2>0, <2>1, WorkTypes
  <2>3. pc'[t] = "store" /\ work'[t] = w(refresh)
    BY <1>0, <1>5, <2>2, GotoTypes DEF Step
  <2>4. /\ work'[t].existing = record /\ work'[t].at = work[t].at
        /\ work'[t].replacement = RefreshedRecord(record, refresh, work[t].at)
        /\ work'[t].replacement.refresh_token = refresh /\ work'[t].replacement # Null
    BY <1>0, <2>1, <2>3, RefreshFields, NullAssumption DEF Work
  <2>5. ConnectSound(t)' /\ ReplacementSound(t)'
    BY <1>0, <2>3, <2>4 DEF ConnectSound, ReplacementSound, IInv
  <2>6. RefreshSound(t)'
    BY <1>0, <2>3, <2>4, NullAssumption DEF RefreshSound, MayRefresh, Expired
  <2>7. Issued(work[t].existing)' /\ Issued(work[t].replacement)'
    BY <1>0, <1>3, <2>4 DEF Issued
  <2> QED BY <1>0, <1>2, <1>5, <2>2, <2>5, <2>6, <2>7, InvQuiet DEF Step, ThreadSound
<1> QED BY <1>1, <1>4, <1>5

LEMMA InvWrite ==
  ASSUME IInv, NEW t \in Thread, TypeOK', StoreRefreshed(t) \/ RevokeWrite(t) \/ Abandon(t)
  PROVE  IInv'
<1>0. TypeOK /\ Finish(t) /\ UNCHANGED <<transactions, spent, now, issued>> /\ now \in Nat /\ issued \in Nat
  BY DEF IInv, TypeOK, StoreRefreshed, RevokeWrite, Abandon, stored, provider
<1>1. CASE StoreRefreshed(t)
  <2>1. lock = t /\ record' = work[t].replacement /\ work[t].replacement # Null
    BY <1>1 DEF IInv, TypeOK, StoreRefreshed, RefreshSound
  <2>2. Issued(record)'
    BY <1>0, <2>1 DEF IInv, Issued
  <2> QED BY <1>0, <2>1, <2>2, InvFinish
<1>2. CASE RevokeWrite(t)
  <2>1. lock = Null /\ record' = IF record = Null THEN Null ELSE RevokeCredentialRecord(record, work[t].at)
    BY <1>2 DEF RevokeWrite
  <2>2. record # Null => record' # Null /\ record'.refresh_token = record.refresh_token
    <3>1. work[t].at \in Nat /\ record \in Record \cup {Null}
      BY <1>0, Fields DEF TypeOK
    <3>2. record # Null => record' \in Record
      BY <2>1, <3>1, RecordTypes
    <3>3. record # Null => record'.refresh_token = record.refresh_token
      BY <2>1, <3>1 DEF RevokeCredentialRecord, Record
    <3> QED BY <3>2, <3>3, NullAssumption
  <2>3. Issued(record)'
    BY <1>0, <2>1, <2>2 DEF IInv, Issued
  <2> QED BY <1>0, <2>1, <2>2, <2>3, InvFinish
<1>3. CASE Abandon(t)
  BY <1>0, <1>3, InvFinish DEF Abandon, stored, IInv, Issued
<1> QED BY <1>1, <1>2, <1>3

LEMMA InvStep == IInv /\ [Next]_vars => IInv'
<1> SUFFICES ASSUME IInv, [Next]_vars PROVE IInv'
  OBVIOUS
<1>1. TypeOK'
  BY TypeStep
<1>2. CASE UNCHANGED vars
  BY <1>1, <1>2 DEF vars, IInv, ConnectSound, ReplacementSound, RefreshSound, Issued,
                   AuthorizationSound, Holds
<1>3. CASE Next
  <2>1. ASSUME NEW t \in Thread, ConnectStep(t) PROVE IInv'
    BY <1>1, <2>1, InvStart, InvCreate, InvReceive, InvConsume, InvRead, InvExchange, InvUpsert
       DEF ConnectStep
  <2>2. ASSUME NEW t \in Thread, ResolveStep(t) PROVE IInv'
    BY <1>1, <2>2, InvGet, InvDecide, InvLock, InvRotate, InvWrite DEF ResolveStep
  <2>3. ASSUME NEW t \in Thread, RevokeStep(t) \/ Abandon(t) PROVE IInv'
    BY <1>1, <2>3, InvDecide, InvWrite DEF RevokeStep
  <2> QED BY <1>3, <2>1, <2>2, <2>3 DEF Next, Thread
<1> QED BY <1>2, <1>3

LEMMA InvInit == Init => IInv
<1> SUFFICES ASSUME Init PROVE IInv
  OBVIOUS
<1>1. TypeOK
  BY TypeInit
<1>2. \A t \in Thread : pc[t] = "idle" /\ work[t] = NoWork
  BY DEF Init
<1>3. NoWork.at = 0 /\ NoWork.existing = Null /\ NoWork.replacement = Null
  BY DEF NoWork
<1> QED BY <1>1, <1>2, <1>3
      DEF Init, IInv, ConnectSound, ReplacementSound, RefreshSound, Issued, AuthorizationSound, Holds

\* Records, transactions, the lock and what threads have read keep their types
\* and their meaning, whatever overlaps.
THEOREM Invariance == Spec => []IInv
  BY InvInit, InvStep, PTL DEF Spec

\* Every variable keeps its type, the lock is held by who refreshes, and a
\* stored record is never from the future.
THEOREM TypeCorrect == Spec => []TypeOK
  BY Invariance, PTL DEF IInv

-----------------------------------------------------------------------------
(* What is promised to the owner of the account.                           *)

LEMMA OneExchange == IInv => OneExchangePerTransaction
<1> SUFFICES ASSUME IInv, NEW x \in Transaction
             PROVE  spent[x] + Cardinality({t \in Connector : Holds(t, x)}) <= 1
  BY DEF OneExchangePerTransaction, Holds
<1> DEFINE holders == {t \in Connector : Holds(t, x)}
<1>1. AuthorizationSound(x) /\ spent[x] \in Nat /\ Connector \subseteq Thread
  BY DEF IInv, TypeOK, Thread
<1>2. \A t \in holders : t \in Thread /\ Holds(t, x)
  BY <1>1
<1> HIDE DEF holders
<1>3. spent[x] + Cardinality(holders) <= 1
  <2>1. CASE holders = {}
    <3>1. Cardinality(holders) = 0
      BY <2>1, FS_EmptySet
    <3> QED BY <1>1, <3>1 DEF AuthorizationSound
  <2>2. CASE holders # {}
    <3>1. PICK t \in holders : TRUE
      BY <2>2
    <3>2. holders = {t} /\ spent[x] = 0
      BY <1>1, <1>2, <3>1 DEF AuthorizationSound
    <3>3. Cardinality(holders) = 1
      BY <3>2, FS_Singleton
    <3> QED BY <3>2, <3>3
  <2> QED BY <2>1, <2>2
<1> QED BY <1>3 DEF holders

\* An authorization is answered once, by one exchange of its code or one
\* denial, wherever and however often the browser comes back.
THEOREM Answered == Spec => []OneExchangePerTransaction
  BY Invariance, OneExchange, PTL

\* The record changes in three ways only.
LEMMA RecordChange ==
  ASSUME IInv, Next, record' # record, record # Null
  PROVE  /\ record' # Null /\ record \in Record
         /\ \/ ValidReplacement(record, record') /\ record'.revoked_at = Null
            \/ /\ record.revoked_at = Null
               /\ record'.subject_id = record.subject_id
               /\ record'.created_at = record.created_at
<1>1. record \in Record
  BY DEF IInv, TypeOK
<1>2. PICK t \in Thread : Upsert(t) \/ StoreRefreshed(t) \/ RevokeWrite(t)
  <2>1. ASSUME NEW t \in Connector, ConnectStep(t) PROVE Upsert(t)
    BY <2>1 DEF ConnectStep, StartAuthorization, CreateTransaction, ReceiveCallback, Consume,
                ReadExisting, ExchangeCode, stored
  <2>2. ASSUME NEW t \in Resolver, ResolveStep(t) PROVE StoreRefreshed(t)
    BY <2>2 DEF ResolveStep, GetForCheck, DecideRefresh, LockCredential, Rotate, stored
  <2>3. ASSUME NEW t \in Revoker, RevokeStep(t) PROVE RevokeWrite(t)
    BY <2>3 DEF RevokeStep, Revoke, stored
  <2>4. ASSUME NEW t \in Thread PROVE ~Abandon(t)
    BY DEF Abandon, stored
  <2> QED BY <2>1, <2>2, <2>3, <2>4 DEF Next, Thread
<1>3. ConnectSound(t) /\ ReplacementSound(t) /\ RefreshSound(t)
  BY DEF IInv
<1>4. CASE Upsert(t)
  BY <1>1, <1>3, <1>4 DEF Upsert, ReplacementSound
<1>5. CASE StoreRefreshed(t)
  <2>1. /\ record' # Null /\ MayRefresh(record, work[t].at)
        /\ record' = RefreshedRecord(record, record'.refresh_token, work[t].at)
    BY <1>3, <1>5 DEF StoreRefreshed, RefreshSound
  <2> QED BY <1>1, <2>1, RefreshFields DEF MayRefresh
<1>6. CASE RevokeWrite(t)
  <2>1. record.revoked_at = Null
        /\ record' = [record EXCEPT !.revoked_at = work[t].at, !.updated_at = work[t].at]
    BY <1>6 DEF RevokeWrite, RevokeCredentialRecord
  <2>2. work[t].at \in Nat
    BY Fields DEF IInv, TypeOK
  <2>3. record' \in Record /\ record'.subject_id = record.subject_id
        /\ record'.created_at = record.created_at
    BY <1>1, <2>1, <2>2 DEF Record
  <2> QED BY <1>1, <2>1, <2>3, NullAssumption
<1> QED BY <1>1, <1>2, <1>4, <1>5, <1>6

\* A stored credential never moves to another account or another connection,
\* whatever connects, reconnects and refreshes overlap.
THEOREM AccountFixed == Spec => AccountNeverSwitches
<1> DEFINE Kept ==
      record # Null => record'.subject_id = record.subject_id /\ record'.created_at = record.created_at
<1>1. IInv /\ [Next]_vars => [Kept]_vars
  <2> SUFFICES ASSUME IInv, [Next]_vars PROVE [Kept]_vars
    OBVIOUS
  <2>1. CASE record' # record /\ Next
    BY <2>1, RecordChange DEF ValidReplacement
  <2>2. CASE record' = record
    BY <2>2
  <2>3. CASE UNCHANGED vars
    BY <2>3
  <2> QED BY <2>1, <2>2, <2>3
<1> QED BY <1>1, Invariance, PTL DEF Spec, AccountNeverSwitches

\* Nothing that read a credential before it was revoked changes it after.
THEOREM RevocationFinal == Spec => RevokedIsForever
<1> DEFINE Final == record # Null /\ record.revoked_at # Null => record' = record
<1>1. IInv /\ [Next]_vars => [Final]_vars
  <2> SUFFICES ASSUME IInv, [Next]_vars PROVE [Final]_vars
    OBVIOUS
  <2>1. CASE record' # record /\ Next
    BY <2>1, RecordChange DEF ValidReplacement
  <2>2. CASE record' = record
    BY <2>2
  <2>3. CASE UNCHANGED vars
    BY <2>3
  <2> QED BY <2>1, <2>2, <2>3
<1> QED BY <1>1, Invariance, PTL DEF Spec, RevokedIsForever

-----------------------------------------------------------------------------
(* Refresh tokens, when every reconnect brings one (ReconnectOmits is      *)
(* FALSE); otherwise TLC finds one overwritten (CredentialsOmittedToken).  *)

LEMMA LiveTokens == ASSUME TypeOK PROVE Null \notin live /\ live \subseteq Nat
<1>1. ASSUME NEW n \in live PROVE n \in Nat
  <2>1. n \in 1 .. issued /\ issued \in Nat
    BY DEF TypeOK
  <2> QED BY <2>1
<1> QED BY <1>1, Lifetimes

\* Steps that hand over no token and leave the stored one.
LEMMA TokensQuiet ==
  ASSUME IInv, TokensSound, NEW t \in Thread,
         \A u \in Thread \ {t} : pc'[u] = pc[u] /\ work'[u] = work[u],
         pc'[t] \notin {"upsert", "store", "exchange"},
         \A x \in Transaction : transactions[x] # Null =>
             transactions'[x] # Null /\ transactions'[x].operation = transactions[x].operation,
         live' = live, lost \subseteq lost',
         record' # Null => record # Null /\ record'.refresh_token = record.refresh_token,
         pc[t] = "store" => record.refresh_token \in live' \cup lost'
  PROVE  TokensSound'
<1>1. PendingToken(t)' = Null /\ \A u \in Thread \ {t} : PendingToken(u)' = PendingToken(u)
  BY DEF PendingToken
<1>2. \A u \in Thread : PendingSound(u)'
  BY <1>1 DEF TokensSound, PendingSound
<1>3. \A u \in Thread : StoringSound(u)'
  <2>1. Null \notin live
    BY LiveTokens DEF IInv
  <2> QED BY <1>1, <2>1 DEF TokensSound, StoringSound
<1>4. ASSUME NEW u \in Thread PROVE OperationSound(u)'
  <2>1. OperationSound(u) /\ ConnectSound(u) /\ work[u] \in Work
    BY DEF IInv, TokensSound, TypeOK
  <2>2. work[u].transaction \in Transaction \cup {Null}
    BY <2>1, Fields
  <2> QED BY <2>1, <2>2 DEF OperationSound, ConnectSound
<1>5. StoredSound'
  <2> SUFFICES ASSUME record' # Null, record'.refresh_token # Null,
                      record'.refresh_token \notin live' \cup lost'
               PROVE  \E u \in Thread : pc'[u] = "store"
    BY DEF StoredSound
  <2>1. PICK u \in Thread : pc[u] = "store"
    BY DEF TokensSound, StoredSound
  <2> QED BY <2>1
<1> QED BY <1>2, <1>3, <1>4, <1>5 DEF TokensSound

LEMMA TokensIssued ==
  ASSUME IInv, NEW u \in Thread
  PROVE  /\ PendingToken(u) \in Nat \cup {Null}
         /\ work[u].replacement # Null =>
              /\ work[u].replacement \in Record
              /\ work[u].replacement.refresh_token \in 1 .. issued \cup {Null}
         /\ record # Null => record.refresh_token \in 1 .. issued \cup {Null}
<1>1. work[u].replacement \in Record \cup {Null} /\ ReplacementSound(u) /\ Issued(work[u].replacement)
      /\ Issued(record)
  BY Fields DEF IInv, TypeOK
<1> QED BY <1>1, Fields DEF PendingToken, ReplacementSound, Issued

LEMMA TokensExchange ==
  ASSUME IInv, TokensSound, ~ReconnectOmits, NEW t \in Thread, ExchangeCode(t)
  PROVE  TokensSound'
<1>0. /\ TypeOK /\ work[t] \in Work /\ NoWork \in Work /\ pc[t] = "exchange"
      /\ UNCHANGED <<record, transactions, lock, lost>> /\ OperationSound(t)
  BY NoWorkType DEF IInv, TypeOK, ExchangeCode, stored, TokensSound
<1>1. PICK account \in Account, expires \in {Null, work[t].at + AccessTTL},
           refresh \in Grants(transactions[work[t].transaction].operation) :
        /\ IF refresh = Null
            THEN UNCHANGED <<issued, live>>
            ELSE issued' = refresh /\ live' = live \cup {refresh}
        /\ IF work[t].existing # Null /\ account # work[t].existing.subject_id
            THEN Finish(t)
            ELSE Goto(t, "upsert",
                      [work[t] EXCEPT
                         !.replacement = CallbackRecord(work[t].existing, account, refresh, expires, work[t].at),
                         !.omitted = (refresh = Null)])
  BY DEF ExchangeCode
<1>2. refresh \in {Null, issued + 1} /\ (refresh = Null => work[t].existing = Null)
  <2>1. refresh \in {Null, issued + 1}
    BY <1>1 DEF Grants
  <2>2. CASE work[t].existing # Null
    <3>1. transactions[work[t].transaction] \in TransactionRow
      BY <1>0, Fields DEF IInv, ConnectSound, TypeOK
    <3>2. transactions[work[t].transaction].operation = "reconnect"
      BY <1>0, <2>2, <3>1 DEF OperationSound, TransactionRow, Operation
    <3> QED BY <1>1, <2>1, <3>2, Lifetimes DEF Grants, IInv, TypeOK
  <2> QED BY <2>1, <2>2
<1>3. expires \in Nat \cup {Null} /\ refresh \in Nat \cup {Null} /\ work[t].existing \in Record \cup {Null}
  BY <1>0, <1>2, Fields, Lifetimes DEF TypeOK
<1> DEFINE r == CallbackRecord(work[t].existing, account, refresh, expires, work[t].at)
<1> DEFINE w == [work[t] EXCEPT !.replacement = r, !.omitted = (refresh = Null)]
<1>4. w \in Work /\ w.replacement = r /\ r.refresh_token = refresh
  <2>1. r \in Record
    BY <1>0, <1>3, Fields, RecordTypes
  <2>2. w \in Work
    BY <1>0, <2>1, WorkTypes
  <2>3. w.replacement = r
    BY <1>0 DEF Work
  <2> QED BY <1>2, <1>3, <2>2, <2>3, CallbackFields
<1>5. /\ \A u \in Thread \ {t} : pc'[u] = pc[u] /\ work'[u] = work[u]
      /\ \/ pc'[t] = "idle"
         \/ pc'[t] = "upsert" /\ work'[t] = w
  BY <1>0, <1>1, <1>4, GotoTypes DEF Finish, Step
<1>6. live' = live \cup ({refresh} \ {Null}) /\ live \subseteq 1 .. issued /\ issued \in Nat
  BY <1>0, <1>1 DEF TypeOK
<1>7. /\ PendingToken(t)' \in {Null, refresh} 
      /\ \A u \in Thread \ {t} : PendingToken(u)' = PendingToken(u)
  BY <1>4, <1>5 DEF PendingToken
<1>8. refresh # Null => refresh = issued + 1 /\ refresh \notin 1 .. issued
  BY <1>2, <1>6
<1>9. \A u \in Thread : PendingToken(u) # Null => PendingToken(u) \in 1 .. issued
  BY <1>6 DEF TokensSound, PendingSound
<1>10. ASSUME NEW u \in Thread PROVE PendingSound(u)'
  <2>1. CASE u = t
    BY <1>0, <1>6, <1>7, <1>8, <1>9, <2>1, TokensIssued DEF PendingSound
  <2>2. CASE u # t
    BY <1>0, <1>6, <1>7, <1>8, <1>9, <2>2 DEF PendingSound, TokensSound
  <2> QED BY <2>1, <2>2
<1>11. ASSUME NEW u \in Thread PROVE StoringSound(u)'
  <2>1. pc'[u] = "store" => u # t /\ pc[u] = "store"
    BY <1>5
  <2> QED BY <1>5, <1>6, <1>7, <1>8, <2>1 DEF StoringSound, TokensSound
<1>12. ASSUME NEW u \in Thread PROVE OperationSound(u)'
  BY <1>0, <1>5 DEF OperationSound, TokensSound
<1>13. StoredSound'
  BY <1>0, <1>5, <1>6 DEF StoredSound, TokensSound
<1> QED BY <1>10, <1>11, <1>12, <1>13 DEF TokensSound

LEMMA TokensUpsert ==
  ASSUME IInv, TokensSound, NEW t \in Thread, Upsert(t)
  PROVE  TokensSound'
<1>1. /\ TypeOK /\ pc[t] = "upsert" /\ lock = Null /\ UNCHANGED <<transactions, live, lost>>
      /\ record' = record \/ record' = work[t].replacement
      /\ Goto(t, "idle", NoWork) /\ NoWork \in Work
  BY NoWorkType DEF IInv, Upsert, provider, Finish
<1>2. pc'[t] = "idle" /\ \A u \in Thread \ {t} : pc'[u] = pc[u] /\ work'[u] = work[u]
  BY <1>1, GotoTypes DEF Step
<1>3. CASE record' = record
  BY <1>1, <1>2, <1>3, TokensQuiet
<1>4. CASE record' = work[t].replacement
  <2>1. /\ record' # Null /\ record'.refresh_token = PendingToken(t)
        /\ \A u \in Thread : pc[u] # "store"
    BY <1>1, <1>4 DEF IInv, ReplacementSound, PendingToken, TypeOK
  <2>2. PendingToken(t)' = Null /\ \A u \in Thread \ {t} : PendingToken(u)' = PendingToken(u)
    BY <1>2 DEF PendingToken
  <2>3. \A u \in Thread : PendingSound(u)'
    BY <1>1, <2>1, <2>2 DEF TokensSound, PendingSound
  <2>4. \A u \in Thread : StoringSound(u)' /\ OperationSound(u)'
    BY <1>1, <1>2, <2>1 DEF StoringSound, OperationSound, TokensSound
  <2>5. StoredSound'
    BY <1>1, <2>1 DEF StoredSound, TokensSound, PendingSound
  <2> QED BY <2>3, <2>4, <2>5 DEF TokensSound
<1> QED BY <1>1, <1>3, <1>4

LEMMA TokensRotate ==
  ASSUME IInv, TokensSound, NEW t \in Thread, Rotate(t)
  PROVE  TokensSound'
<1>0. /\ TypeOK /\ work[t] \in Work /\ NoWork \in Work /\ pc[t] = "rotate" /\ record \in Record
      /\ work[t].existing = record /\ record.refresh_token # Null /\ work[t].at \in Nat
      /\ UNCHANGED <<record, transactions, lost>> /\ issued \in Nat
      /\ live \subseteq 1 .. issued /\ \A u \in Thread : pc[u] = "store" => u = t
  BY NoWorkType, Fields DEF IInv, TypeOK, Rotate, RefreshSound, MayRefresh, stored
<1> DEFINE w(refresh) ==
      [work[t] EXCEPT !.replacement = RefreshedRecord(record, refresh, work[t].at)]
<1>1. \A refresh \in Nat : w(refresh) \in Work /\ w(refresh).replacement.refresh_token = refresh
  <2> SUFFICES ASSUME NEW refresh \in Nat
               PROVE  w(refresh) \in Work /\ w(refresh).replacement.refresh_token = refresh
    OBVIOUS
  <2>1. RefreshedRecord(record, refresh, work[t].at) \in Record
    BY <1>0, RecordTypes
  <2>2. w(refresh) \in Work
    BY <1>0, <2>1, WorkTypes
  <2>3. w(refresh).replacement = RefreshedRecord(record, refresh, work[t].at)
    BY <1>0 DEF Work
  <2> QED BY <1>0, <2>2, <2>3, RefreshFields
<1> HIDE DEF w
<1>2. CASE Finish(t) /\ UNCHANGED live
  <2>1. pc'[t] = "idle" /\ \A u \in Thread \ {t} : pc'[u] = pc[u] /\ work'[u] = work[u]
    BY <1>0, <1>2, GotoTypes DEF Finish, Step
  <2> QED BY <1>0, <1>2, <2>1, TokensQuiet
<1>3. ASSUME NEW refresh \in Nat, Goto(t, "store", w(refresh)), refresh \in live',
             refresh = record.refresh_token \/ refresh = issued + 1,
             live' \subseteq live \cup {issued + 1}, live \ {record.refresh_token} \subseteq live'
      PROVE  TokensSound'
  <2>1. /\ pc'[t] = "store" /\ work'[t].replacement.refresh_token = refresh
        /\ \A u \in Thread \ {t} : pc'[u] = pc[u] /\ work'[u] = work[u]
    BY <1>0, <1>1, <1>3, GotoTypes DEF Step
  <2>2. \A u \in Thread : PendingToken(u)' = PendingToken(u)
    BY <1>0, <2>1 DEF PendingToken
  <2>3. ASSUME NEW u \in Thread, PendingToken(u) # Null
        PROVE  PendingToken(u) \in live' /\ PendingToken(u) # refresh
    <3>1. PendingToken(u) \in live /\ PendingToken(u) # record.refresh_token
      BY <1>0, <2>3, NullAssumption DEF TokensSound, PendingSound
    <3>2. issued + 1 \notin live
      BY <1>0
    <3> QED BY <1>3, <3>1, <3>2
  <2>4. \A u \in Thread : PendingSound(u)'
    BY <1>0, <2>2, <2>3 DEF TokensSound, PendingSound
  <2>5. \A u \in Thread : StoringSound(u)'
    BY <1>0, <1>3, <2>1, <2>2, <2>3, Lifetimes DEF StoringSound
  <2>6. \A u \in Thread : OperationSound(u)'
    BY <1>0, <2>1 DEF OperationSound, TokensSound
  <2>7. StoredSound'
    BY <2>1 DEF StoredSound
  <2> QED BY <2>4, <2>5, <2>6, <2>7 DEF TokensSound
<1>4. CASE record.refresh_token \in live /\ Goto(t, "store", w(record.refresh_token)) /\ UNCHANGED live
  <2>1. record.refresh_token \in Nat
    BY <1>0, <1>4, LiveTokens
  <2> QED BY <1>3, <1>4, <2>1
<1>5. CASE /\ Goto(t, "store", w(issued + 1))
           /\ live' \in {live \cup {issued + 1}, (live \ {record.refresh_token}) \cup {issued + 1}}
  <2>1. /\ issued + 1 \in Nat /\ issued + 1 \in live' /\ live' \subseteq live \cup {issued + 1}
        /\ live \ {record.refresh_token} \subseteq live'
    BY <1>0, <1>5
  <2> QED BY <1>3, <1>5, <2>1
<1> QED BY <1>0, <1>2, <1>4, <1>5 DEF Rotate, w

LEMMA TokensStore ==
  ASSUME IInv, TokensSound, NEW t \in Thread, StoreRefreshed(t)
  PROVE  TokensSound'
<1>1. /\ TypeOK /\ pc[t] = "store" /\ UNCHANGED <<transactions, live, lost>>
      /\ record' = work[t].replacement /\ Goto(t, "idle", NoWork) /\ NoWork \in Work
      /\ record' # Null /\ record'.refresh_token \in live /\ record'.refresh_token # Null
  <2>1. TypeOK /\ RefreshSound(t) /\ StoringSound(t) /\ Null \notin live
    BY LiveTokens DEF IInv, TokensSound
  <2> QED BY <2>1, NoWorkType DEF StoreRefreshed, RefreshSound, provider, Finish, StoringSound
<1>2. /\ pc'[t] = "idle" /\ \A u \in Thread \ {t} : pc'[u] = pc[u] /\ work'[u] = work[u]
      /\ \A u \in Thread : pc'[u] # "store"
  BY <1>1, GotoTypes DEF Step, TypeOK
<1>3. PendingToken(t)' = Null /\ \A u \in Thread \ {t} : PendingToken(u)' = PendingToken(u)
  BY <1>2 DEF PendingToken
<1>4. \A u \in Thread : PendingSound(u)'
  BY <1>1, <1>3 DEF TokensSound, PendingSound, StoringSound
<1>5. \A u \in Thread : StoringSound(u)' /\ OperationSound(u)'
  BY <1>1, <1>2 DEF StoringSound, OperationSound, TokensSound
<1>6. StoredSound'
  BY <1>1 DEF StoredSound
<1> QED BY <1>4, <1>5, <1>6 DEF TokensSound

\* The remaining steps of a callback, and those of checks and revocations.
LEMMA TokensRest ==
  ASSUME IInv, TokensSound, NEW t \in Thread,
         \/ \E operation \in Operation : StartAuthorization(t, operation)
         \/ CreateTransaction(t)
         \/ \E x \in Transaction, denied \in BOOLEAN : ReceiveCallback(t, x, denied)
         \/ Consume(t)
         \/ GetForCheck(t) \/ DecideRefresh(t) \/ LockCredential(t)
         \/ RevokeStep(t) \/ Abandon(t)
  PROVE  TokensSound'
<1>0. TypeOK /\ work[t] \in Work /\ ConnectSound(t) /\ RefreshSound(t)
  BY DEF IInv, TypeOK
<1>1. PICK step, w : step \in Step \ {"upsert", "store", "exchange"} /\ Goto(t, step, w)
  BY DEF StartAuthorization, CreateTransaction, ReceiveCallback, Consume, GetForCheck, DecideRefresh,
         LockCredential, RevokeStep, Revoke, RevokeWrite, Abandon, Finish, Step
<1>2. /\ pc'[t] \notin {"upsert", "store", "exchange"}
      /\ \A u \in Thread \ {t} : pc'[u] = pc[u] /\ work'[u] = work[u]
  BY <1>0, <1>1 DEF Goto, TypeOK
<1>3. live' = live
  BY DEF StartAuthorization, CreateTransaction, ReceiveCallback, Consume, GetForCheck, DecideRefresh,
         LockCredential, RevokeStep, Revoke, RevokeWrite, Abandon, provider
<1>4. lost \subseteq lost' /\ (pc[t] = "store" => record.refresh_token \in live' \cup lost')
  BY <1>0, <1>3 DEF StartAuthorization, CreateTransaction, ReceiveCallback, Consume, GetForCheck, DecideRefresh,
         LockCredential, RevokeStep, Revoke, RevokeWrite, Abandon, provider, RefreshSound
<1>5. record' # Null => record # Null /\ record'.refresh_token = record.refresh_token
  <2>1. CASE RevokeWrite(t)
    BY <2>1, <1>0 DEF RevokeWrite, RevokeCredentialRecord, TypeOK, Record
  <2>2. CASE ~RevokeWrite(t)
    BY <2>2 DEF StartAuthorization, CreateTransaction, ReceiveCallback, Consume, GetForCheck, DecideRefresh,
         LockCredential, RevokeStep, Revoke, Abandon, stored
  <2> QED BY <2>1, <2>2
<1>6. ASSUME NEW x \in Transaction, transactions[x] # Null
      PROVE  transactions'[x] # Null /\ transactions'[x].operation = transactions[x].operation
  <2>1. transactions \in [Transaction -> TransactionRow \cup {Null}] /\ transactions[x] \in TransactionRow
    BY <1>0, <1>6 DEF TypeOK
  <2>2. CASE CreateTransaction(t)
    BY <1>6, <2>1, <2>2 DEF CreateTransaction
  <2>3. CASE Consume(t)
    <3>1. LET row == [transactions[x] EXCEPT !.consumed_at = work[t].at]
          IN  row \in TransactionRow /\ row.operation = transactions[x].operation
      BY <1>0, <2>1, Fields DEF TransactionRow
    <3>2. \/ transactions'[x] = transactions[x]
          \/ transactions'[x] = [transactions[x] EXCEPT !.consumed_at = work[t].at]
      BY <2>1, <2>3 DEF Consume
    <3> QED BY <1>6, <3>1, <3>2, NullAssumption
  <2>4. CASE transactions' = transactions
    BY <1>6, <2>4
  <2> QED BY <2>2, <2>3, <2>4
        DEF StartAuthorization, ReceiveCallback, GetForCheck, DecideRefresh,
            LockCredential, RevokeStep, Revoke, RevokeWrite, Abandon, stored
<1> QED BY <1>2, <1>3, <1>4, <1>5, <1>6, TokensQuiet

LEMMA TokensRead ==
  ASSUME IInv, TokensSound, NEW t \in Thread, ReadExisting(t)
  PROVE  TokensSound'
<1>0. /\ TypeOK /\ work[t] \in Work /\ NoWork \in Work /\ pc[t] = "read"
      /\ UNCHANGED <<record, transactions, live, lost>>
  BY NoWorkType DEF IInv, TypeOK, ReadExisting, stored, provider
<1>1. CASE Finish(t)
  <2>1. pc'[t] = "idle" /\ \A u \in Thread \ {t} : pc'[u] = pc[u] /\ work'[u] = work[u]
    BY <1>0, <1>1, GotoTypes DEF Finish, Step
  <2> QED BY <1>0, <2>1, TokensQuiet
<1>2. CASE /\ ValidCredentialOperation(transactions[work[t].transaction].operation, record)
           /\ Goto(t, "exchange", [work[t] EXCEPT !.existing = record])
  <2> DEFINE w == [work[t] EXCEPT !.existing = record]
  <2>1. w \in Work
    BY <1>0, WorkTypes DEF TypeOK
  <2>2. w.existing = record /\ w.transaction = work[t].transaction
    BY <1>0 DEF Work
  <2>3. /\ pc'[t] = "exchange" /\ work'[t] = w
        /\ \A u \in Thread \ {t} : pc'[u] = pc[u] /\ work'[u] = work[u]
    BY <1>0, <1>2, <2>1, GotoTypes DEF Step
  <2>4. \A u \in Thread : PendingToken(u)' = PendingToken(u)
    BY <1>0, <2>3 DEF PendingToken
  <2>5. \A u \in Thread : PendingSound(u)'
    BY <1>0, <2>4 DEF PendingSound, TokensSound
  <2>6. \A u \in Thread : StoringSound(u)'
    BY <1>0, <2>3, <2>4 DEF StoringSound, TokensSound
  <2>7. \A u \in Thread : OperationSound(u)'
    <3>1. OperationSound(t)'
      <4>1. work'[t].existing = record /\ work'[t].transaction = work[t].transaction
        BY <2>2, <2>3
      <4> QED BY <1>0, <1>2, <4>1 DEF OperationSound, ValidCredentialOperation
    <3>2. \A u \in Thread \ {t} : OperationSound(u)'
      BY <1>0, <2>3 DEF OperationSound, TokensSound
    <3> QED BY <3>1, <3>2
  <2>8. StoredSound'
    BY <1>0, <2>3 DEF StoredSound, TokensSound
  <2> QED BY <2>5, <2>6, <2>7, <2>8 DEF TokensSound
<1> QED BY <1>1, <1>2 DEF ReadExisting

LEMMA TokensStep ==
  ~ReconnectOmits => (IInv /\ TokensSound /\ [Next]_vars => TokensSound')
<1> SUFFICES ASSUME ~ReconnectOmits, IInv, TokensSound, [Next]_vars PROVE TokensSound'
  OBVIOUS
<1>1. CASE UNCHANGED vars
  BY <1>1 DEF vars, TokensSound, PendingSound, PendingToken, StoringSound, OperationSound, StoredSound
<1>2. CASE Next
  <2>1. ASSUME NEW t \in Thread, ConnectStep(t) PROVE TokensSound'
    BY <2>1, TokensRest, TokensRead, TokensExchange, TokensUpsert DEF ConnectStep
  <2>2. ASSUME NEW t \in Thread, ResolveStep(t) PROVE TokensSound'
    BY <2>2, TokensRest, TokensRotate, TokensStore DEF ResolveStep
  <2>3. ASSUME NEW t \in Thread, RevokeStep(t) \/ Abandon(t) PROVE TokensSound'
    BY <2>3, TokensRest
  <2> QED BY <1>2, <2>1, <2>2, <2>3 DEF Next, Thread
<1> QED BY <1>1, <1>2

LEMMA TokensInit == Init => TokensSound
  BY DEF Init, TokensSound, PendingSound, PendingToken, StoringSound, OperationSound, StoredSound

LEMMA TokensInvariance == ~ReconnectOmits => (Spec => [](IInv /\ TokensSound))
<1> SUFFICES ASSUME ~ReconnectOmits PROVE Spec => [](IInv /\ TokensSound)
  OBVIOUS
<1>1. Init => IInv /\ TokensSound
  BY InvInit, TokensInit
<1>2. IInv /\ TokensSound /\ [Next]_vars => (IInv /\ TokensSound)'
  BY InvStep, TokensStep
<1> QED BY <1>1, <1>2, PTL DEF Spec

\* Between refreshes the stored token is one the provider accepts, unless a
\* refresh died between the provider's answer and the write.
THEOREM TokenWorks == ~ReconnectOmits => (Spec => []StoredTokenWorks)
<1>1. IInv /\ TokensSound => StoredTokenWorks
  BY DEF IInv, TypeOK, TokensSound, StoredSound, StoredTokenWorks
<1> QED BY <1>1, TokensInvariance, PTL

\* No two checks rotate one token: what a refresh is about to present is
\* what is stored, and nobody has replaced it.
THEOREM TokenPresentedOnce == ~ReconnectOmits => (Spec => []NoTokenReuse)
<1>1. IInv /\ TokensSound => NoTokenReuse
  BY DEF IInv, TypeOK, RefreshSound, MayRefresh, TokensSound, StoredSound, NoTokenReuse
<1> QED BY <1>1, TokensInvariance, PTL
=============================================================================

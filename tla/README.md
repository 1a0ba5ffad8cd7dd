# A TLA+ verification of AnalystWatch

AnalystWatch watches tabular data sources (files, SQL, Google Sheets, Microsoft
Excel), compares each new reading with a trusted baseline, turns a failing
source into an incident, and notifies people through Teams or e-mail. It runs as
a command line tool, as a FastAPI service whose handlers are threads, and as
scheduled jobs, all over one SQLite file, one Postgres schema or a memory store.

There is no lock above the store. Every service method is a sequence of store
calls, each its own transaction, with file, database or HTTP work in between.
What is hard in this code is therefore what happens when two such sequences
interleave, when one dies half way, or when an answer from outside comes late.
The modules here are about that. Paths are relative to `src/analystwatch/`.

## 1. Inventory

| Component | State | Operations | Interacts with | Hard part | Correct means |
|---|---|---|---|---|---|
| Delivery attempts (`service.py`, `teams_delivery.py`, `email_delivery.py`, `delivery.py`, store methods) | rows of `delivery_attempts` | claim under an idempotency key, mark LIVE, call the adapter, record, reconcile | candidates of monitoring, Teams and Resend | crashes around the call, lost and late replies, replays, stale copies written back; over Postgres, a claim of four statements | the recipient is not told twice unless someone decided that the first attempt failed |
| Reconciliation queue (`reconciliation.py`) | none | list what an operator must decide | delivery attempts | the scan window | nothing that blocks a pair is hidden without a sign |
| Monitoring (`service.py`, `incidents.py`) | sources, observations, baselines, notification candidates, row values | add, update, onboard, check, check due sources, promote, evaluate, prune, show the incident | the stores, the detectors, delivery | read-then-write sequences of up to six store calls, overlapping checks | candidates are those the history implies; the baseline moves as its reviewer saw it; decisions last; row values stay within the window |
| Scheduled runs (`service.py`, `scheduler.py`, `cli.py`) | none | check due sources, check all sources | monitoring of every source | a run stops at the first check that raises; sources are switched off under it | no source waits for ever |
| Detection (`detectors.py`, `data_rules.py`) | none, but its verdicts select the history it reads next | judge a profile against a baseline or a history | observations | feedback of verdicts into the history | alarms last, short outages are forgiven |
| Scorecards (`scorecards.py`, `scorecard_*.py`) | none | reliability windows, recovery times, badge | observations | incidents derived again from the end of the history | agrees with the incidents announced |
| Stored credentials and OAuth (`credential_*.py`, `oauth_*.py`, `source_credentials.py`) | one encrypted record per credential, one row per authorization | start, callback, exchange, store, resolve, refresh, revoke | checks of Google and Microsoft sources, the providers | a lock held over HTTP; refresh tokens the provider rotates; callbacks that repeat; reconnects racing refreshes | the stored token works; an authorization is used once; account and revocation are final |
| Workspace isolation (`workspace.py`, `namespaced_storage.py`) | none (a filter), or composite keys | every store call | all stores | ownership checked in one call, used in the next; limits before filters | no workspace sees or changes another's rows |
| Backup and import (`storage.py`, `namespaced_storage.py`, `postgres_storage.py`, `runtime_storage.py`) | whole stores | back up, restore, import a snapshot, import into Postgres | all tables, a service still writing | an import is many transactions and may die between any two | a copy that reports success is whole, and may be tried again |
| Dependencies and Power BI guards (`dependencies.py`, `dependency_*.py`, `power_bi*.py`) | edges, guards, snapshots | check a guard, replace discovered edges, edit, blast radius | Power BI, sources | sources read one by one; edge by edge replacement; cycles | the graph is what was discovered; a model is trusted only if its sources are; the radius is reachability |
| Authorization (`auth.py`, `web_auth.py`, `auth_storage.py`) | memberships, signed sessions | require a role | every route | method and path to role | no route below its role |
| Provider clients (`google_sheets.py`, `microsoft_excel.py`, `connection_*.py`) | none | HTTP requests | Google, Microsoft | parsing | pure requests |
| Cryptography (`credential_crypto.py`, `credential_runtime.py`) | keys | seal, unseal | credentials | none of this kind | pure functions |
| Presentation (`cli.py`, `web.py`, `pages.py`, `source_packs.py`, `config.py`) | none | render, route, parse | everything | none of this kind | calls the methods above |

`PROJECT.json` lists the same components with what is modelled of each, and
every hazard at its line.

## 2. Plan

Done:

1. `Delivery`, `DeliveryContract`: the ledger of attempts and the contract it
   implements.
2. `Monitoring`: one source from its definition to its candidates; `Overlaps`,
   its threads with a record of what each has missed; `Scorecards` over its history.
3. `Credentials`: one credential, its authorizations and the provider.
4. `PostgresClaim`: the claim over Postgres as several actions, which keeps the
   contract of delivery; `ReconciliationQueue` over its table.
5. `Workspaces`, which implements `PrivateStores`; `WorkspaceLists`, the lists
   across the sources of a workspace.
6. `Migration`: backup, restore and the two imports.
7. `Dependencies`: guards, discovery and trust; `DependencyImpact`, the blast
   radius.
8. `Fleet`: runs over several sources, with liveness.
9. `Detection` and `Judgement`: the detectors, and the history they feed.
10. The proofs: `DeliveryProofs`, `PostgresClaimProofs`, `CredentialsProofs`,
    `MonitoringProofs`, `DependenciesProofs`, `WorkspacesProofs`, `MigrationProofs`,
    `JudgementProofs`.

How they fit together: `Fleet` calls what `Monitoring` details; `Judgement`
details the verdict that `Monitoring` leaves open; `Monitoring` makes the
candidates that `Delivery` delivers and whose state it reads; `Credentials` is
what a check resolves before it reads a dataset; `Dependencies` reads the health
`Monitoring` leaves; `Workspaces` and `Migration` are about the tables under all
of them, and `PostgresClaim` about one of the stores.

Nothing the runs check is left to prove but the liveness property of `Fleet`, which
the prover has no rules for.

## 3. Modules

### Delivery

| Module | Models |
|---|---|
| `Delivery` | `delivery_attempts` (`rows`), the threads that run `deliver_teams_candidate`, `deliver_email_candidate` and the dry run, and operators who reconcile |
| `DeliveryContract` | what the recipient is promised, without a table: attempts are opened in turn, called at most once, and a further one is opened only after the one before was released |
| `DeliveryProofs` | the inductive invariant and the theorems |
| `MCDelivery` | symmetry for the runs, and the queue |
| `PostgresClaim` | the same with the claim of the Postgres store, in four steps |
| `ReconciliationQueue` | the queue read from the table |
| `MCPostgresClaim` | the claim on a small instance |
| `PostgresClaimProofs` | the invariant of `DeliveryProofs` carried over to a claim in four steps |

A thread receives a request with a candidate, an adapter, a key and the time it
began; claims; marks the attempt LIVE; calls the adapter; records what came
back. `pc[w]` says which call comes next and `local[w]` is the Python object the
thread holds, a copy of the row as it was when read. `update_delivery_attempt`
writes that whole copy back, whatever the row has become, and so do the actions.

| Action | Code |
|---|---|
| `Begin` | the handler takes the time and reads candidate and source (`deliver_teams_candidate`, `deliver_email_candidate`, `dry_run_delivery`) |
| `ClaimNew`, `ClaimReplay`, `ClaimRefused` | `claim_delivery_attempt`, one `BEGIN IMMEDIATE` transaction (`storage.py`) |
| `MarkLive`, `MarkReplayLive` | writing mode LIVE before looking whether the claim was a replay (`teams_delivery.py:200`) |
| `DeliverAccepted`, `DeliverRejected`, `DeliverUncertain` | the adapter call and its three outcomes |
| `RecordSuccess`, `RecordFailure` | writing the result back |
| `Crash` | the process dies, or a store call fails, between any two calls |
| `Reconcile` | `reconcile_prepared_delivery_attempt`: an operator settles a Prepared attempt |
| `UpdateNotificationCandidate` | the policy evaluation of Monitoring, seen from here |

The dry run is the same path with an adapter that sends nothing. `sends`,
`accepted`, `rejections` and `verdicts` are history: no guard reads them.

`PostgresClaim` replaces the three claim actions by `LockCandidate` (`SELECT ... FOR
UPDATE` and the look at the candidate's state), `FindKey`, `FindLatest` and
`InsertAttempt`, each seeing what is committed when it runs; `holder` says who has
a candidate's row locked and `UpdateLockedCandidate` waits for it. Updates of
attempts lock nothing the claim looks at, so the latest attempt may change
between `FindLatest` and the insert: the claim is not the atomic one of
`Delivery`, and what is shown is that it keeps the contract all the same.

`ReconciliationQueue` gives the set of queues the store may return, for each pair of
limits a caller may give and with ties of `created_at` in any order, as records with
the items, the counts and the two signs that something was cut off.

### Monitoring

| Module | Models |
|---|---|
| `Monitoring` | one source: its definition, observations, baseline, candidates, stored row values, and the threads working on it |
| `Overlaps` | the same, with history variables: what others have changed since a thread read it (`missed`), and which observations were saved by a check that another had overtaken (`raced`) |
| `Scorecards` | the reliability scorecard of that source |
| `MCMonitoring`, `MCOverlaps` | definitions and results for the runs |
| `MonitoringProofs` | what holds for any number of threads, and what of the incidents shown when one thread checks |

Sources share no rows, so one is enough for everything but the order in which a
scheduled run visits them. A check reads the previous observation, ingests,
reads the baseline, saves observation, baseline and candidate in one
transaction, and then prunes row values in three more calls; each of those is an
action of `CheckStep`. The dataset's judgement is any member of `Results`.
Threads are grouped by what they do (`Checker`, `Scheduler`, `Reviewer`,
`Evaluator`, `Editor`); one thread may be in several groups, and then does these
things one after the other. `Abandon` stops a thread anywhere.
Where a thread compares in one store call what it writes in a later one, the code
promises nothing to a thread that was overtaken in between, and the properties of
`Overlaps` say so: they hold for any number of threads, name the very change the
thread has missed, and still say what holds of the others and of what it wrote.
A workspace begins empty, or as one written by an older version that never
evaluated policies (a Warning incident with a Pending candidate).

`Scorecards` translates `_history` (pages that double until one is sufficient),
`_incident_events` and `_window` as operators over `observations`; time and the
windows are in the unit of `now`. Observations with the same time are put in the
order of random ids by the code, so its property looks at histories without.

### Scheduled runs

| Module | Models |
|---|---|
| `Fleet` | the sources with the age of their latest observation, and the runs over them |

A run (`check_due_sources`, `check_all_sources`) lists the sources, and for each
in the order of ids decides, checks, saves. `raises` says whether the check of a
source raises on the data it has now; users switch sources on and off; `Tick`
ages everything, saturating where a source is due anyway. An observation carries
the time its check began, hence `took`. Check and save are `SaveCheck`, whose
steps are in `Monitoring`. Of two overlapping checks the one that began later is
the latest, whichever is saved last.

### Detection

| Module | Models |
|---|---|
| `Detection` | the detectors and data rules as operators from profiles to severities |
| `Judgement` | one source: its baseline, its newest observations, the Healthy profiles that may be promoted however old, checks and promotions |
| `MCJudgement` | the datasets and rules of the run |
| `JudgementProofs` | that alarms persist and short outages are forgiven, whatever the thresholds, rules and data |

Profiles are records of integers; rates and shares are percent, and quotients
are compared by multiplying out, so that nothing is rounded. `IsProfile` says what kind
of number each measure is. Medians are kept doubled, as the sum of
the two middle values (`TwiceMedian`); `Ranked` picks the k-th smallest value by counting. A check judges the
data by the baseline or, with `MinHistory` Healthy observations among the newest
`ScanLimit` (`max(4 * window, 20)` in the code), by their medians, and its verdict
decides whether it is among them next time.

### Credentials

| Module | Models |
|---|---|
| `Credentials` | one credential (`record`), the authorization rows (`transactions`), request threads, checks, a revoker, and the provider |
| `MCCredentials` | symmetry for the runs |
| `CredentialsProofs` | the invariants of the record and of the tokens |

A callback reads the clock, consumes its transaction (one store transaction),
reads the credential, exchanges the code, and upserts; a check reads the
credential, reads the clock, and if the access token has expired locks the
credential, reads it again, has it refreshed and stores the result. `lock` is
held from `LockCredential` to `StoreRefreshed`, as the open SQLite or Postgres
transaction is, and `Upsert` and `RevokeWrite` wait for it; readers do not. The
provider is external: `live` are the refresh tokens it accepts; a refresh may
return no new token, a new one next to the old, or one that replaces it, which
is all the code is written for. `Abandon` covers death, a failed request, a
reply that is refused after the provider acted, and a wait for the lock that
times out. Nothing in the repository calls `revoke` outside the tests yet; the store offers
it, so a thread here does.

### Workspaces

| Module | Models |
|---|---|
| `Workspaces` | the tables of a database shared by workspaces, in one key space (legacy) or under composite keys, and threads that each work for one workspace |
| `PrivateStores` | the promise: a store for each workspace |
| `WorkspaceLists` | `list_notification_candidates` and `list_delivery_attempts` across sources, put together row by row |
| `MCWorkspaces`, `MCWorkspaceLists` | threads and symmetry |
| `WorkspacesProofs` | the invariants, the lists, and the refinement |

Every operation is a check (`CheckAddSource`, `CheckSaveObservation`,
`CheckClaim`, ...: the reads of `WorkspaceStore`) and, later, a write by the store
underneath. `PrivateTables(w)` is the refinement mapping: what the reads of `w`
return. `SerialAdds` says that the deployment has one thread at a time add a given
source id over one key space; the code does not see to it, and the guard
(`AddsApart`) stands apart from the handler. A list over one key space asks the
store for its newest rows (`AskStore`) and then for the owner of each (`CheckRow`),
while the threads go on; with composite keys the store answers in one query.
Candidates are a set; `created` is the place of each in `created_at`, rowid order.

### Migration

| Module | Models |
|---|---|
| `Migration` | a live file, a snapshot, a restored file, a namespaced file and a Postgres workspace; jobs that copy between them; the service writing |
| `MCMigration` | the stores the run begins with |
| `MigrationProofs` | how far each job has come, and what its copy is worth |

`StartCopy` to `VerifyCopy` are `backup_to` and `restore_snapshot`; `StartImport` to
`CommitImport` are `import_legacy_snapshot`, whose reads see the source file as it
is at each of them and whose writes are one transaction; `CheckEmpty` to
`CreateAttempt` are `import_workspace`, each call a transaction. `Die` stops a job
anywhere; `ServiceWrites` changes the live or the namespaced file. `quiet` is
history: nobody else touched what the job reads and writes since it began. A store
lists the observations of each source in the order of their keys; reviews,
candidates and attempts are sets. Sources and attempts are copied in any order,
of which the order of the code is one: nothing depends on it.

### Dependencies

| Module | Models |
|---|---|
| `Dependencies` | guards, snapshots, edges, the health of sources, requests that check a guard, users who edit |
| `DependencyImpact` | the blast radius, a breadth-first walk |
| `MCDependencies` | a graph with a cycle, an edge under a discovered id |
| `DependenciesProofs` | what a discovery still has to do, what trust rests on, and that the walk finds what is reachable |

A check reads the health of its sources one at a time (`ReadUpstream`), asks
Power BI (`ReadPowerBI`: the refresh, the reports or their failure), saves the
snapshot, reads the definition again, and replaces the discovered edges: list,
delete each stale one, write each new one. `Fail` ends it anywhere. `wasHealthy`
and `disturbed` are history. Ids of edges are sequences, a prefix is a namespace.
The walk of the blast radius is a loop: `Direct` is the state it begins with, `Visit`
one turn, `Walk` the state after each number of turns, and `BlastRadius` what is found
after as many turns as there are edges, when the queue is empty. The order in which
the edges of an asset are followed is that of `SetToSeq`, any one: the code has the order
of its list.

## 4. Runs

| Run | Result | Shows |
|---|---|---|
| `delivery_live` | pass | two threads, two adapters, keys that may be mixed up, an operator, one retry: `NoBlindRetry`, `SendOnce`, `LiveSendsMarked`, `RetrySpacing`, `DecisionAgreesWithClaim`, that `Delivery` implements `DeliveryContract`, and of the queue over the table `QueueOmitsNothing` |
| `delivery_late_reply` | violation | see findings |
| `postgres_claims` | pass | two threads claim for two candidates over Postgres: `OneAttemptPerKey`, `LocksBelongToClaims`, `ClaimsWhileEligible` and the contract of delivery |
| `monitoring_histories` | pass | a thread that checks, edits and evaluates, dying anywhere, and one that evaluates besides: `IncidentWasAnnounced` although `incident()` sees the three newest of four observations, `ScorecardTellsIncidents` over histories of up to four times, `DecisionRevisedInFlight` |
| `overlaps` | pass | two threads that run due checks, promote and prune, overlapping anywhere and dying anywhere: `CandidatesMatchHistory`, `DueChecksSpaced`, `GuardedPromotion`, `PruneKeepsWindow`, `RetentionBound` |
| `fleet` | pass | a scheduler and a user run checks of two sources: `EverySourceChecked`, the liveness property |
| `judgement` | pass | one source over four datasets, outages and promotions: `AlarmPersists`, `ShortOutageForgiven` |
| `credentials_shared` | pass | connects, reconnects, refreshes and a revocation interleaved: `StoredTokenWorks`, `NoTokenReuse`, `OneExchangePerTransaction`, `AccountNeverSwitches`, `RevokedIsForever` |
| `workspaces_two` | pass | two workspaces, either kind of keys: `ImplementsPrivateStores`, over one key space while no two add one id at the same moment |
| `workspace_lists` | pass | one of two workspaces lists, over either kind of keys, while both write: `ListsTellOwn` |
| `migration_repeated` | pass | three jobs one after the other that may die, over files in use: `FinishedCopyIsWhole`, `NoDanglingRows`, `BaselineCarried` |
| `dependencies` | pass | two checks of two guards that share a model, an edit, an observation: `DiscoveryIsComplete`, `HealthyIsJustified`, `BlastRadiusIsReachability` |

Deadlock is checked in every run but `dependencies`, where the bounds on checks
and edits are used up and then everything may rest.

Each property of a passing run has a mutant in `PROJECT.json`: a plausible slip
in one mapped definition that the same run catches. The mutant definitions stand
next to the definitions they change and nothing uses them.

### Fairness

Only `Fleet` states fairness, and only what the deployment gives: time passes
(`WF(Tick)`), a run that has started goes on (`WF(Step)`, a thread of a live
process; a check ends because its HTTP and database calls have timeouts), and the
external scheduler starts its run again when it has ended
(`WF(StartRun)` of `Scheduled`). Users are not fair: they need not start or switch
anything. Under that, `EverySourceChecked` promises a check again and again to a
source that stays enabled behind sources that do not keep raising and are not
switched for ever. A source whose check always raises starves those after it
for ever: that is the code (`service.py:475`), and the hypothesis says so.

### Findings

* **A late reply undoes an operator's decision** (`storage.py:563`).
  `update_delivery_attempt` does not compare; a rejection that arrives after the
  operator settled the attempt as Succeeded makes it Failed, and a further
  attempt is claimed. Run `delivery_late_reply`.

### Known races, with a configuration each

These configurations end in a counterexample; they are kept to be run by hand
(`tlc -config X.cfg M`) and are not among the runs.

| Configuration | Module | Property violated | What happens |
|---|---|---|---|
| `DeliveryRejection` | `MCDelivery` | `RejectionIsDefinitive` | a 2xx from Resend without an id is taken for a "definitive provider rejection" (`email_delivery.py:147`, `:152`): the message was taken, the attempt is Failed and retried |
| `MonitoringDoubleOpened` | `MCMonitoring` | `OneOpenedPerIncident` | two overlapping checks read the same observation before and announce one incident twice (`service.py:503`; `tests/test_incident_transitions.py:38`) |
| `MonitoringPromotionRace` | `MCMonitoring` | `PromotesFromReviewed` | two reviewers promote from one baseline; the second replaces one it never saw, which "Baseline changed since review" was to prevent (`service.py:449`, `:454`) |
| `MonitoringDecisionRevised` | `MCMonitoring` | `PolicyDecisionImmutable` | two evaluations overlap with an edit of the policy; the second decides again what the first decided, although decisions are "immutable" (`docs/MILESTONES.md:29`; `service.py:193`) |
| `MonitoringPrunedBaseline` | `MCMonitoring` | `WindowKept` | a promotion between pruning's read of the baseline and its write: the new baseline loses its row values, which `templates/source.html:186` says are kept (`service.py:424`) |
| `WorkspacesRacingAdds` | `MCWorkspaces` | `SourcesKeepTheirWorkspace` | two workspaces add one id to the legacy backend at the same moment; the second takes the source over (`workspace.py:69`; `tests/test_workspace_boundary.py:131`) |
| `WorkspaceListsQueue` | `MCWorkspaceLists` | `ShortListsAreWhole` | the legacy view drops the rows of others after the store has cut the list, so the reconciliation queue of a workspace lacks an attempt while its page says "Cap not reached in this scan." (`workspace.py:240`, `reconciliation.py:104`, `templates/reconciliation.html:61`) |
| `CredentialsOmittedToken` | `MCCredentials` | `OmittedTokenPreserved` | a reconnect copies the refresh token it read before the exchange over one a refresh stored since (`oauth_callback.py:107`). It needs a provider that omits the token on a reconnect, and a refresh whose clock reading is earlier than the callback's but which stores between its read and its write |

Others can be seen by giving a role of a configuration a second thread, or by
relaxing the constant named.

* Two first checks both read no baseline; the second moves an established baseline,
  unreviewed and perhaps to a Critical observation (`service.py:592`). `GuardedPromotion`
  allows it to an overtaken check only.
* Two scheduled runs check a source twice within its interval (`service.py:475`).
  `DueChecksSpaced` allows it to an overtaken check only.
* Two editors: an onboarding overwrites a source added during its preflight
  (`service.py:110`).
* An outage longer than the listing strips the last good snapshots (`WindowKept`,
  `PruneLimit = 1`; `service.py:427`). `PruneKeepsWindow` says of which rows that is
  true: those with `PruneLimit` newer ones.
* A replayed key may write a Prepared copy over an attempt that has settled, so
  two attempts of a pair are Prepared (`teams_delivery.py:200`). The contract
  holds all the same, which is what `DeliveryKeepsContract` proves.
* Two jobs that copy to the same place at once (`Job` with two members) mix what
  they copy.
* Two checks of one guard at once mix their edges, and the older snapshot may be
  the last; a check deletes an edge it listed although a user has written that id
  anew since. `disturbed` excludes both. A guard edited during its check: edges
  follow the new definition with the reports of the old dataset
  (`power_bi_web.py:127`). A guard id with a ":" lies in the namespace of another.
  When Power BI answers for the refresh but not for the reports, the snapshot is
  available with no reports and the report edges go.
* An outage long enough pushes all Healthy observations out of the newest
  `ScanLimit`; the data are then compared with the baseline, which may be older.
  A lasting shift of level stays a finding and cannot be promoted, as only
  Healthy observations can; it takes an edit of the thresholds. Data can become a
  finding without changing when the history first suffices (`MinHistory`). With
  an even window, numbers whose spread differs, medians about 0, or a null rate that
  must not grow at all (`warning_null_increase` 0), data that come
  back after a short outage may be flagged: `ShortOutageForgiven` says what it needs.

This is why the properties name what they leave out so carefully: a thread that was
overtaken, ids that are added apart, a job that was not disturbed.

### Bounds, and why they are enough

* Delivery: two threads suffice for every race between two writers of a row, and
  two keys give a replay, a retry and a mix-up over two adapters; one candidate
  because the claim reads one pair's rows only. `MaxTime = 1` with
  `RetryDelay = 1` puts a request before, at and after the boundary. The queue is read
  with a scan of one, which two attempts overflow, and with a scan of three and a
  list of one, where only the list is cut off. The theorems lift these bounds.
* Postgres: two candidates, because claims of different candidates hold different
  locks and meet only in the unique keys; two threads and two keys. The `VIEW` leaves
  out `accepted`, which no guard and no property of the run reads.
* Monitoring: four observations make an incident open, escalate and recover within
  the three that `incident()` lists, and be cut off there. `MaxTime` lets observations
  have one time or several, which decides `ORDER BY observed_at, rowid`. The `VIEW`
  leaves out `scheduled` and `unpruned`, which no guard and no property of the run but
  the type reads; pruning takes its steps here and has rows to drop in `overlaps`. The scorecard
  reads pages of one and two, of a history of four over four times with a
  window of one, so that a page ends within, before and after an incident.
* Overlaps: three observations, a window of one snapshot and a listing of two, so that
  snapshots leave the window, and baselines and outages the listing; two times, so
  that a source is due, or not, or due twice. All checks of the run are due ones, as
  those have the more steps; others are in `monitoring_histories`.
* Fleet: two sources, one behind the other, and two runs, one that the scheduler
  restarts and one a user starts for due or for all sources.
* Judgement: datasets that drift twice to just short of each threshold, and a
  stale one without a column; window 3, minimum 2, `ScanLimit` 5, so
  that an outage of five checks drains the history.
* Credentials: two authorizations (a connect and a reconnect, or two of either),
  four refresh tokens and six clock readings, enough for a connect (two), a
  reconnect (two), a check and a revocation in one behaviour; an access token
  that lives one unit has always expired by the next reading, or has not when
  the reading is the same. An authorization of three units is reached by two
  callbacks in time and by a later one.
* Workspaces: two workspaces with a thread each, two source ids both use and two
  observations. Lists: three candidates and a limit of two, so that the store cuts
  off the workspace's own row, another's, or none; only candidates, as attempts
  are listed the same way, and the `VIEW` leaves out baselines and row values.
* Migration: three jobs, so that a copy can fail, be tried again and be followed
  by the next stage; two writes of the service between their steps.
* Dependencies: two checks, of the same or of two guards that share a model, one
  edit and one observation anywhere between their steps.

The clock never runs backwards, and in Credentials two readings differ: the code
reads microseconds. A wall clock set back breaks what compares times.

## 5. Proofs

A run checks a property on a small instance, a theorem states it for every value
of the constants that meets the module's assumption: any number of threads,
sources, observations, tokens and retries, and any limits. Every property of a
passing run is a theorem but `EverySourceChecked`, the liveness property of `Fleet`. Each invariant of a proof was
checked by TLC on a run's instance before it was proved, but `HistoryInv`, which asks
for a sequence among infinitely many. The assumptions are those
of the modules (`DeliveryAssumption`, `PostgresAssumption`, `MonitoringAssumption`,
`ScorecardAssumption`, `DetectionAssumption`, `JudgementAssumption`, `CredentialsAssumption` and `NullAssumption`, `WorkspacesAssumption`,
`MigrationAssumption`, `DependenciesAssumption`): what kind of value a constant is,
that `Null` is no member of what it stands beside, that the stores a migration
begins with are sound, that sources and reports are finitely many, that limits,
windows and thresholds are numbers, that the profiles of datasets have numbers where
their types say so (`models.py:249-276`) and `Null` is none, and that a data rule's
severity is Warning or Critical, as its field's type says (`models.py:84-85`).

| Module | Theorem | States |
|---|---|---|
| `DeliveryProofs` | `TypeCorrect`, `InvariantCorrect` | `TypeOK`, `IInv` |
| | `NeverBlindRetry`, `SentOnce`, `SendsOnRecord` | `NoBlindRetry`, `SendOnce`, `LiveSendsMarked` |
| | `LedgerInOrder` | `RetrySpacing`, one attempt per key, contiguous numbers |
| | `DecisionMatchesClaim` | `DecisionAgreesWithClaim` |
| | `DeliveryKeepsContract` | `ImplementsContract`, the refinement |
| `PostgresClaimProofs` | `ClaimInvariant` | `PInv` |
| | `LocksReleased`, `KeysUnique`, `ClaimsAreCurrent` | `LocksBelongToClaims`, `OneAttemptPerKey`, `ClaimsWhileEligible` |
| | `PostgresIsSafe` | the four safety properties of delivery over Postgres |
| | `PostgresKeepsContract` | `ImplementsContract`, the refinement |
| | `QueueHidesNothing` | `QueueOmitsNothing` |
| `CredentialsProofs` | `TypeCorrect`, `Answered` | `TypeOK`, `OneExchangePerTransaction` |
| | `AccountFixed`, `RevocationFinal` | `AccountNeverSwitches`, `RevokedIsForever` |
| | `TokenWorks`, `TokenPresentedOnce` | `StoredTokenWorks`, `NoTokenReuse`, if `~ReconnectOmits` |
| `MonitoringProofs` | `TypeCorrect`, `RetentionIsBounded` | `TypeOK`, `RetentionBound`, for any threads |
| | `DecisionsAreRevisedInFlight` | `DecisionRevisedInFlight`, for any threads |
| | `PromotionIsGuarded`, `WindowSurvives` | `GuardedPromotion`, `PruneKeepsWindow`, for any threads |
| | `DueChecksAreSpaced`, `CandidatesTellHistory` | `DueChecksSpaced`, `CandidatesMatchHistory`, for any threads |
| | `IncidentsWereAnnounced` | `IncidentWasAnnounced`, if `OneChecker` |
| | `ScorecardsTellIncidents` | `ScorecardTellsIncidents`, if `OneChecker` |
| `JudgementProofs` | `AlarmsPersist`, `ShortOutagesForgiven` | `AlarmPersists`, `ShortOutageForgiven` |
| `WorkspacesProofs` | `TypeCorrect`, `ListsAreOwn` | `TypeOK`; `ListsTellOwn`, if `SerialAdds` or the keys are composite |
| | `StoresArePrivate` | `ImplementsPrivateStores`, the refinement, if `SerialAdds` or the keys are composite |
| `MigrationProofs` | `TypeCorrect`, `NothingDangles` | `TypeOK`, `NoDanglingRows` |
| | `CopiesAreWhole`, `BaselinesAreCarried` | `FinishedCopyIsWhole`, `BaselineCarried` |
| `DependenciesProofs` | `DiscoveryInvariant` | `DInv` |
| | `TrustIsJustified`, `DiscoveryCompletes` | `HealthyIsJustified`, `DiscoveryIsComplete` |
| | `RadiusIsReachability` | `BlastRadiusIsReachability` |

### The hypotheses

Three hypotheses name what the code does not see to by itself, and each has a
counterexample in section 4 that shows the theorem false without it: `OneChecker`
(`MonitoringDoubleOpened` shows the race, and with `Checker = {t1, t2}`
`MonitoringHistories` violates both properties: a check that was overtaken announces by
an old observation), `~ReconnectOmits` (`CredentialsOmittedToken`), `SerialAdds` or composite keys (`WorkspacesRacingAdds`: a
row that changes hands changes lists and stores). A checker here is a thread that
runs a manual check or a scheduled run. The theorems over `OSpec` have no hypothesis
about threads: what a race can spoil is in the properties themselves, as the change
that the thread has missed.

### The arguments

**Delivery.** `IInv == Types /\ RowsUnique /\ Ledger /\ RowsSound /\ Copies /\ SendsSound`.
The properties alone are not inductive because a thread's copy may be written
over any later version of its row: nothing can be concluded about a row from
what a thread holds, except what no writer ever changes. So `Ledger` speaks only of
ids, keys and creation times, and is preserved by every overwriting step because
it replaces a row by a twin (the same id, key and creation time). `Copies` says
that what threads hold are twins of rows, that a copy says Failed only when
there is an excuse (a rejection received or an operator's verdict), and that two
threads on their way to the adapter hold different attempts; `RowsSound` says the
same of the rows. `SendsSound` ties the calls made to the rows and gives
`SendOnce` and `LiveSendsMarked`. The refinement (`ContractStep`) follows from the
invariant with a case for each action.

**The claim over Postgres.** The lemmas of `DeliveryProofs` are about any specification
with its invariant, so they carry over; `PInv` adds what a transaction has read.
A row read as the latest may be overwritten before the insert, but its number, its
creation time and its excuse never are, and no other row of its pair can appear
while the candidate is locked. Two transactions on different candidates meet only
in the unique keys. `QueueHidesNothing` is about the rows of any such table.

**Credentials.** `IInv` says what each thread's reads are worth at each step: a callback
that has consumed its transaction is alone with it, and who holds the lock has
read the record that is stored. What a callback is about to upsert is checked
again against the record in the store's own transaction, which is why account and
revocation are safe although the callback's read is old. `TokensSound` adds the
tokens: those that a thread is about to store are live and nobody else's. A
reconnect that copies a token it read earlier breaks it, hence `~ReconnectOmits`.

**Monitoring.** `TypeInv` relates what threads have read to what is saved and holds for
all threads, as does `RetentionInv`: whatever pruning is under way, the row values
that are kept are those of the window and of a baseline, or a pruning has died.
`DecisionInv` says that what an evaluation is to decide is a candidate there is, as it
was before any decision, and that a check raises at most one.

Over `OSpec` the invariants are about one thread at a time, and say what its reads are
worth while it has missed nothing: `BaselineSeen` (the baseline it read is the
baseline, and what it is to keep covers baseline and window) and `HistorySeen` (the
observation it took for the newest is, and its time is the interval later than all).
`ToldInv` then says of each observation that was not overtaken, and of whatever came
before it, that its candidates and its time are right; an observation saved later
by a check that began earlier comes between the two, and was itself overtaken.

With one checker `OrderInv` (observations are in the order of their times) and
`CandidatesInv` (each candidate is what the observation and the one before it give, and
none is missing) hold. From them the candidates of any incident follow by induction
over its length, which `LeastOf` (the least number with a property) replaces.

Scorecards are about the same invariant: `CandidatesInv` and the order. A page that
is complete begins with the history, or with a Healthy observation before every window
(`SufficientIsWhole`), so the transitions read off it are those that were raised when
the observations were saved, candidate for candidate (`EventIsAnnounced`,
`EventsAreAnnounced`). The opening of a recovery's incident is found by the same
`LeastOf` (`IncidentBegins`), and its time is the candidate's (`RecoveryIsTimed`). A page
that is not complete may miss openings, but can invent none (`NoEventInvented`).

**Judgement.** That alarms persist holds whatever the detectors compute from their inputs,
so they stay unexpanded, but for the severities they give (`FindingsGraded`). `HistoryInv` says
that each observation since the baseline was promoted was judged against some
history `before`, of which the list has lost no more than saving others cost it. If
nothing Healthy came between, the newest Healthy observations of `before` are those
of the list now, moved by the number of observations since. That is a matter of
counting: the n-th member of a set of positions is the one with n - 1 members below
it (`NthIs`), and moving all of them moves the n-th (`ShiftedNth`). Hence the history
compared with is the same (`ReferencesStay`), and so is the verdict.

That a short outage is forgiven takes the detectors opened up. If the observation
itself was Healthy, the history compared with is the one it was judged with, with the
observation put first and, if the window was full, without the last
(`HistoryRenewed`). The k-th smallest value is at most v just if k values are
(`RankedIs`), and a value put first changes these counts at and above it
(`AtMostAdded`); so a median moves towards the value that is added and not beyond it
(`MedianMoves`), with a case for an even number of values, for an odd one, and for an
odd one of which the last is lost. With an even number that exchange can move the
median away: of 91, 91, 150 and 150 it is 120.5, and 105.5 with 120 for a 150, so a
row count of 120 is Healthy within 10% the first time only. Each detector that found nothing
against the old median then finds nothing against one that is nearer: `RowCountStays`
and `NumericStays` with products of a threshold and a median, `NullsStay`,
`UniquenessStays`. Schema, categories and rules do not read the history. The other
hypotheses of `ShortOutageForgiven` enter in one lemma each: numbers that vary alike in
`StdDevIs`, positive ones in `DriftNear`, a null rate that may grow in `NullsStay`. None
serves the proof alone: a standard deviation of 30 that falls to 10 makes a shift of 60 a
finding; a median of 0 that rises to 0.5 makes 10 twenty times as much; a null rate
that must not grow is a finding as soon as its median equals it.

**Workspaces.** `StoreInv`: a row refers to the source its key names, and threads hold
what they have checked. `OwnInv` is the only place where the scheme of keys
matters: a source keeps its workspace, so what was checked still holds at the
write. The refinement then has a case for each write, and a stutter for each check
and for what other workspaces do. `ListInv` says of a list that what it has kept is
the workspace's own, that what it has dropped is not, and that the rest of the
store's answer is still to be looked at.

**Migration.** Nobody removes or takes over what a job reads or writes (`Exclusive`), and a
file in use only grows (`Grows`). So it is enough to say of a job how what it has
in hand and what it has written stand to what it reads now (`Good`), in a way that
survives growth, and, under `quiet`, how far it has come. `FilesInv` holds every store to
`Sound`: closed, and no observation twice. An import into Postgres is the long
case: while it reads, the workspace is empty (`Reading`); while it writes,
`Carried` says that a baseline there was is set or will be with its observation, and
`Progress` that what is in Postgres and what is left to save is what the file has
(`Writing`); then only attempts are left (`Attempting`). A try that died leaves
rows, and `CheckEmpty` refuses to go on from them, which is where the next begins.

**Dependencies.** `Settling` relates the edges there are, those a discovery has still to
delete and those it has still to write to the edges of the definition, as long as
nobody has disturbed it; other guards' checks write under other namespaces.
`TrustSound` says that each source health a check has read was true at some time
since it began.

The walk of the blast radius is a function that recurs over the number of turns. That
it has a value after each of them is itself proved (`LoopExists`): a first number
without one cannot be, by `LeastOf`. `WalkSound` says that what was found is in order, each
asset below one before it, and that what lies below a visited asset is queued or
visited; it holds after every turn (`SkipSound`, `VisitSound`). `TurnsLeft`, the length of the
queue and the edges of assets not yet visited, falls with each turn and is at most the
number of edges at first, so after that many turns the queue is empty (`WalkEnds`), and the
radius is closed under edges.

### What is only model-checked

* `EverySourceChecked` (`Fleet`): liveness under fairness, which the prover has no
  rules for, as it has none for `ENABLED`.
* That nothing deadlocks, in the runs that check it.

## 6. Not modelled, and why

* Reading files, databases and sheets, profiling, the preflight and the row
  comparison: functions of their input in pandas or a provider's client; where
  they matter their result is a choice (`Results`, `Datasets`, `raises`).
* HTTP parsing, provider discovery and cryptography, for the same reason.
* Web authorization: a request reads one membership row once and compares ranks;
  there is no sequence of steps to go wrong.
* Wording, pages, routing and logging: no property is about them. An asset that
  lies only on cycles has no root and is not shown under one; that is layout too.
* The Acknowledged and Reviewed marks of observations: nothing reads them back,
  so `save_review` is in `Migration` only, as a row that is copied.
* `is_baseline` within the stored JSON of an observation, which stays as it was
  saved when the baseline moves (`service.py:592`); readers recompute it
  (`memory_store.py:93`).
* `clear_workspace` of Postgres is an action of `Migration`, but only tests call it.
* File copies and SQLite's integrity checks are SQLite's.
* Percentages and rounding in scorecards; counts of findings by kind.

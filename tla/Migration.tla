------------------------------ MODULE Migration ------------------------------
(***************************************************************************)
(* Copies of a store: backup and restore of the legacy SQLite file, the    *)
(* import of one workspace of it into a namespaced file, and the import of *)
(* that file into Postgres, while the service goes on writing to the files *)
(* and jobs die at any step.                                               *)
(*                                                                         *)
(* A store is a record of tables; the observations of a source are listed  *)
(* in the order of their keys (observed_at and rowid grow together here),  *)
(* reviews, candidates and their attempts are named by their observation.  *)
(* Every statement that reads or writes another file than the one before   *)
(* is an action.  Sources are copied in any order, of which ORDER BY id is *)
(* one.                                                                    *)
(*                                                                         *)
(* External: SQLite rolls an unfinished transaction back, backup() copies  *)
(* one state of the file, and foreign and primary keys refuse a row.       *)
(* Bounds: Observation, MaxRuns jobs started, MaxWrites of the service.    *)
(***************************************************************************)
EXTENDS Naturals, Sequences, FiniteSets, SequencesExt

CONSTANTS
  SourceId,
  Selected,     \* the sources of the workspace that is imported
  Observation,
  Job,          \* processes that copy
  MaxRuns,      \* bound on the jobs started
  MaxWrites,    \* bound on what the service writes meanwhile
  Begun,        \* stores as the service has left them before
  None,
  Blank         \* a file without the tables

Store == [sources: SUBSET SourceId, baseline: [SourceId -> Observation \cup {None}],
          observations: [SourceId -> Seq(Observation)], reviews: SUBSET Observation,
          candidates: SUBSET Observation, attempts: SUBSET Observation]

EmptyStore == [sources |-> {}, baseline |-> [s \in SourceId |-> None],
               observations |-> [s \in SourceId |-> << >>],
               reviews |-> {}, candidates |-> {}, attempts |-> {}]

Ids(st) == UNION {ToSet(st.observations[s]) : s \in SourceId}

\* An observation has one row, of one source.
Unique(st) ==
  \A s, r \in SourceId : \A i \in DOMAIN st.observations[s], k \in DOMAIN st.observations[r] :
    st.observations[s][i] = st.observations[r][k] => s = r /\ i = k

\* The rows of st agree with each other: what a row refers to is there.
Closed(st) ==
  /\ \A s \in SourceId : st.baseline[s] # None => st.baseline[s] \in ToSet(st.observations[s])
  /\ \A s \in SourceId \ st.sources : st.observations[s] = << >>
  /\ st.reviews \cup st.candidates \subseteq Ids(st)
  /\ st.attempts \subseteq st.candidates

ASSUME MigrationAssumption ==
  /\ Selected \subseteq SourceId
  /\ MaxRuns \in Nat /\ MaxWrites \in Nat
  /\ Begun \subseteq Store /\ \A st \in Begun : Unique(st) /\ Closed(st)
  /\ None \notin Observation \cup Store \cup {Blank}
  /\ Blank \notin Store

VARIABLES
  file,     \* name -> None, Blank or a store
  postgres, \* the workspace in Postgres
  pc, local,
  quiet,    \* job -> nobody else has touched what it reads and writes since it began
  runs,     \* jobs started so far
  writes    \* writes of the service so far

vars == <<file, postgres, pc, local, quiet, runs, writes>>

FileName == {"live", "snapshot", "restored", "namespaced"}

\* The call a job makes next.
Call == {"idle", "copy", "verify", "read sources", "initialize", "read observations", "read reviews",
         "read candidates", "read attempts", "commit", "list sources", "list candidates",
         "get baselines", "upsert source", "list observations", "save observation", "copy review",
         "list attempts", "create attempt", "finished"}

Init ==
  /\ \E st \in Begun, ns \in Begun \cup {None} :
       file = [f \in FileName |-> CASE f = "live" -> st [] f = "namespaced" -> ns [] OTHER -> None]
  /\ postgres = EmptyStore
  /\ pc = [j \in Job |-> "idle"]
  /\ local = [j \in Job |-> None]
  /\ quiet = [j \in Job |-> TRUE]
  /\ runs = 0
  /\ writes = 0

IsStore(x) == x # None /\ x # Blank

\* The numbers of rows, which verify_database compares.
Counts(st) == <<Cardinality(st.sources), Cardinality(Ids(st)), Cardinality(st.reviews),
                Cardinality(st.candidates), Cardinality(st.attempts)>>

\* What of st belongs to the sources in ss.
Selection(st, ss) ==
  LET ids == UNION {ToSet(st.observations[s]) : s \in ss}
  IN  [sources      |-> st.sources \cap ss,
       baseline     |-> [s \in SourceId |-> IF s \in ss THEN st.baseline[s] ELSE None],
       observations |-> [s \in SourceId |-> IF s \in ss THEN st.observations[s] ELSE << >>],
       reviews      |-> st.reviews \cap ids,
       candidates   |-> st.candidates \cap ids,
       attempts     |-> st.attempts \cap ids]

-----------------------------------------------------------------------------
(* The service, at work on a file meanwhile: what one store call makes of  *)
(* the store st.                                                           *)

Saved(st, s, o, raised) ==
  [st EXCEPT !.observations[s] = Append(@, o),
             !.candidates = IF raised THEN @ \cup {o} ELSE @,
             !.baseline[s] = IF @ = None THEN o ELSE @]

\* Mutant: an id may be saved again.
AfterStoreCallAgain(st) ==
  {Saved(st, s, o, FALSE) : s \in st.sources, o \in Observation}

AfterStoreCall(st) ==
  {[st EXCEPT !.sources = @ \cup {s}] : s \in SourceId \ st.sources}
  \cup {Saved(st, s, o, raised) :
          s \in st.sources, o \in Observation \ Ids(st), raised \in BOOLEAN}
  \cup {[st EXCEPT !.reviews = @ \cup {o}] : o \in Ids(st)}
  \cup {[st EXCEPT !.attempts = @ \cup {c}] : c \in st.candidates}
  \cup (UNION {{[st EXCEPT !.baseline[s] = o] : o \in ToSet(st.observations[s])} : s \in SourceId})

\* The service is started on a namespaced file once its import is over.
ServiceWrites(f) ==
  /\ f \in {"live", "namespaced"}
  /\ IsStore(file[f])
  /\ writes < MaxWrites
  /\ writes' = writes + 1
  /\ \A j \in Job : pc[j] # "idle" => local[j].to # f
  /\ \E st \in AfterStoreCall(file[f]) \ {file[f]} :
       file' = [file EXCEPT ![f] = st]
  /\ quiet' = [j \in Job |-> quiet[j] /\ ~(pc[j] # "idle" /\ local[j].from = f)]
  /\ UNCHANGED <<postgres, pc, local, runs>>

\* A job begins, with what it knows.  Two jobs never copy to the same place.
Begin(j, call, l) ==
  /\ pc[j] = "idle"
  /\ \A i \in Job : pc[i] # "idle" => l.to \notin {local[i].from, local[i].to} /\ l.from # local[i].to
  /\ runs < MaxRuns
  /\ runs' = runs + 1
  /\ pc' = [pc EXCEPT ![j] = call]
  /\ local' = [local EXCEPT ![j] = l]
  /\ quiet' = [quiet EXCEPT ![j] = TRUE]
  /\ UNCHANGED writes

Go(j, call, l) ==
  /\ pc' = [pc EXCEPT ![j] = call]
  /\ local' = [local EXCEPT ![j] = l]
  /\ UNCHANGED <<quiet, runs, writes>>

\* The job is over, whatever it has left behind.
Stop(j) == Go(j, "idle", None)

-----------------------------------------------------------------------------
(* backup_to and restore_snapshot.                                         *)

\* verify_database: its SELECTs, one for each table, are read as one.
StartCopy(j, from, to) ==
  /\ <<from, to>> \in {<<"live", "snapshot">>, <<"snapshot", "restored">>}
  /\ IsStore(file[from])
  /\ file[to] = None
  /\ Begin(j, "copy", [from |-> from, to |-> to, counts |-> Counts(file[from])])
  /\ UNCHANGED <<file, postgres>>

CopyPages(j) ==
  /\ pc[j] = "copy"
  /\ file' = [file EXCEPT ![local[j].to] = file[local[j].from]]
  /\ Go(j, "verify", local[j])
  /\ UNCHANGED postgres

VerifyCopy(j) ==
  /\ pc[j] = "verify"
  /\ \/ /\ Counts(file[local[j].to]) = local[j].counts
        /\ Go(j, "finished", local[j])
        /\ UNCHANGED file
     \/ /\ Counts(file[local[j].to]) # local[j].counts
        /\ file' = [file EXCEPT ![local[j].to] = None]
        /\ Stop(j)
  /\ UNCHANGED postgres

-----------------------------------------------------------------------------
(* import_legacy_snapshot: reads table by table, writes in one transaction *)
(* of the new file, and unlinks that file when anything fails.             *)

StartImport(j, from) ==
  /\ from \in {"live", "snapshot", "restored"}
  /\ IsStore(file[from])
  /\ file["namespaced"] = None
  /\ Begin(j, "read sources", [from |-> from, to |-> "namespaced"])
  /\ UNCHANGED <<file, postgres>>

ReadSources(j) ==
  /\ pc[j] = "read sources"
  /\ LET st == file[local[j].from]
         l  == [from |-> local[j].from, to |-> "namespaced",
                copy |-> [EmptyStore EXCEPT
                            !.sources = st.sources \cap Selected,
                            !.baseline = [s \in SourceId |-> IF s \in Selected THEN st.baseline[s] ELSE None]]]
     IN  Go(j, "initialize", l)
  /\ UNCHANGED <<file, postgres>>

\* The tables of the new file are committed before the rows.
InitializeTarget(j) ==
  /\ pc[j] = "initialize"
  /\ file' = [file EXCEPT !["namespaced"] = EmptyStore]
  /\ Go(j, "read observations", local[j])
  /\ UNCHANGED postgres

ReadObservations(j) ==
  /\ pc[j] = "read observations"
  /\ Go(j, "read reviews",
        [local[j] EXCEPT !.copy.observations =
           [s \in SourceId |-> IF s \in local[j].copy.sources THEN file[local[j].from].observations[s]
                               ELSE << >>]])
  /\ UNCHANGED <<file, postgres>>

\* A row refers to one that was not read: a foreign key refuses it.
ImportFails(j) ==
  /\ file' = [file EXCEPT !["namespaced"] = None]
  /\ Stop(j)

\* The reviews (or candidates) rows in the file of which the source is imported.
RowsRead(j, rows) ==
  {o \in rows : \E s \in local[j].copy.sources : o \in ToSet(file[local[j].from].observations[s])}

\* Mutant: foreign keys are not enforced.
ReadReviewsUnchecked(j) ==
  /\ pc[j] = "read reviews"
  /\ Go(j, "read candidates", [local[j] EXCEPT !.copy.reviews = RowsRead(j, file[local[j].from].reviews)])
  /\ UNCHANGED <<file, postgres>>

ReadReviews(j) ==
  LET read == RowsRead(j, file[local[j].from].reviews)
  IN  /\ pc[j] = "read reviews"
      /\ IF read \subseteq Ids(local[j].copy)
         THEN Go(j, "read candidates", [local[j] EXCEPT !.copy.reviews = read]) /\ UNCHANGED file
         ELSE ImportFails(j)
      /\ UNCHANGED postgres

ReadCandidates(j) ==
  LET read == RowsRead(j, file[local[j].from].candidates)
  IN  /\ pc[j] = "read candidates"
      /\ IF read \subseteq Ids(local[j].copy)
         THEN Go(j, "read attempts", [local[j] EXCEPT !.copy.candidates = read]) /\ UNCHANGED file
         ELSE ImportFails(j)
      /\ UNCHANGED postgres

ReadAttempts(j) ==
  LET read == RowsRead(j, file[local[j].from].attempts)
  IN  /\ pc[j] = "read attempts"
      /\ IF read \subseteq local[j].copy.candidates
         THEN Go(j, "commit", [local[j] EXCEPT !.copy.attempts = read]) /\ UNCHANGED file
         ELSE ImportFails(j)
      /\ UNCHANGED postgres

CommitImport(j) ==
  /\ pc[j] = "commit"
  /\ file' = [file EXCEPT !["namespaced"] = local[j].copy]
  /\ Go(j, "finished", local[j])
  /\ UNCHANGED postgres

-----------------------------------------------------------------------------
(* import_workspace: many transactions of Postgres, and reads of the       *)
(* namespaced file in between.                                             *)

Source(j) == file["namespaced"]

\* Mutant: the destination may hold something already.
CheckEmptySkipped(j) ==
  /\ IsStore(file["namespaced"])
  /\ Begin(j, "list sources", [from |-> "namespaced", to |-> "postgres", had |-> {}])
  /\ UNCHANGED <<file, postgres>>

CheckEmpty(j) ==
  /\ IsStore(file["namespaced"])
  /\ postgres.sources = {}
  /\ Begin(j, "list sources", [from |-> "namespaced", to |-> "postgres",
                               had |-> {s \in SourceId : file["namespaced"].baseline[s] # None}])
  /\ UNCHANGED <<file, postgres>>

ListSources(j) ==
  /\ pc[j] = "list sources"
  /\ Go(j, "list candidates",
        [from |-> "namespaced", to |-> "postgres", had |-> local[j].had,
         sources |-> Source(j).sources, candidates |-> {}, baseline |-> EmptyStore.baseline,
         unread |-> Source(j).sources, source |-> None, observations |-> << >>, attempts |-> {}])
  /\ UNCHANGED <<file, postgres>>

ListCandidates(j) ==
  /\ pc[j] = "list candidates"
  /\ Go(j, "get baselines", [local[j] EXCEPT !.candidates = Source(j).candidates])
  /\ UNCHANGED <<file, postgres>>

GetBaseline(j) ==
  /\ pc[j] = "get baselines"
  /\ \/ /\ local[j].unread = {}
        /\ Go(j, "upsert source", local[j])
     \/ \E s \in local[j].unread :
          Go(j, "get baselines",
             [local[j] EXCEPT !.unread = @ \ {s}, !.baseline[s] = Source(j).baseline[s]])
  /\ UNCHANGED <<file, postgres>>

UpsertSource(j) ==
  /\ pc[j] = "upsert source"
  /\ \/ /\ local[j].sources = {}
        /\ Go(j, "list attempts", local[j])
        /\ UNCHANGED postgres
     \/ \E s \in local[j].sources :
          /\ postgres' = [postgres EXCEPT !.sources = @ \cup {s}]
          /\ Go(j, "list observations", [local[j] EXCEPT !.sources = @ \ {s}, !.source = s])
  /\ UNCHANGED file

ListObservations(j) ==
  /\ pc[j] = "list observations"
  /\ Go(j, "save observation",
        [local[j] EXCEPT !.observations = Source(j).observations[local[j].source]])
  /\ UNCHANGED <<file, postgres>>

\* Mutant: the baseline is looked up when its observation is copied.
SaveObservationLate(j) ==
  LET s == local[j].source
      o == Head(local[j].observations)
  IN  /\ pc[j] = "save observation"
      /\ IF local[j].observations = << >>
         THEN Go(j, "upsert source", local[j]) /\ UNCHANGED postgres
         ELSE /\ postgres' = [postgres EXCEPT
                                !.observations[s] = Append(@, o),
                                !.candidates = @ \cup ({o} \cap local[j].candidates),
                                !.baseline[s] = IF Source(j).baseline[s] = o THEN o ELSE @]
              /\ Go(j, "copy review", local[j])
      /\ UNCHANGED file

\* The observation, its candidate and, if it is the one, the baseline, in one transaction.
SaveObservation(j) ==
  LET s == local[j].source
      o == Head(local[j].observations)
  IN  /\ pc[j] = "save observation"
      /\ IF local[j].observations = << >>
         THEN Go(j, "upsert source", local[j]) /\ UNCHANGED postgres
         ELSE IF s \in postgres.sources /\ o \notin Ids(postgres)
         THEN /\ postgres' = [postgres EXCEPT
                                !.observations[s] = Append(@, o),
                                !.candidates = @ \cup ({o} \cap local[j].candidates),
                                !.baseline[s] = IF local[j].baseline[s] = o THEN o ELSE @]
              /\ Go(j, "copy review", local[j])
         ELSE Stop(j) /\ UNCHANGED postgres
      /\ UNCHANGED file

\* get_review and, if there is one, save_review.
CopyReview(j) ==
  LET o == Head(local[j].observations)
  IN  /\ pc[j] = "copy review"
      /\ IF o \in Source(j).reviews /\ o \notin Ids(postgres)
         THEN Stop(j) /\ UNCHANGED postgres
         ELSE /\ postgres' = [postgres EXCEPT !.reviews = @ \cup ({o} \cap Source(j).reviews)]
              /\ Go(j, "save observation", [local[j] EXCEPT !.observations = Tail(@)])
      /\ UNCHANGED file

ListAttempts(j) ==
  /\ pc[j] = "list attempts"
  /\ Go(j, "create attempt", [local[j] EXCEPT !.attempts = Source(j).attempts])
  /\ UNCHANGED <<file, postgres>>

CreateAttempt(j) ==
  /\ pc[j] = "create attempt"
  /\ \/ /\ local[j].attempts = {}
        /\ Go(j, "finished", local[j])
        /\ UNCHANGED postgres
     \/ \E c \in local[j].attempts :
          IF c \in postgres.candidates /\ c \notin postgres.attempts
          THEN /\ postgres' = [postgres EXCEPT !.attempts = @ \cup {c}]
               /\ Go(j, "create attempt", [local[j] EXCEPT !.attempts = @ \ {c}])
          ELSE Stop(j) /\ UNCHANGED postgres
  /\ UNCHANGED file

\* Between two jobs the workspace in Postgres is emptied, for another try; the
\* rows go with their sources.
ClearWorkspace ==
  /\ postgres # EmptyStore
  /\ \A j \in Job : pc[j] # "idle" => local[j].to # "postgres"
  /\ postgres' = EmptyStore
  /\ UNCHANGED <<file, pc, local, quiet, runs, writes>>

-----------------------------------------------------------------------------
ReportFinished(j) ==
  /\ pc[j] = "finished"
  /\ Stop(j)
  /\ UNCHANGED <<file, postgres>>

\* The process dies.  A copy under way leaves no file or one without tables.
Die(j) ==
  /\ pc[j] \notin {"idle", "finished"}
  /\ file' \in IF pc[j] = "copy"
               THEN {file, [file EXCEPT ![local[j].to] = Blank]}
               ELSE {file}
  /\ Stop(j)
  /\ UNCHANGED postgres

\* An operator removes what a job left under a name.
RemoveFile(f) ==
  /\ f \in FileName \ {"live"}
  /\ file[f] # None
  /\ \A j \in Job : pc[j] # "idle" => f \notin {local[j].from, local[j].to}
  /\ file' = [file EXCEPT ![f] = None]
  /\ UNCHANGED <<postgres, pc, local, quiet, runs, writes>>

\* Nobody is at work on the files.
Rest ==
  /\ \A j \in Job : pc[j] = "idle"
  /\ UNCHANGED vars

CopyStep(j) == CopyPages(j) \/ VerifyCopy(j)

ImportStep(j) ==
  \/ ReadSources(j) \/ InitializeTarget(j) \/ ReadObservations(j) \/ ReadReviews(j)
  \/ ReadCandidates(j) \/ ReadAttempts(j) \/ CommitImport(j)

PostgresStep(j) ==
  \/ ListSources(j) \/ ListCandidates(j) \/ GetBaseline(j) \/ UpsertSource(j) \/ ListObservations(j)
  \/ SaveObservation(j) \/ CopyReview(j) \/ ListAttempts(j) \/ CreateAttempt(j)

Next ==
  \/ \E j \in Job :
       \/ \E from, to \in FileName : StartCopy(j, from, to)
       \/ \E from \in FileName : StartImport(j, from)
       \/ CheckEmpty(j)
       \/ CopyStep(j) \/ ImportStep(j) \/ PostgresStep(j)
       \/ ReportFinished(j) \/ Die(j)
  \/ \E f \in FileName : ServiceWrites(f) \/ RemoveFile(f)
  \/ ClearWorkspace
  \/ Rest

Spec == Init /\ [][Next]_vars

-----------------------------------------------------------------------------
(* Properties.                                                             *)

\* Files hold nothing, no tables, or a store; an observation has one row in each.
TypeOK ==
  /\ file \in [FileName -> Store \cup {None, Blank}] /\ postgres \in Store
  /\ \A st \in {file[f] : f \in FileName} \cup {postgres} : IsStore(st) => Unique(st)
  /\ pc \in [Job -> Call] /\ DOMAIN local = Job
  /\ \A j \in Job : pc[j] = "idle" => local[j] = None
  /\ quiet \in [Job -> BOOLEAN]
  /\ runs \in 0..MaxRuns /\ writes \in 0..MaxWrites

\* No store, not even one an import left half way or took from a file in use,
\* holds a baseline, review, candidate or attempt of which the observation is
\* missing.  The baseline has no foreign key: what keeps it is the order of the
\* reads (namespaced_storage.py:745) and the transaction it is set in
\* (postgres_storage.py:856).
NoDanglingRows ==
  /\ \A f \in FileName : IsStore(file[f]) => Closed(file[f])
  /\ Closed(postgres)

\* A backup, restore or import that reports success has copied everything, if
\* nobody else wrote to what it read or cleared what it wrote: after any number
\* of earlier tries that died half way (postgres_storage.py:839,
\* namespaced_storage.py:718, storage.py:175).
FinishedCopyIsWhole ==
  \A j \in Job : pc[j] = "finished" /\ quiet[j] =>
    CASE local[j].to = "postgres"   -> postgres = file["namespaced"]
      [] local[j].to = "namespaced" -> file["namespaced"] = Selection(file[local[j].from], Selected)
      [] OTHER                      -> file[local[j].to] = file[local[j].from]

\* Even from a file in use, an import into Postgres that reports success carries
\* a baseline over for every source that had one when it began: the baselines
\* are read before the observations they must be among (postgres_storage.py:846).
BaselineCarried ==
  \A j \in Job : pc[j] = "finished" /\ local[j].to = "postgres" =>
    \A s \in local[j].had : postgres.baseline[s] # None
=============================================================================

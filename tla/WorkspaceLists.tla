--------------------------- MODULE WorkspaceLists ---------------------------
(***************************************************************************)
(* Lists across the sources of a workspace.  The namespaced and Postgres   *)
(* backends have the workspace in the query and answer with one call.  The *)
(* legacy view asks the shared store for its newest rows, and then the     *)
(* store once more for the source of each of them, keeping what is the     *)
(* workspace's own (workspace.py:166-180, 228-247), while the threads of   *)
(* Workspaces run.                                                         *)
(*                                                                         *)
(* Bounds: one list at a time for a workspace, rows without their states,  *)
(* which no list of these depends on.                                      *)
(***************************************************************************)
EXTENDS Workspaces

CONSTANTS
  Viewer,    \* the workspaces that list
  ListLimit  \* limit of the lists

ASSUME ListsAssumption == Viewer \subseteq Workspace /\ ListLimit \in Nat \ {0}

VARIABLES
  listing  \* workspace -> the list that is being put together for it, or None

allVars == <<vars, listing>>

LInit == Init /\ listing = [w \in Viewer |-> None]

\* A row of either table, as far as lists look at it.
Row == [space: Workspace \cup {Shared}, observation: Observation, created: Nat]

Rows(table) ==
  IF table = "candidates"
  THEN {[space |-> c.space, observation |-> c.observation, created |-> c.created] : c \in candidates}
  ELSE {[space |-> a.space, observation |-> a.candidate, created |-> a.created] : a \in attempts}

\* The source of row r, which is its candidate's, is one of w's.
IsOwn(w, r) == r.space = Space(w) /\ CandidateOf(w, r.observation)

Newer(rows, r) == {d \in rows : d.created > r.created}

\* ORDER BY created_at DESC, rowid DESC LIMIT n.
Newest(rows, n) == {r \in rows : Cardinality(Newer(rows, r)) < n}

\* What the store under the view of w answers to a list of the table.
StoreAnswer(w, table) == Newest({r \in Rows(table) : r.space = Space(w)}, ListLimit)

\* The store is asked.  Own and stored, which rows are w's and which rows the
\* store has at that moment, are history.
AskStore(w, table) ==
  /\ listing[w] = None
  /\ listing' = [listing EXCEPT ![w] =
       [table  |-> table,
        left   |-> IF backend = "legacy" THEN StoreAnswer(w, table) ELSE {},
        kept   |-> IF backend = "legacy" THEN {} ELSE StoreAnswer(w, table),
        own    |-> {r \in Rows(table) : IsOwn(w, r)},
        stored |-> Rows(table)]]
  /\ UNCHANGED vars

\* Mutant: the source of a row is looked up, its workspace is not.
CheckRowUnowned(w) ==
  LET l == listing[w]
  IN  /\ l # None
      /\ \E r \in l.left :
           /\ Newer(l.left, r) = {}
           /\ listing' = [listing EXCEPT ![w] =
                [l EXCEPT !.left = l.left \ {r}, !.kept = l.kept \cup {r}]]
      /\ UNCHANGED vars

\* get_source for the newest row that is left.
CheckRow(w) ==
  LET l == listing[w]
  IN  /\ l # None
      /\ \E r \in l.left :
           /\ Newer(l.left, r) = {}
           /\ listing' = [listing EXCEPT ![w] =
                [l EXCEPT !.left = l.left \ {r},
                          !.kept = IF IsOwn(w, r) THEN l.kept \cup {r} ELSE l.kept]]
      /\ UNCHANGED vars

ReturnList(w) ==
  /\ listing[w] # None
  /\ listing[w].left = {}
  /\ listing' = [listing EXCEPT ![w] = None]
  /\ UNCHANGED vars

ListStep(w) ==
  \/ \E table \in {"candidates", "attempts"} : AskStore(w, table)
  \/ CheckRow(w)
  \/ ReturnList(w)

LNext == (Next /\ UNCHANGED listing) \/ \E w \in Viewer : ListStep(w)

LSpec == LInit /\ [][LNext]_allVars

-----------------------------------------------------------------------------
(* Properties.                                                             *)

IsReturned(w) == listing[w] # None /\ listing[w].left = {}

\* What a list returns was the workspace's own when the store was asked and is
\* its own still, although ownership was looked up row by row while others ran.
\* What it leaves out of the workspace's own are rows with ListLimit newer ones
\* before them: newer ones of the workspace where it is in the query
\* (namespaced_storage.py:453), newer ones of any workspace where the rows of
\* others are dropped after the limit (workspace.py:178).
ListsTellOwn ==
  \A w \in Viewer : IsReturned(w) =>
    LET l == listing[w]
    IN  /\ \A r \in l.kept : r \in l.own /\ IsOwn(w, r)
        /\ \A r \in l.own \ l.kept :
             Cardinality(Newer(IF backend = "legacy" THEN l.stored ELSE l.own, r)) >= ListLimit

\* The queue of an operator says that its scan was not cut off when the list it
\* was given is shorter than the limit (reconciliation.py:104): then nothing of
\* the workspace's is missing from it, as its page has it
\* (templates/reconciliation.html:61).  The legacy view shortens the list after
\* the limit.
ShortListsAreWhole ==
  \A w \in Viewer :
    IsReturned(w) /\ listing[w].table = "attempts" /\ Cardinality(listing[w].kept) < ListLimit =>
      listing[w].own \subseteq listing[w].kept
=============================================================================

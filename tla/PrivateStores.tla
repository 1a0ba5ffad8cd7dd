---------------------------- MODULE PrivateStores ----------------------------
(***************************************************************************)
(* What the workspaces of one database are promised: each has a store of   *)
(* its own, and a step of a workspace changes that store and no other.     *)
(* An operation that is refused is a stuttering step.                      *)
(***************************************************************************)
EXTENDS Naturals

CONSTANTS Workspace, SourceId, Observation, None

VARIABLE store \* workspace -> its tables

\* An empty store.
EmptyStore == [sources      |-> {},    \* [id, baseline]
               observations |-> {},    \* [id, source, values]
               candidates   |-> {},    \* [observation, source, state, created]
               attempts     |-> {}]    \* [candidate, state]

PrivateInit == store = [w \in Workspace |-> EmptyStore]

Put(w, tables) == store' = [store EXCEPT ![w] = tables]

AddSource(w, id) ==
  /\ \A s \in store[w].sources : s.id # id
  /\ Put(w, [store[w] EXCEPT !.sources = @ \cup {[id |-> id, baseline |-> None]}])

\* An observation is saved and becomes the baseline or not; raised are the
\* candidates saved with it, none or one, which is the newest of the workspace.
SaveObservation(w, id, o, raised, baselined) ==
  /\ \E s \in store[w].sources : s.id = id
  /\ \A x \in store[w].observations : x.id # o
  /\ \A created \in raised : \A c \in store[w].candidates : c.created < created
  /\ Put(w, [store[w] EXCEPT
               !.observations = @ \cup {[id |-> o, source |-> id, values |-> TRUE]},
               !.candidates = @ \cup {[observation |-> o, source |-> id, state |-> "Pending",
                                       created |-> created] : created \in raised},
               !.sources = {IF s.id = id /\ baselined THEN [s EXCEPT !.baseline = o] ELSE s
                              : s \in @}])

PromoteBaseline(w, id, o) ==
  /\ \E x \in store[w].observations : x.id = o /\ x.source = id
  /\ Put(w, [store[w] EXCEPT !.sources =
               {IF s.id = id THEN [s EXCEPT !.baseline = o] ELSE s : s \in @}])

\* The row values of one source's observations are stripped, but for those kept.
PruneValues(w, id, keep) ==
  Put(w, [store[w] EXCEPT !.observations =
            {IF x.source = id /\ x.id \notin keep THEN [x EXCEPT !.values = FALSE] ELSE x
               : x \in @}])

Decide(w, c, st) ==
  /\ c \in store[w].candidates
  /\ Put(w, [store[w] EXCEPT !.candidates = (@ \ {c}) \cup {[c EXCEPT !.state = st]}])

Claim(w, c) ==
  /\ c \in store[w].candidates
  /\ c.state = "Eligible"
  /\ \A a \in store[w].attempts : a.candidate # c.observation
  /\ Put(w, [store[w] EXCEPT
               !.attempts = @ \cup {[candidate |-> c.observation, state |-> "Prepared"]}])

Settle(w, a, st) ==
  /\ a \in store[w].attempts
  /\ Put(w, [store[w] EXCEPT !.attempts = (@ \ {a}) \cup {[a EXCEPT !.state = st]}])

PrivateNext ==
  \E w \in {v \in Workspace : store'[v] # store[v]} :
    \/ \E id \in SourceId :
         \/ AddSource(w, id)
         \/ \E o \in Observation, baselined \in BOOLEAN,
               raised \in {{}} \cup {{c.created} : c \in store'[w].candidates} :
              SaveObservation(w, id, o, raised, baselined)
         \/ \E o \in Observation : PromoteBaseline(w, id, o)
         \/ \E keep \in SUBSET Observation : PruneValues(w, id, keep)
    \/ \E c \in store[w].candidates :
         \/ \E st \in {"Eligible", "Suppressed"} : Decide(w, c, st)
         \/ Claim(w, c)
    \/ \E a \in store[w].attempts, st \in {"Succeeded", "Failed"} : Settle(w, a, st)

PrivateSpec == PrivateInit /\ [][PrivateNext]_store
=============================================================================

-------------------------- MODULE MigrationProofs --------------------------
(***************************************************************************)
(* Backups, restores and imports, for any number of sources, observations, *)
(* jobs, tries and writes of the service.                                  *)
(*                                                                         *)
(* The argument: nobody removes or takes over what a job reads or writes,  *)
(* and a file in use only grows.  So all that has to be said of a job is   *)
(* how what it has in hand and what it has written stand to the store it   *)
(* reads now (Good), which survives growth, and, while nobody has written  *)
(* to what it reads, how far the copy has come (the parts under quiet).    *)
(***************************************************************************)
EXTENDS Migration, SequenceTheorems, TLAPS

-----------------------------------------------------------------------------
(* Sequences.                                                              *)

\* What is in a sequence after an append, ...
LEMMA AppendedElements ==
  ASSUME NEW S, NEW q \in Seq(S), NEW o \in S
  PROVE  ToSet(Append(q, o)) = ToSet(q) \cup {o}
<1>1. /\ Append(q, o) \in Seq(S)
      /\ Len(Append(q, o)) = Len(q) + 1
      /\ \A i \in 1..Len(q) : Append(q, o)[i] = q[i]
      /\ Append(q, o)[Len(q) + 1] = o
  BY AppendProperties
<1>2. Len(q) \in Nat /\ DOMAIN q = 1..Len(q) /\ DOMAIN Append(q, o) = 1..(Len(q) + 1)
  BY <1>1, LenProperties
<1>3. ASSUME NEW x \in ToSet(Append(q, o)) PROVE x \in ToSet(q) \cup {o}
  <2>1. PICK i \in 1..(Len(q) + 1) : x = Append(q, o)[i]
    BY <1>2 DEF ToSet
  <2>2. CASE i = Len(q) + 1
    BY <1>1, <2>1, <2>2
  <2>3. CASE i # Len(q) + 1
    <3>1. i \in 1..Len(q)
      BY <1>2, <2>3
    <3> QED BY <1>1, <1>2, <2>1, <3>1 DEF ToSet
  <2> QED BY <2>2, <2>3
<1>4. ASSUME NEW x \in ToSet(q) PROVE x \in ToSet(Append(q, o))
  <2>1. PICK i \in 1..Len(q) : x = q[i]
    BY <1>2 DEF ToSet
  <2>2. i \in 1..(Len(q) + 1)
    BY <1>2
  <2> QED BY <1>1, <1>2, <2>1, <2>2 DEF ToSet
<1>5. o \in ToSet(Append(q, o))
  <2>1. Len(q) + 1 \in 1..(Len(q) + 1)
    BY <1>2
  <2> QED BY <1>1, <1>2, <2>1 DEF ToSet
<1> QED BY <1>3, <1>4, <1>5

\* ... its first and the rest, ...
LEMMA FirstAndRest ==
  ASSUME NEW S, NEW q \in Seq(S), q # << >>
  PROVE  /\ Head(q) \in S /\ Tail(q) \in Seq(S)
         /\ ToSet(q) = {Head(q)} \cup ToSet(Tail(q))
<1>1. /\ Head(q) \in S /\ Tail(q) \in Seq(S)
      /\ Len(Tail(q)) = Len(q) - 1
      /\ \A i \in 1..Len(Tail(q)) : Tail(q)[i] = q[i + 1]
  BY HeadTailProperties
<1>2. Len(q) \in Nat /\ Len(q) # 0 /\ DOMAIN q = 1..Len(q) /\ DOMAIN Tail(q) = 1..(Len(q) - 1)
  BY <1>1, LenProperties, EmptySeq
<1>3. Head(q) = q[1]
  OBVIOUS
<1>4. ASSUME NEW x \in ToSet(q) PROVE x \in {Head(q)} \cup ToSet(Tail(q))
  <2>1. PICK i \in 1..Len(q) : x = q[i]
    BY <1>2 DEF ToSet
  <2>2. CASE i = 1
    BY <1>3, <2>1, <2>2
  <2>3. CASE i # 1
    <3>1. i - 1 \in 1..(Len(q) - 1) /\ (i - 1) + 1 = i
      BY <1>2, <2>3
    <3>2. Tail(q)[i - 1] = q[i]
      BY <1>1, <3>1
    <3> QED BY <1>2, <2>1, <3>1, <3>2 DEF ToSet
  <2> QED BY <2>2, <2>3
<1>5. ASSUME NEW x \in ToSet(Tail(q)) PROVE x \in ToSet(q)
  <2>1. PICK i \in 1..(Len(q) - 1) : x = Tail(q)[i]
    BY <1>2 DEF ToSet
  <2>2. x = q[i + 1] /\ i + 1 \in 1..Len(q)
    BY <1>1, <1>2, <2>1
  <2> QED BY <1>2, <2>2 DEF ToSet
<1>6. Head(q) \in ToSet(q)
  BY <1>2, <1>3 DEF ToSet
<1> QED BY <1>1, <1>4, <1>5, <1>6

\* ... and moving the first of one to the end of another.
LEMMA MovedAcross ==
  ASSUME NEW S, NEW p \in Seq(S), NEW q \in Seq(S), q # << >>
  PROVE  Append(p, Head(q)) \o Tail(q) = p \o q
<1>1. /\ Head(q) \in S /\ Tail(q) \in Seq(S)
      /\ Len(Tail(q)) = Len(q) - 1
      /\ \A i \in 1..Len(Tail(q)) : Tail(q)[i] = q[i + 1]
  BY HeadTailProperties
<1>2. Append(p, Head(q)) = p \o <<Head(q)>>
  BY <1>1, AppendIsConcat
<1>3. q = <<Head(q)>> \o Tail(q)
  <2>1. <<Head(q)>> \in Seq(S) /\ Len(<<Head(q)>>) = 1 /\ <<Head(q)>>[1] = Head(q)
    BY <1>1
  <2>2. PICK r : r = <<Head(q)>> \o Tail(q)
    OBVIOUS
  <2>3. /\ r \in Seq(S) /\ Len(r) = 1 + Len(Tail(q))
        /\ \A i \in 1..(1 + Len(Tail(q))) : r[i] = IF i <= 1 THEN Head(q) ELSE Tail(q)[i - 1]
    BY <1>1, <2>1, <2>2, ConcatProperties, LenProperties
  <2>4. Len(q) \in Nat /\ Len(q) # 0
    BY LenProperties, EmptySeq
  <2>5. Len(r) = Len(q)
    BY <1>1, <2>3, <2>4
  <2>6. ASSUME NEW i \in 1..Len(q) PROVE r[i] = q[i]
    <3>1. CASE i = 1
      BY <1>1, <2>3, <2>4, <3>1
    <3>2. CASE i # 1
      <4>1. i - 1 \in 1..Len(Tail(q)) /\ (i - 1) + 1 = i /\ i \in 1..(1 + Len(Tail(q))) /\ ~(i <= 1)
        BY <1>1, <2>4, <3>2
      <4>2. r[i] = Tail(q)[i - 1]
        BY <2>3, <4>1
      <4> QED BY <1>1, <4>1, <4>2
    <3> QED BY <3>1, <3>2
  <2> QED BY <2>2, <2>3, <2>5, <2>6, SeqEqual
<1>4. (p \o <<Head(q)>>) \o Tail(q) = p \o (<<Head(q)>> \o Tail(q))
  BY <1>1, ConcatAssociative
<1> QED BY <1>2, <1>3, <1>4

-----------------------------------------------------------------------------
(* Stores.                                                                 *)

LEMMA NothingIsNoStore ==
  None \notin Observation /\ None \notin Store /\ Blank \notin Store /\ None # Blank
  BY MigrationAssumption

LEMMA StoreFields ==
  ASSUME NEW st \in Store
  PROVE  /\ st.sources \in SUBSET SourceId
         /\ st.baseline \in [SourceId -> Observation \cup {None}]
         /\ st.observations \in [SourceId -> Seq(Observation)]
         /\ st.reviews \in SUBSET Observation
         /\ st.candidates \in SUBSET Observation
         /\ st.attempts \in SUBSET Observation
  BY DEF Store

\* Two stores with the same tables are the same.
LEMMA SameTables ==
  ASSUME NEW st \in Store, NEW nt \in Store,
         st.sources = nt.sources, st.baseline = nt.baseline, st.observations = nt.observations,
         st.reviews = nt.reviews, st.candidates = nt.candidates, st.attempts = nt.attempts
  PROVE  st = nt
  BY DEF Store

LEMMA IdsOf ==
  ASSUME NEW st, NEW o
  PROVE  o \in Ids(st) <=> \E s \in SourceId : o \in ToSet(st.observations[s])
  BY DEF Ids

LEMMA ElementsTyped ==
  ASSUME NEW S, NEW q \in Seq(S) PROVE ToSet(q) \subseteq S
  BY ElementOfSeq, LenProperties DEF ToSet

LEMMA NoElements == ToSet(<< >>) = {}
  BY DEF ToSet

\* A store with rows that agree and none twice.
Sound(st) == st \in Store /\ Unique(st) /\ Closed(st)

LEMMA EmptyIsSound == Sound(EmptyStore) /\ Ids(EmptyStore) = {}
<1>1. EmptyStore \in Store
  BY EmptySeq DEF EmptyStore, Store
<1>2. Ids(EmptyStore) = {}
  BY NoElements DEF EmptyStore, Ids
<1>3. Unique(EmptyStore)
  BY DEF EmptyStore, Unique
<1>4. Closed(EmptyStore)
  BY <1>2 DEF EmptyStore, Closed
<1> QED BY <1>1, <1>2, <1>3, <1>4 DEF Sound

\* Where no source is, nothing is.
LEMMA NoSourcesNoRows ==
  ASSUME NEW st, Sound(st), st.sources = {}
  PROVE  st = EmptyStore
<1>1. st \in Store /\ EmptyStore \in Store
  BY EmptyIsSound DEF Sound
<1>2. st.observations = [s \in SourceId |-> << >>]
  BY <1>1, StoreFields DEF Sound, Closed
<1>3. Ids(st) = {}
  BY <1>2, NoElements DEF Ids
<1>4. st.reviews = {} /\ st.candidates = {} /\ st.attempts = {}
  BY <1>3 DEF Sound, Closed
<1>5. st.baseline = [s \in SourceId |-> None]
  <2>1. ASSUME NEW s \in SourceId PROVE st.baseline[s] = None
    BY <1>2, NoElements DEF Sound, Closed
  <2> QED BY <1>1, <2>1, StoreFields
<1> QED BY <1>1, <1>2, <1>4, <1>5, SameTables DEF EmptyStore

\* A source without a row has no observation and no baseline.
LEMMA NoSourceNoRows ==
  ASSUME NEW st, Sound(st), NEW s \in SourceId \ st.sources
  PROVE  st.observations[s] = << >> /\ st.baseline[s] = None
<1>1. st.observations[s] = << >>
  BY DEF Sound, Closed
<1> QED BY <1>1, NoElements DEF Sound, Closed

\* What one transaction makes of a store, by the tables it touches.
Appended(st, s, o, raised, b) ==
  [st EXCEPT !.observations[s] = Append(@, o), !.candidates = @ \cup raised, !.baseline[s] = b]

WithSource(st, s) == [st EXCEPT !.sources = @ \cup {s}]

WithBaseline(st, s, o) == [st EXCEPT !.baseline[s] = o]

WithReviews(st, more) == [st EXCEPT !.reviews = @ \cup more]

WithAttempt(st, c) == [st EXCEPT !.attempts = @ \cup {c}]

\* An observation that is new to the store is appended to those of a source,
\* with what refers to it.
AppendedTo(st, s, o, raised, b, nt) ==
  /\ Sound(nt)
  /\ Ids(nt) = Ids(st) \cup {o}
  /\ nt.sources = st.sources /\ nt.reviews = st.reviews /\ nt.attempts = st.attempts
  /\ nt.candidates = st.candidates \cup raised
  /\ nt.baseline[s] = b /\ nt.observations[s] = Append(st.observations[s], o)
  /\ ToSet(nt.observations[s]) = ToSet(st.observations[s]) \cup {o}
  /\ \A r \in SourceId \ {s} : nt.baseline[r] = st.baseline[r] /\ nt.observations[r] = st.observations[r]

LEMMA AppendedIsSound ==
  ASSUME NEW st, Sound(st), NEW s \in st.sources, NEW o \in Observation, o \notin Ids(st),
         NEW raised, raised \subseteq {o}, NEW b, b = o \/ b = st.baseline[s],
         NEW nt, nt = Appended(st, s, o, raised, b)
  PROVE  AppendedTo(st, s, o, raised, b, nt)
<1>1. /\ st \in Store /\ Unique(st) /\ Closed(st) /\ s \in SourceId
      /\ o \in Observation /\ o \notin Ids(st)
  BY StoreFields DEF Sound
<1>2. /\ st.observations \in [SourceId -> Seq(Observation)]
      /\ st.baseline \in [SourceId -> Observation \cup {None}]
      /\ st.sources \in SUBSET SourceId /\ st.reviews \in SUBSET Observation
      /\ st.candidates \in SUBSET Observation /\ st.attempts \in SUBSET Observation
  BY <1>1, StoreFields
<1>3. PICK q : q = st.observations[s]
  OBVIOUS
<1>4. /\ q \in Seq(Observation) /\ Append(q, o) \in Seq(Observation)
      /\ Len(q) \in Nat /\ DOMAIN q = 1..Len(q) /\ DOMAIN Append(q, o) = 1..(Len(q) + 1)
      /\ \A i \in 1..Len(q) : Append(q, o)[i] = q[i]
      /\ Append(q, o)[Len(q) + 1] = o
  <2>1. q \in Seq(Observation)
    BY <1>1, <1>2, <1>3
  <2> QED BY <1>1, <2>1, AppendProperties, LenProperties
<1>5. /\ nt.sources = st.sources /\ nt.reviews = st.reviews /\ nt.attempts = st.attempts
      /\ nt.candidates = st.candidates \cup raised
      /\ nt.baseline = [st.baseline EXCEPT ![s] = b]
      /\ nt.observations = [st.observations EXCEPT ![s] = Append(q, o)]
      /\ nt \in Store
  <2>1. DOMAIN st = {"sources", "baseline", "observations", "reviews", "candidates", "attempts"}
    BY <1>1 DEF Store
  <2>2. /\ nt.sources = st.sources /\ nt.reviews = st.reviews /\ nt.attempts = st.attempts
        /\ nt.candidates = st.candidates \cup raised
        /\ nt.baseline = [st.baseline EXCEPT ![s] = b]
        /\ nt.observations = [st.observations EXCEPT ![s] = Append(q, o)]
    BY <1>3, <2>1 DEF Appended
  <2>3. nt = [sources |-> nt.sources, baseline |-> nt.baseline, observations |-> nt.observations,
              reviews |-> nt.reviews, candidates |-> nt.candidates, attempts |-> nt.attempts]
    BY <2>1 DEF Appended
  <2>4. /\ nt.baseline \in [SourceId -> Observation \cup {None}]
        /\ nt.observations \in [SourceId -> Seq(Observation)]
        /\ nt.candidates \in SUBSET Observation
    BY <1>1, <1>2, <1>4, <2>2
  <2> QED BY <1>2, <2>2, <2>3, <2>4 DEF Store
<1>6. /\ ToSet(nt.observations[s]) = ToSet(q) \cup {o}
      /\ \A r \in SourceId \ {s} : ToSet(nt.observations[r]) = ToSet(st.observations[r])
  <2>1. ToSet(Append(q, o)) = ToSet(q) \cup {o}
    BY <1>1, <1>4, AppendedElements
  <2>2. nt.observations[s] = Append(q, o)
    BY <1>1, <1>2, <1>5
  <2>3. \A r \in SourceId \ {s} : nt.observations[r] = st.observations[r]
    BY <1>1, <1>2, <1>5
  <2> QED BY <2>1, <2>2, <2>3
<1>7. \A x : x \in Ids(nt) <=> x \in Ids(st) \cup {o}
  <2>1. ASSUME NEW x \in Ids(nt) PROVE x \in Ids(st) \cup {o}
    <3>1. PICK r \in SourceId : x \in ToSet(nt.observations[r])
      BY <2>1, IdsOf
    <3> QED BY <1>1, <1>3, <1>6, <3>1, IdsOf
  <2>2. ASSUME NEW x \in Ids(st) PROVE x \in Ids(nt)
    <3>1. PICK r \in SourceId : x \in ToSet(st.observations[r])
      BY <2>2, IdsOf
    <3> QED BY <1>1, <1>3, <1>6, <3>1, IdsOf
  <2>3. o \in Ids(nt)
    BY <1>1, <1>6, IdsOf
  <2> QED BY <2>1, <2>2, <2>3
<1>8. Closed(nt)
  <2>1. ASSUME NEW r \in SourceId, nt.baseline[r] # None
        PROVE  nt.baseline[r] \in ToSet(nt.observations[r])
    <3>1. CASE r = s
      <4>1. nt.baseline[r] = b
        BY <1>1, <1>2, <1>5, <3>1
      <4>2. CASE b = o
        BY <1>6, <3>1, <4>1, <4>2
      <4>3. CASE b = st.baseline[s]
        BY <1>1, <1>3, <1>6, <2>1, <3>1, <4>1, <4>3 DEF Closed
      <4> QED BY <4>2, <4>3
    <3>2. CASE r # s
      <4>1. nt.baseline[r] = st.baseline[r]
        BY <1>1, <1>2, <1>5, <3>2
      <4> QED BY <1>1, <1>6, <2>1, <3>2, <4>1 DEF Closed
    <3> QED BY <3>1, <3>2
  <2>2. ASSUME NEW r \in SourceId \ nt.sources PROVE nt.observations[r] = << >>
    BY <1>1, <1>2, <1>5 DEF Closed
  <2>3. nt.reviews \cup nt.candidates \subseteq Ids(nt)
    BY <1>1, <1>5, <1>7 DEF Closed
  <2>4. nt.attempts \subseteq nt.candidates
    BY <1>1, <1>5 DEF Closed
  <2> QED BY <2>1, <2>2, <2>3, <2>4 DEF Closed
<1>9. Unique(nt)
  <2>1. ASSUME NEW r \in SourceId, NEW i \in DOMAIN nt.observations[r]
        PROVE  \/ r = s /\ i = Len(q) + 1 /\ nt.observations[r][i] = o
               \/ /\ i \in DOMAIN st.observations[r]
                  /\ nt.observations[r][i] = st.observations[r][i]
                  /\ nt.observations[r][i] # o
    <3>1. CASE r = s
      <4>1. nt.observations[r] = Append(q, o) /\ i \in 1..(Len(q) + 1)
        BY <1>1, <1>2, <1>4, <1>5, <2>1, <3>1
      <4>2. CASE i = Len(q) + 1
        BY <1>4, <3>1, <4>1, <4>2
      <4>3. CASE i # Len(q) + 1
        <5>1. i \in 1..Len(q)
          BY <1>4, <4>1, <4>3
        <5>2. Append(q, o)[i] = q[i] /\ q[i] \in ToSet(q)
          BY <1>4, <5>1 DEF ToSet
        <5>3. q[i] \in Ids(st)
          BY <1>1, <1>3, <5>2, IdsOf
        <5> QED BY <1>1, <1>3, <1>4, <3>1, <4>1, <5>1, <5>2, <5>3
      <4> QED BY <4>2, <4>3
    <3>2. CASE r # s
      <4>1. nt.observations[r] = st.observations[r]
        BY <1>1, <1>2, <1>5, <3>2
      <4>2. st.observations[r][i] \in ToSet(st.observations[r])
        BY <2>1, <4>1 DEF ToSet
      <4>3. st.observations[r][i] \in Ids(st)
        BY <4>2, IdsOf
      <4> QED BY <1>1, <2>1, <4>1, <4>3
    <3> QED BY <3>1, <3>2
  <2>2. SUFFICES ASSUME NEW r \in SourceId, NEW t \in SourceId,
                        NEW i \in DOMAIN nt.observations[r], NEW k \in DOMAIN nt.observations[t],
                        nt.observations[r][i] = nt.observations[t][k]
                 PROVE  r = t /\ i = k
    BY DEF Unique
  <2>3. CASE nt.observations[r][i] = o
    <3>1. r = s /\ i = Len(q) + 1
      BY <2>1, <2>3
    <3>2. t = s /\ k = Len(q) + 1
      <4>1. nt.observations[t][k] = o
        BY <2>2, <2>3
      <4> QED BY <2>1, <4>1
    <3> QED BY <3>1, <3>2
  <2>4. CASE nt.observations[r][i] # o
    <3>1. /\ i \in DOMAIN st.observations[r] /\ nt.observations[r][i] = st.observations[r][i]
          /\ k \in DOMAIN st.observations[t] /\ nt.observations[t][k] = st.observations[t][k]
      BY <2>1, <2>2, <2>4
    <3>2. st.observations[r][i] = st.observations[t][k]
      BY <2>2, <3>1
    <3> QED BY <1>1, <3>1, <3>2 DEF Unique
  <2> QED BY <2>3, <2>4
<1>10. /\ nt.baseline[s] = b /\ nt.observations[s] = Append(q, o)
       /\ \A r \in SourceId \ {s} : nt.baseline[r] = st.baseline[r] /\ nt.observations[r] = st.observations[r]
  BY <1>1, <1>2, <1>5
<1>11. ToSet(nt.observations[s]) = ToSet(st.observations[s]) \cup {o}
  BY <1>3, <1>6
<1> QED BY <1>3, <1>5, <1>7, <1>8, <1>9, <1>10, <1>11 DEF Sound, AppendedTo

\* The other tables of a store, replaced where the observations stay.
LEMMA SameObservations ==
  ASSUME NEW st \in Store, NEW nt \in Store, nt.observations = st.observations, Unique(st)
  PROVE  Unique(nt) /\ Ids(nt) = Ids(st)
  BY DEF Unique, Ids

Becomes(st, nt, sources, reviews, attempts) ==
  /\ Sound(nt) /\ Ids(nt) = Ids(st)
  /\ nt.sources = sources /\ nt.reviews = reviews /\ nt.attempts = attempts
  /\ nt.baseline = st.baseline /\ nt.observations = st.observations /\ nt.candidates = st.candidates

LEMMA SourceAdded ==
  ASSUME NEW st, Sound(st), NEW s \in SourceId, NEW nt, nt = WithSource(st, s)
  PROVE  Becomes(st, nt, st.sources \cup {s}, st.reviews, st.attempts)
<1>1. st \in Store
  BY DEF Sound
<1>2. /\ nt.sources = st.sources \cup {s} /\ nt.baseline = st.baseline
      /\ nt.observations = st.observations /\ nt.reviews = st.reviews
      /\ nt.candidates = st.candidates /\ nt.attempts = st.attempts
      /\ nt \in Store
  BY <1>1 DEF Store, WithSource
<1>3. Unique(nt) /\ Ids(nt) = Ids(st)
  BY <1>1, <1>2, SameObservations DEF Sound
<1> QED BY <1>2, <1>3 DEF Sound, Closed, Becomes

LEMMA BaselineSet ==
  ASSUME NEW st, Sound(st), NEW s \in SourceId, NEW o \in ToSet(st.observations[s]),
         NEW nt, nt = WithBaseline(st, s, o)
  PROVE  /\ Sound(nt)
         /\ nt.sources = st.sources /\ nt.baseline = [st.baseline EXCEPT ![s] = o]
         /\ nt.observations = st.observations /\ nt.reviews = st.reviews
         /\ nt.candidates = st.candidates /\ nt.attempts = st.attempts
<1>1. st \in Store /\ o \in Observation
  BY StoreFields, ElementsTyped DEF Sound
<1>2. DOMAIN st = {"sources", "baseline", "observations", "reviews", "candidates", "attempts"}
  BY <1>1 DEF Store
<1>3. /\ nt.sources = st.sources /\ nt.baseline = [st.baseline EXCEPT ![s] = o]
      /\ nt.observations = st.observations /\ nt.reviews = st.reviews
      /\ nt.candidates = st.candidates /\ nt.attempts = st.attempts
  BY <1>2 DEF WithBaseline
<1>4. nt.baseline \in [SourceId -> Observation \cup {None}]
  BY <1>1, <1>3, StoreFields
<1>5. nt = [sources |-> nt.sources, baseline |-> nt.baseline, observations |-> nt.observations,
            reviews |-> nt.reviews, candidates |-> nt.candidates, attempts |-> nt.attempts]
  BY <1>2 DEF WithBaseline
<1>6. nt \in Store
  BY <1>1, <1>3, <1>4, <1>5, StoreFields DEF Store
<1>7. Unique(nt) /\ Ids(nt) = Ids(st)
  BY <1>1, <1>3, <1>6, SameObservations DEF Sound
<1>8. \A r \in SourceId : nt.baseline[r] = IF r = s THEN o ELSE st.baseline[r]
  BY <1>1, <1>3, StoreFields
<1>9. Closed(nt)
  BY <1>3, <1>7, <1>8 DEF Sound, Closed
<1> QED BY <1>3, <1>6, <1>7, <1>9 DEF Sound

LEMMA ReviewsAdded ==
  ASSUME NEW st, Sound(st), NEW more \in SUBSET Ids(st), NEW nt, nt = WithReviews(st, more)
  PROVE  Becomes(st, nt, st.sources, st.reviews \cup more, st.attempts)
<1>1. st \in Store /\ more \subseteq Observation
  <2>1. \A o \in Ids(st) : o \in Observation
    BY IdsOf, StoreFields, ElementsTyped DEF Sound
  <2> QED BY <2>1 DEF Sound
<1>2. /\ nt.sources = st.sources /\ nt.baseline = st.baseline
      /\ nt.observations = st.observations /\ nt.reviews = st.reviews \cup more
      /\ nt.candidates = st.candidates /\ nt.attempts = st.attempts
      /\ nt \in Store
  BY <1>1 DEF Store, WithReviews
<1>3. Unique(nt) /\ Ids(nt) = Ids(st)
  BY <1>1, <1>2, SameObservations DEF Sound
<1> QED BY <1>2, <1>3 DEF Sound, Closed, Becomes

LEMMA AttemptAdded ==
  ASSUME NEW st, Sound(st), NEW c \in st.candidates, NEW nt, nt = WithAttempt(st, c)
  PROVE  Becomes(st, nt, st.sources, st.reviews, st.attempts \cup {c})
<1>1. st \in Store
  BY DEF Sound
<1>2. /\ nt.sources = st.sources /\ nt.baseline = st.baseline
      /\ nt.observations = st.observations /\ nt.reviews = st.reviews
      /\ nt.candidates = st.candidates /\ nt.attempts = st.attempts \cup {c}
      /\ nt \in Store
  BY <1>1 DEF Store, WithAttempt
<1>3. Unique(nt) /\ Ids(nt) = Ids(st)
  BY <1>1, <1>2, SameObservations DEF Sound
<1> QED BY <1>2, <1>3 DEF Sound, Closed, Becomes

\* What the service does to a store loses nothing that a copy looks at.
Grows(st, nt) ==
  \A s \in SourceId :
    /\ ToSet(st.observations[s]) \subseteq ToSet(nt.observations[s])
    /\ st.baseline[s] # None => nt.baseline[s] # None

LEMMA StoreCallGrows ==
  ASSUME NEW st, Sound(st), NEW nt \in AfterStoreCall(st)
  PROVE  Sound(nt) /\ Grows(st, nt)
<1>1. st \in Store
  BY DEF Sound
<1>2. ASSUME NEW s \in SourceId \ st.sources, nt = WithSource(st, s)
      PROVE  Sound(nt) /\ Grows(st, nt)
  BY <1>2, SourceAdded DEF Grows, Becomes
<1>3. ASSUME NEW s \in st.sources, NEW o \in Observation \ Ids(st), NEW raised \in BOOLEAN,
             nt = Saved(st, s, o, raised)
      PROVE  Sound(nt) /\ Grows(st, nt)
  <2>1. PICK b : b = IF st.baseline[s] = None THEN o ELSE st.baseline[s]
    OBVIOUS
  <2>2. PICK more : more = IF raised THEN {o} ELSE {}
    OBVIOUS
  <2>3. (b = o \/ b = st.baseline[s]) /\ more \subseteq {o}
    BY <2>1, <2>2
  <2>4. (IF raised THEN st.candidates \cup {o} ELSE st.candidates) = st.candidates \cup more
    BY <2>2
  <2>5. nt = Appended(st, s, o, more, b)
    BY <1>3, <2>1, <2>4 DEF Saved, Appended
  <2>6. AppendedTo(st, s, o, more, b, nt)
    <3>1. o \in Observation /\ o \notin Ids(st)
      OBVIOUS
    <3> QED BY <2>3, <2>5, <3>1, AppendedIsSound
  <2>7. s \in SourceId /\ o # None /\ o \in Observation
    BY <1>1, StoreFields, NothingIsNoStore
  <2>8. ToSet(Append(st.observations[s], o)) = ToSet(st.observations[s]) \cup {o}
    BY <1>1, <2>7, StoreFields, AppendedElements
  <2>9. ASSUME NEW r \in SourceId
        PROVE  /\ ToSet(st.observations[r]) \subseteq ToSet(nt.observations[r])
               /\ st.baseline[r] # None => nt.baseline[r] # None
    <3>1. CASE r = s
      BY <2>1, <2>6, <2>7, <2>8, <3>1 DEF AppendedTo
    <3>2. CASE r # s
      BY <2>6, <3>2 DEF AppendedTo
    <3> QED BY <3>1, <3>2
  <2> QED BY <2>6, <2>9 DEF Grows, AppendedTo
<1>4. ASSUME NEW s \in SourceId, NEW o \in ToSet(st.observations[s]), nt = WithBaseline(st, s, o)
      PROVE  Sound(nt) /\ Grows(st, nt)
  <2>1. /\ Sound(nt) /\ nt.baseline = [st.baseline EXCEPT ![s] = o]
        /\ nt.observations = st.observations
    BY <1>4, BaselineSet
  <2>2. o # None
    BY <1>1, StoreFields, ElementsTyped, NothingIsNoStore
  <2>3. \A r \in SourceId : nt.baseline[r] = IF r = s THEN o ELSE st.baseline[r]
    BY <1>1, <2>1, StoreFields
  <2> QED BY <2>1, <2>2, <2>3 DEF Grows
<1>5. ASSUME NEW o \in Ids(st), nt = WithReviews(st, {o})
      PROVE  Sound(nt) /\ Grows(st, nt)
  <2>1. {o} \in SUBSET Ids(st)
    OBVIOUS
  <2>2. Sound(nt) /\ nt.baseline = st.baseline /\ nt.observations = st.observations
    BY <1>5, <2>1, ReviewsAdded DEF Becomes
  <2> QED BY <2>2 DEF Grows
<1>6. ASSUME NEW c \in st.candidates, nt = WithAttempt(st, c)
      PROVE  Sound(nt) /\ Grows(st, nt)
  BY <1>6, AttemptAdded DEF Grows, Becomes
<1>7. \/ nt \in {[st EXCEPT !.sources = @ \cup {s}] : s \in SourceId \ st.sources}
      \/ nt \in {Saved(st, s, o, raised) :
                  s \in st.sources, o \in Observation \ Ids(st), raised \in BOOLEAN}
      \/ nt \in UNION {{[st EXCEPT !.baseline[s] = o] : o \in ToSet(st.observations[s])} : s \in SourceId}
      \/ nt \in {[st EXCEPT !.reviews = @ \cup {o}] : o \in Ids(st)}
      \/ nt \in {[st EXCEPT !.attempts = @ \cup {c}] : c \in st.candidates}
  BY DEF AfterStoreCall
<1>8. CASE nt \in {[st EXCEPT !.sources = @ \cup {s}] : s \in SourceId \ st.sources}
  BY <1>2, <1>8 DEF WithSource
<1>9. CASE nt \in {Saved(st, s, o, raised) :
                    s \in st.sources, o \in Observation \ Ids(st), raised \in BOOLEAN}
  BY <1>3, <1>9
<1>10. CASE nt \in UNION {{[st EXCEPT !.baseline[s] = o] : o \in ToSet(st.observations[s])} : s \in SourceId}
  <2>1. PICK s \in SourceId : \E o \in ToSet(st.observations[s]) : nt = WithBaseline(st, s, o)
    BY <1>10 DEF WithBaseline
  <2> QED BY <1>4, <2>1
<1>11. CASE nt \in {[st EXCEPT !.reviews = @ \cup {o}] : o \in Ids(st)}
  BY <1>5, <1>11 DEF WithReviews
<1>12. CASE nt \in {[st EXCEPT !.attempts = @ \cup {c}] : c \in st.candidates}
  BY <1>6, <1>12 DEF WithAttempt
<1> QED BY <1>7, <1>8, <1>9, <1>10, <1>11, <1>12

\* Tables that refer to the same observations.
LEMMA TablesReplaced ==
  ASSUME NEW st, Sound(st), NEW nt \in Store,
         nt.sources = st.sources, nt.baseline = st.baseline, nt.observations = st.observations,
         nt.reviews \cup nt.candidates \subseteq Ids(st), nt.attempts \subseteq nt.candidates
  PROVE  Sound(nt) /\ Ids(nt) = Ids(st)
<1>1. Unique(nt) /\ Ids(nt) = Ids(st)
  BY SameObservations DEF Sound
<1> QED BY <1>1 DEF Sound, Closed

-----------------------------------------------------------------------------
(* A job at its call c, with l in hand: F is what it reads, T what it      *)
(* writes, q whether nobody else has written to F since it began.          *)

CopyGood(c, q, F, T) ==
  /\ c \in {"copy", "verify", "finished"}
  /\ q /\ c # "copy" => T = F

ImportWork == [from : FileName, to : {"namespaced"}, copy : Store]

\* The baselines that were read before the observations are among these.
BaselinesAhead(b, F) ==
  \A s \in SourceId : b[s] # None => b[s] \in ToSet(F.observations[s])

\* The tables that have been read are those of the selection.
SourcesRead(copy, F) ==
  /\ copy.sources = F.sources \cap Selected
  /\ copy.baseline = Selection(F, Selected).baseline

ImportGood(c, l, q, F, T) ==
  /\ c \in {"read sources", "initialize", "read observations", "read reviews", "read candidates",
            "read attempts", "commit", "finished"}
  /\ c # "read sources" => l \in ImportWork
  /\ c \in {"initialize", "read observations"} =>
       /\ BaselinesAhead(l.copy.baseline, F)
       /\ \A s \in SourceId \ l.copy.sources : l.copy.baseline[s] = None
       /\ l.copy.reviews = {} /\ l.copy.candidates = {} /\ l.copy.attempts = {}
       /\ q => SourcesRead(l.copy, F)
  /\ c \in {"read reviews", "read candidates", "read attempts", "commit"} =>
       /\ Sound(l.copy)
       /\ c # "commit" => l.copy.attempts = {}
       /\ c \in {"read reviews", "read candidates"} => l.copy.candidates = {}
       /\ q => SourcesRead(l.copy, F) /\ l.copy.observations = Selection(F, Selected).observations
       /\ q /\ c # "read reviews" => l.copy.reviews = Selection(F, Selected).reviews
       /\ q /\ c \in {"read attempts", "commit"} => l.copy.candidates = Selection(F, Selected).candidates
       /\ q /\ c = "commit" => l.copy = Selection(F, Selected)
  /\ q /\ c = "finished" => T = Selection(F, Selected)

PostgresWork ==
  [from : {"namespaced"}, to : {"postgres"}, had : SUBSET SourceId, sources : SUBSET SourceId,
   candidates : SUBSET Observation, baseline : [SourceId -> Observation \cup {None}],
   unread : SUBSET SourceId, source : SourceId \cup {None}, observations : Seq(Observation),
   attempts : SUBSET Observation]

\* Before the first write.
Reading(c, l, q, F, T) ==
  /\ T = EmptyStore
  /\ \A s \in l.had : F.baseline[s] # None
  /\ c # "list sources" =>
       /\ l.had \subseteq l.sources
       /\ BaselinesAhead(l.baseline, F)
       /\ \A s \in l.had \ l.unread : l.baseline[s] # None
       /\ q => l.sources = F.sources /\ \A s \in SourceId \ l.unread : l.baseline[s] = F.baseline[s]
  /\ c = "list candidates" => l.unread = l.sources
  /\ q /\ c = "get baselines" => l.candidates = F.candidates

\* The source whose observations are being copied, and those still to be saved.
Current(c, l, s) == c # "upsert source" /\ s = l.source

Unsaved(c, l) == IF c = "copy review" THEN Tail(l.observations) ELSE l.observations

\* Every baseline there was is in T, or will be saved with its observation.
Carried(c, l, T) ==
  \A s \in l.had :
    \/ s \in l.sources
    \/ T.baseline[s] # None
    \/ Current(c, l, s) /\ (c = "list observations" \/ l.baseline[s] \in ToSet(Unsaved(c, l)))

\* How far the copy of the observations has come.
Progress(c, l, F, T) ==
  /\ T.sources \cup l.sources = F.sources
  /\ l.candidates = F.candidates /\ l.baseline = F.baseline
  /\ \A s \in T.sources : ~Current(c, l, s) => T.observations[s] = F.observations[s]
  /\ c = "list observations" => T.observations[l.source] = << >>
  /\ c \in {"save observation", "copy review"} =>
       T.observations[l.source] \o Unsaved(c, l) = F.observations[l.source]
  /\ \A s \in SourceId :
       T.baseline[s] = IF F.baseline[s] \in ToSet(T.observations[s]) THEN F.baseline[s] ELSE None
  /\ T.candidates = F.candidates \cap Ids(T)
  /\ T.reviews \cup (IF c = "copy review" THEN {Head(l.observations)} \cap F.reviews ELSE {})
       = F.reviews \cap Ids(T)
  /\ T.attempts = {}

Writing(c, l, q, F, T) ==
  /\ BaselinesAhead(l.baseline, F)
  /\ \A s \in l.had : l.baseline[s] # None
  /\ l.sources \cap T.sources = {}
  /\ c # "upsert source" => l.source \in T.sources
  /\ c = "copy review" => l.observations # << >>
  /\ Carried(c, l, T)
  /\ q => Progress(c, l, F, T)

\* The attempts are what is left to copy.
Attempting(c, l, q, F, T) ==
  /\ \A s \in l.had : T.baseline[s] # None
  /\ q => /\ T.sources = F.sources /\ T.baseline = F.baseline /\ T.observations = F.observations
          /\ T.reviews = F.reviews /\ T.candidates = F.candidates
          /\ c = "list attempts" => T.attempts = {}
          /\ c = "create attempt" => T.attempts \cup l.attempts = F.attempts

PostgresGood(c, l, q, F, T) ==
  /\ c \in {"list sources", "list candidates", "get baselines", "upsert source", "list observations",
            "save observation", "copy review", "list attempts", "create attempt", "finished"}
  /\ l.had \subseteq SourceId
  /\ c # "list sources" => l \in PostgresWork
  /\ c \in {"list sources", "list candidates", "get baselines"} => Reading(c, l, q, F, T)
  /\ c \in {"upsert source", "list observations", "save observation", "copy review"} =>
       Writing(c, l, q, F, T)
  /\ c \in {"list attempts", "create attempt"} => Attempting(c, l, q, F, T)
  /\ c = "finished" => (\A s \in l.had : T.baseline[s] # None) /\ (q => T = F)

Good(c, l, q, F, T) ==
  /\ l.from \in FileName \ {l.to}
  /\ l.to \in {"snapshot", "restored", "namespaced", "postgres"}
  /\ l.to = "postgres" => l.from = "namespaced"
  /\ Sound(F)
  /\ l.to \in {"snapshot", "restored"} => CopyGood(c, q, F, T)
  /\ l.to = "namespaced" => ImportGood(c, l, q, F, T)
  /\ l.to = "postgres" => PostgresGood(c, l, q, F, T)

\* What is said of a job survives what the service writes meanwhile.
LEMMA GoodSurvivesGrowth ==
  ASSUME NEW c, NEW l, NEW q, NEW F, NEW T, Good(c, l, q, F, T), NEW G, Sound(G), Grows(F, G)
  PROVE  Good(c, l, FALSE, G, T)
<1>1. \A b : BaselinesAhead(b, F) => BaselinesAhead(b, G)
  BY DEF BaselinesAhead, Grows
<1>2. CASE l.to \in {"snapshot", "restored"}
  BY <1>2 DEF Good, CopyGood
<1>3. CASE l.to = "namespaced"
  BY <1>1, <1>3 DEF Good, ImportGood
<1>4. CASE l.to = "postgres"
  <2>1. PostgresGood(c, l, q, F, T)
    BY <1>4 DEF Good
  <2>2. Reading(c, l, q, F, T) => Reading(c, l, FALSE, G, T)
    BY <1>1, <2>1 DEF Reading, Grows, PostgresGood
  <2>3. Writing(c, l, q, F, T) => Writing(c, l, FALSE, G, T)
    BY <1>1 DEF Writing
  <2>4. Attempting(c, l, q, F, T) => Attempting(c, l, FALSE, G, T)
    BY DEF Attempting
  <2>5. PostgresGood(c, l, FALSE, G, T)
    BY <2>1, <2>2, <2>3, <2>4 DEF PostgresGood
  <2> QED BY <1>4, <2>5 DEF Good
<1> QED BY <1>2, <1>3, <1>4 DEF Good

-----------------------------------------------------------------------------
(* The inductive invariant.                                                *)

Target(j) == IF local[j].to = "postgres" THEN postgres ELSE file[local[j].to]

\* Every store is sound.
FilesInv ==
  /\ file \in [FileName -> Store \cup {None, Blank}]
  /\ \A f \in FileName : IsStore(file[f]) => Sound(file[f])
  /\ Sound(postgres)

JobsInv ==
  /\ pc \in [Job -> Call]
  /\ DOMAIN local = Job
  /\ \A j \in Job : pc[j] = "idle" => local[j] = None
  /\ quiet \in [Job -> BOOLEAN]
  /\ runs \in 0..MaxRuns
  /\ writes \in 0..MaxWrites

\* Nobody writes what another job reads or writes.
Exclusive ==
  \A i, j \in Job : i # j /\ pc[i] # "idle" /\ pc[j] # "idle" =>
    local[i].to # local[j].from /\ local[i].to # local[j].to

WorkInv ==
  \A j \in Job : pc[j] # "idle" => Good(pc[j], local[j], quiet[j], file[local[j].from], Target(j))

IInv == FilesInv /\ JobsInv /\ Exclusive /\ WorkInv

LEMMA InitIInv == Init => IInv
<1> SUFFICES ASSUME Init PROVE IInv
  OBVIOUS
<1>1. PICK st \in Begun, ns \in Begun \cup {None} :
        file = [f \in FileName |-> CASE f = "live" -> st [] f = "namespaced" -> ns [] OTHER -> None]
  BY DEF Init
<1>2. Sound(st) /\ (ns # None => Sound(ns))
  BY MigrationAssumption DEF Sound
<1>3. \A f \in FileName : file[f] = st \/ file[f] = ns \/ file[f] = None
  BY <1>1 DEF FileName
<1>4. file \in [FileName -> Store \cup {None, Blank}]
  BY <1>1, <1>2 DEF FileName, Sound
<1>5. \A f \in FileName : IsStore(file[f]) => Sound(file[f])
  BY <1>2, <1>3 DEF IsStore
<1>6. FilesInv
  BY <1>4, <1>5, EmptyIsSound DEF Init, FilesInv
<1>7. JobsInv
  BY MigrationAssumption DEF Init, JobsInv, Call
<1>8. \A j \in Job : pc[j] = "idle"
  BY DEF Init
<1> QED BY <1>6, <1>7, <1>8 DEF IInv, Exclusive, WorkInv

\* Where the jobs stay where they are, and find what they read and write as it was.
LEMMA FrameKeeps ==
  ASSUME IInv, FilesInv', UNCHANGED <<pc, local, quiet>>,
         runs' \in 0..MaxRuns, writes' \in 0..MaxWrites,
         \A j \in Job : pc[j] # "idle" => file'[local[j].from] = file[local[j].from] /\ Target(j)' = Target(j)
  PROVE  IInv'
<1>1. JobsInv' /\ Exclusive'
  BY DEF IInv, JobsInv, Exclusive
<1>2. WorkInv'
  BY DEF IInv, WorkInv
<1> QED BY <1>1, <1>2 DEF IInv

\* A job that begins.
LEMMA BeginKeeps ==
  ASSUME IInv, NEW j \in Job, NEW c \in Call \ {"idle"}, NEW l, Begin(j, c, l), UNCHANGED <<file, postgres>>,
         Good(c, l, TRUE, file[l.from], IF l.to = "postgres" THEN postgres ELSE file[l.to])
  PROVE  IInv'
<1>1. /\ pc[j] = "idle" /\ pc' = [pc EXCEPT ![j] = c] /\ local' = [local EXCEPT ![j] = l]
      /\ quiet' = [quiet EXCEPT ![j] = TRUE] /\ runs < MaxRuns /\ runs' = runs + 1 /\ writes' = writes
      /\ \A i \in Job : pc[i] # "idle" => l.to \notin {local[i].from, local[i].to} /\ l.from # local[i].to
  BY DEF Begin
<1>2. /\ pc \in [Job -> Call] /\ DOMAIN local = Job /\ quiet \in [Job -> BOOLEAN]
      /\ runs \in 0..MaxRuns /\ writes \in 0..MaxWrites /\ MaxRuns \in Nat
      /\ \A i \in Job : pc[i] = "idle" => local[i] = None
  BY MigrationAssumption DEF IInv, JobsInv
<1>3. pc'[j] = c /\ local'[j] = l /\ quiet'[j] = TRUE
  BY <1>1, <1>2
<1>4. \A i \in Job : i # j => pc'[i] = pc[i] /\ local'[i] = local[i] /\ quiet'[i] = quiet[i]
  BY <1>1, <1>2
<1>5. FilesInv'
  BY DEF IInv, FilesInv
<1>6. JobsInv'
  <2>1. /\ pc' \in [Job -> Call] /\ DOMAIN local' = Job /\ quiet' \in [Job -> BOOLEAN]
        /\ runs' \in 0..MaxRuns /\ writes' \in 0..MaxWrites
    BY <1>1, <1>2
  <2>2. \A i \in Job : pc'[i] = "idle" => local'[i] = None
    BY <1>2, <1>3, <1>4
  <2> QED BY <2>1, <2>2 DEF JobsInv
<1>7. Exclusive'
  BY <1>1, <1>3, <1>4 DEF IInv, Exclusive
<1>8. ASSUME NEW i \in Job, pc'[i] # "idle"
      PROVE  Good(pc'[i], local'[i], quiet'[i], file'[local'[i].from], Target(i)')
  <2>1. CASE i = j
    BY <1>3, <2>1 DEF Target
  <2>2. CASE i # j
    BY <1>4, <1>8, <2>2 DEF IInv, WorkInv, Target
  <2> QED BY <2>1, <2>2
<1> QED BY <1>5, <1>6, <1>7, <1>8 DEF IInv, WorkInv

\* A job at work writes to its target, or gives up, or is over.
LEMMA GoKeeps ==
  ASSUME IInv, NEW j \in Job, pc[j] # "idle", NEW c \in Call, NEW l, Go(j, c, l),
         FilesInv',
         \A f \in FileName : f # local[j].to => file'[f] = file[f],
         local[j].to # "postgres" => postgres' = postgres,
         c = "idle" => l = None,
         c # "idle" => /\ l.from = local[j].from /\ l.to = local[j].to
                       /\ Good(c, l, quiet[j], file[l.from],
                               IF l.to = "postgres" THEN postgres' ELSE file'[l.to])
  PROVE  IInv'
<1>1. /\ pc' = [pc EXCEPT ![j] = c] /\ local' = [local EXCEPT ![j] = l]
      /\ quiet' = quiet /\ runs' = runs /\ writes' = writes
  BY DEF Go
<1>2. /\ pc \in [Job -> Call] /\ DOMAIN local = Job
      /\ \A i \in Job : pc[i] = "idle" => local[i] = None
  BY DEF IInv, JobsInv
<1>3. pc'[j] = c /\ local'[j] = l
  BY <1>1, <1>2
<1>4. \A i \in Job : i # j => pc'[i] = pc[i] /\ local'[i] = local[i]
  BY <1>1, <1>2
<1>5. JobsInv'
  <2>1. pc' \in [Job -> Call] /\ DOMAIN local' = Job
    BY <1>1, <1>2
  <2>2. \A i \in Job : pc'[i] = "idle" => local'[i] = None
    BY <1>2, <1>3, <1>4
  <2> QED BY <1>1, <2>1, <2>2 DEF IInv, JobsInv
<1>6. Exclusive'
  BY <1>3, <1>4 DEF IInv, Exclusive
<1>7. \A i \in Job : pc[i] # "idle" =>
        /\ local[i].from \in FileName /\ local[i].from # local[i].to
        /\ local[i].to \in FileName \cup {"postgres"}
  BY DEF IInv, WorkInv, Good, FileName
<1>8. ASSUME NEW i \in Job, pc'[i] # "idle"
      PROVE  Good(pc'[i], local'[i], quiet'[i], file'[local'[i].from], Target(i)')
  <2>1. CASE i = j
    <3>1. file'[l.from] = file[l.from]
      BY <1>3, <1>7, <1>8, <2>1
    <3> QED BY <1>1, <1>3, <1>8, <2>1, <3>1 DEF Target
  <2>2. CASE i # j
    <3>1. pc[i] # "idle" /\ local[j].to # local[i].from /\ local[j].to # local[i].to
      BY <1>4, <1>8, <2>2 DEF IInv, Exclusive
    <3>2. file'[local[i].from] = file[local[i].from]
      BY <1>7, <3>1
    <3>3. (IF local[i].to = "postgres" THEN postgres' ELSE file'[local[i].to]) = Target(i)
      BY <1>7, <3>1 DEF Target
    <3>4. Good(pc[i], local[i], quiet[i], file[local[i].from], Target(i))
      BY <3>1 DEF IInv, WorkInv
    <3> QED BY <1>1, <1>4, <2>2, <3>2, <3>3, <3>4 DEF Target
  <2> QED BY <2>1, <2>2
<1> QED BY <1>5, <1>6, <1>8 DEF IInv, WorkInv

-----------------------------------------------------------------------------
(* The service and the operators.                                          *)

LEMMA StoreIsSound ==
  ASSUME IInv, NEW f \in FileName, IsStore(file[f])
  PROVE  Sound(file[f])
  BY DEF IInv, FilesInv

LEMMA SoundIsStore ==
  ASSUME NEW st, Sound(st) PROVE IsStore(st) /\ st \in Store
  BY NothingIsNoStore DEF Sound, IsStore

\* A file is replaced by a sound store, or by none.
LEMMA FileReplaced ==
  ASSUME IInv, NEW f \in FileName, NEW x, x \in {None, Blank} \/ Sound(x),
         file' = [file EXCEPT ![f] = x], UNCHANGED postgres
  PROVE  /\ FilesInv'
         /\ file'[f] = x
         /\ \A g \in FileName \ {f} : file'[g] = file[g]
<1>1. file \in [FileName -> Store \cup {None, Blank}]
  BY DEF IInv, FilesInv
<1>2. file'[f] = x /\ \A g \in FileName \ {f} : file'[g] = file[g]
  BY <1>1
<1>3. file' \in [FileName -> Store \cup {None, Blank}]
  BY <1>1 DEF Sound
<1>4. \A g \in FileName : IsStore(file'[g]) => Sound(file'[g])
  BY <1>2 DEF IInv, FilesInv, IsStore
<1> QED BY <1>2, <1>3, <1>4 DEF IInv, FilesInv

LEMMA ServiceWritesIInv ==
  ASSUME IInv, NEW f \in FileName, ServiceWrites(f)
  PROVE  IInv'
<1>1. /\ IsStore(file[f]) /\ writes < MaxWrites /\ writes' = writes + 1
      /\ \A j \in Job : pc[j] # "idle" => local[j].to # f
      /\ quiet' = [j \in Job |-> quiet[j] /\ ~(pc[j] # "idle" /\ local[j].from = f)]
      /\ UNCHANGED <<postgres, pc, local, runs>>
  BY DEF ServiceWrites
<1>2. PICK st \in AfterStoreCall(file[f]) : file' = [file EXCEPT ![f] = st]
  BY DEF ServiceWrites
<1>3. Sound(file[f])
  BY <1>1, StoreIsSound
<1>4. Sound(st) /\ Grows(file[f], st)
  BY <1>3, StoreCallGrows
<1>5. FilesInv' /\ file'[f] = st /\ \A g \in FileName \ {f} : file'[g] = file[g]
  BY <1>1, <1>2, <1>4, FileReplaced
<1>6. JobsInv'
  BY <1>1, MigrationAssumption DEF IInv, JobsInv
<1>7. Exclusive'
  BY <1>1 DEF IInv, Exclusive
<1>8. ASSUME NEW j \in Job, pc[j] # "idle"
      PROVE  Good(pc[j], local[j], quiet'[j], file'[local[j].from], Target(j)')
  <2>1. Good(pc[j], local[j], quiet[j], file[local[j].from], Target(j))
    BY <1>8 DEF IInv, WorkInv
  <2>2. local[j].from \in FileName /\ local[j].to \in FileName \cup {"postgres"} /\ local[j].to # f
    BY <1>1, <1>8, <2>1 DEF Good, FileName
  <2>3. Target(j)' = Target(j)
    BY <1>1, <1>5, <2>2 DEF Target
  <2>4. quiet[j] \in BOOLEAN
    BY DEF IInv, JobsInv
  <2>5. CASE local[j].from = f
    <3>1. quiet'[j] = FALSE
      BY <1>1, <1>8, <2>5
    <3>2. Good(pc[j], local[j], FALSE, st, Target(j))
      BY <1>4, <2>1, <2>5, GoodSurvivesGrowth
    <3> QED BY <1>5, <2>3, <2>5, <3>1, <3>2
  <2>6. CASE local[j].from # f
    <3>1. quiet'[j] = quiet[j]
      BY <1>1, <2>4, <2>6
    <3>2. file'[local[j].from] = file[local[j].from]
      BY <1>5, <2>2, <2>6
    <3> QED BY <2>1, <2>3, <3>1, <3>2
  <2> QED BY <2>5, <2>6
<1> QED BY <1>1, <1>5, <1>6, <1>7, <1>8 DEF IInv, WorkInv

LEMMA Places ==
  ASSUME IInv, NEW j \in Job, pc[j] # "idle"
  PROVE  /\ local[j].from \in FileName
         /\ local[j].to \in FileName \cup {"postgres"}
  BY DEF IInv, WorkInv, Good, FileName

LEMMA RemoveFileIInv ==
  ASSUME IInv, NEW f \in FileName, RemoveFile(f)
  PROVE  IInv'
<1>1. /\ FilesInv' /\ \A g \in FileName \ {f} : file'[g] = file[g]
  BY FileReplaced DEF RemoveFile
<1>2. ASSUME NEW j \in Job, pc[j] # "idle"
      PROVE  file'[local[j].from] = file[local[j].from] /\ Target(j)' = Target(j)
  BY <1>1, <1>2, Places DEF RemoveFile, Target
<1>3. UNCHANGED <<pc, local, quiet>> /\ runs' \in 0..MaxRuns /\ writes' \in 0..MaxWrites
  BY DEF RemoveFile, IInv, JobsInv
<1> QED BY <1>1, <1>2, <1>3, FrameKeeps

LEMMA ClearWorkspaceIInv ==
  ASSUME IInv, ClearWorkspace
  PROVE  IInv'
<1>1. FilesInv'
  BY EmptyIsSound DEF ClearWorkspace, IInv, FilesInv
<1>2. ASSUME NEW j \in Job, pc[j] # "idle"
      PROVE  file'[local[j].from] = file[local[j].from] /\ Target(j)' = Target(j)
  BY <1>2 DEF ClearWorkspace, Target
<1>3. UNCHANGED <<pc, local, quiet>> /\ runs' \in 0..MaxRuns /\ writes' \in 0..MaxWrites
  BY DEF ClearWorkspace, IInv, JobsInv
<1> QED BY <1>1, <1>2, <1>3, FrameKeeps

-----------------------------------------------------------------------------
(* The end of a job.                                                       *)

LEMMA StopKeeps ==
  ASSUME IInv, NEW j \in Job, pc[j] # "idle", Stop(j), FilesInv',
         \A f \in FileName : f # local[j].to => file'[f] = file[f],
         local[j].to # "postgres" => postgres' = postgres
  PROVE  IInv'
<1>1. Go(j, "idle", None) /\ "idle" \in Call
  BY DEF Stop, Call
<1> QED BY <1>1, GoKeeps

LEMMA ReportFinishedIInv ==
  ASSUME IInv, NEW j \in Job, ReportFinished(j)
  PROVE  IInv'
<1>1. pc[j] # "idle" /\ Stop(j) /\ UNCHANGED <<file, postgres>>
  BY DEF ReportFinished
<1>2. FilesInv'
  BY <1>1 DEF IInv, FilesInv
<1> QED BY <1>1, <1>2, StopKeeps

LEMMA DieIInv ==
  ASSUME IInv, NEW j \in Job, Die(j)
  PROVE  IInv'
<1>1. pc[j] # "idle" /\ Stop(j) /\ UNCHANGED postgres
  BY DEF Die
<1>2. CASE file' = file
  <2>1. FilesInv'
    BY <1>1, <1>2 DEF IInv, FilesInv
  <2> QED BY <1>1, <1>2, <2>1, StopKeeps
<1>3. CASE pc[j] = "copy" /\ file' = [file EXCEPT ![local[j].to] = Blank]
  <2>1. local[j].to \in FileName
    BY <1>1, <1>3 DEF IInv, WorkInv, Good, ImportGood, PostgresGood, FileName
  <2>2. FilesInv' /\ \A g \in FileName \ {local[j].to} : file'[g] = file[g]
    BY <1>1, <1>3, <2>1, FileReplaced
  <2> QED BY <1>1, <2>2, StopKeeps
<1> QED BY <1>2, <1>3 DEF Die

-----------------------------------------------------------------------------
(* Backup and restore.                                                     *)

LEMMA StartCopyIInv ==
  ASSUME IInv, NEW j \in Job, NEW from \in FileName, NEW to \in FileName, StartCopy(j, from, to)
  PROVE  IInv'
<1>1. PICK l : l = [from |-> from, to |-> to, counts |-> Counts(file[from])]
  OBVIOUS
<1>2. /\ <<from, to>> \in {<<"live", "snapshot">>, <<"snapshot", "restored">>}
      /\ IsStore(file[from]) /\ Begin(j, "copy", l) /\ UNCHANGED <<file, postgres>>
  BY <1>1 DEF StartCopy
<1>3. l.from = from /\ l.to = to /\ to \in {"snapshot", "restored"} /\ from # to
  BY <1>1, <1>2
<1>4. Sound(file[from])
  BY <1>2, StoreIsSound
<1>5. Good("copy", l, TRUE, file[l.from], IF l.to = "postgres" THEN postgres ELSE file[l.to])
  BY <1>3, <1>4 DEF Good, CopyGood
<1>6. "copy" \in Call \ {"idle"}
  BY DEF Call
<1> QED BY <1>2, <1>5, <1>6, BeginKeeps

LEMMA CopyPagesIInv ==
  ASSUME IInv, NEW j \in Job, CopyPages(j)
  PROVE  IInv'
<1>1. /\ pc[j] = "copy" /\ Go(j, "verify", local[j]) /\ UNCHANGED postgres
      /\ file' = [file EXCEPT ![local[j].to] = file[local[j].from]]
  BY DEF CopyPages
<1>2. Good("copy", local[j], quiet[j], file[local[j].from], Target(j))
  BY <1>1 DEF IInv, WorkInv
<1>3. local[j].to \in {"snapshot", "restored"} /\ local[j].from \in FileName /\ Sound(file[local[j].from])
  BY <1>2 DEF Good, ImportGood, PostgresGood
<1>4. local[j].to \in FileName
  BY <1>3 DEF FileName
<1>5. /\ FilesInv' /\ file'[local[j].to] = file[local[j].from]
      /\ \A g \in FileName \ {local[j].to} : file'[g] = file[g]
  BY <1>1, <1>3, <1>4, FileReplaced
<1>6. Good("verify", local[j], quiet[j], file[local[j].from], file'[local[j].to])
  BY <1>2, <1>3, <1>5 DEF Good, CopyGood
<1>7. "verify" \in Call
  BY DEF Call
<1> QED BY <1>1, <1>3, <1>5, <1>6, <1>7, GoKeeps

LEMMA VerifyCopyIInv ==
  ASSUME IInv, NEW j \in Job, VerifyCopy(j)
  PROVE  IInv'
<1>1. pc[j] = "verify" /\ UNCHANGED postgres
  BY DEF VerifyCopy
<1>2. Good("verify", local[j], quiet[j], file[local[j].from], Target(j))
  BY <1>1 DEF IInv, WorkInv
<1>3. local[j].to \in {"snapshot", "restored"} /\ local[j].to \in FileName
  BY <1>2 DEF Good, ImportGood, PostgresGood, FileName
<1>4. CASE Go(j, "finished", local[j]) /\ UNCHANGED file
  <2>1. FilesInv'
    BY <1>1, <1>4 DEF IInv, FilesInv
  <2>2. Good("finished", local[j], quiet[j], file[local[j].from], Target(j))
    BY <1>2, <1>3 DEF Good, CopyGood
  <2>3. "finished" \in Call
    BY DEF Call
  <2> QED BY <1>1, <1>3, <1>4, <2>1, <2>2, <2>3, GoKeeps DEF Target
<1>5. CASE file' = [file EXCEPT ![local[j].to] = None] /\ Stop(j)
  <2>1. FilesInv' /\ \A g \in FileName \ {local[j].to} : file'[g] = file[g]
    BY <1>1, <1>3, <1>5, FileReplaced
  <2> QED BY <1>1, <1>5, <2>1, StopKeeps
<1> QED BY <1>4, <1>5 DEF VerifyCopy

-----------------------------------------------------------------------------
(* The import of a snapshot.                                               *)

LEMMA StartImportIInv ==
  ASSUME IInv, NEW j \in Job, NEW from \in FileName, StartImport(j, from)
  PROVE  IInv'
<1>1. PICK l : l = [from |-> from, to |-> "namespaced"]
  OBVIOUS
<1>2. /\ from \in {"live", "snapshot", "restored"} /\ IsStore(file[from])
      /\ Begin(j, "read sources", l) /\ UNCHANGED <<file, postgres>>
  BY <1>1 DEF StartImport
<1>3. l.from = from /\ l.to = "namespaced" /\ from # "namespaced"
  BY <1>1, <1>2
<1>4. Sound(file[from])
  BY <1>2, StoreIsSound
<1>5. Good("read sources", l, TRUE, file[l.from], IF l.to = "postgres" THEN postgres ELSE file[l.to])
  BY <1>3, <1>4 DEF Good, ImportGood
<1>6. "read sources" \in Call \ {"idle"}
  BY DEF Call
<1> QED BY <1>2, <1>5, <1>6, BeginKeeps

\* What is known of an import at any call.
LEMMA AtImport ==
  ASSUME IInv, NEW j \in Job,
         pc[j] \in {"read sources", "initialize", "read observations", "read reviews", "read candidates",
                    "read attempts", "commit"}
  PROVE  /\ pc[j] # "idle"
         /\ local[j].to = "namespaced" /\ local[j].from \in FileName \ {"namespaced"}
         /\ Sound(file[local[j].from])
         /\ ImportGood(pc[j], local[j], quiet[j], file[local[j].from], file["namespaced"])
<1>1. Good(pc[j], local[j], quiet[j], file[local[j].from], Target(j))
  BY DEF IInv, WorkInv
<1>2. local[j].to = "namespaced"
  BY <1>1 DEF Good, CopyGood, PostgresGood
<1> QED BY <1>1, <1>2 DEF Good, Target

\* A step of the import that leaves the files alone.
LEMMA ImportGoKeeps ==
  ASSUME IInv, NEW j \in Job, NEW c \in Call \ {"idle"}, NEW l, Go(j, c, l), UNCHANGED <<file, postgres>>,
         pc[j] \in {"read sources", "initialize", "read observations", "read reviews", "read candidates",
                    "read attempts", "commit"},
         l.from = local[j].from, l.to = "namespaced",
         ImportGood(c, l, quiet[j], file[local[j].from], file["namespaced"])
  PROVE  IInv'
<1>1. /\ pc[j] # "idle" /\ local[j].to = "namespaced" /\ local[j].from \in FileName \ {"namespaced"}
      /\ Sound(file[local[j].from])
  BY AtImport
<1>2. Good(c, l, quiet[j], file[l.from], file'[l.to])
  BY <1>1 DEF Good
<1>3. FilesInv'
  BY DEF IInv, FilesInv
<1> QED BY <1>1, <1>2, <1>3, GoKeeps

\* A store with the sources and baselines alone.
OnlySources(ss, b) == [EmptyStore EXCEPT !.sources = ss, !.baseline = b]

LEMMA OnlySourcesFields ==
  ASSUME NEW ss \in SUBSET SourceId, NEW b \in [SourceId -> Observation \cup {None}], NEW st,
         st = OnlySources(ss, b)
  PROVE  /\ st \in Store
         /\ st.sources = ss /\ st.baseline = b
         /\ st.reviews = {} /\ st.candidates = {} /\ st.attempts = {}
<1>1. EmptyStore \in Store
  BY EmptyIsSound DEF Sound
<1>2. DOMAIN EmptyStore = {"sources", "baseline", "observations", "reviews", "candidates", "attempts"}
  BY DEF EmptyStore
<1> QED BY <1>1, <1>2 DEF OnlySources, Store, EmptyStore

\* The sources and baselines of one state of the file.
LEMMA SourcesAndBaselines ==
  ASSUME NEW F, Sound(F), NEW b, b = [s \in SourceId |-> IF s \in Selected THEN F.baseline[s] ELSE None]
  PROVE  /\ b \in [SourceId -> Observation \cup {None}]
         /\ BaselinesAhead(b, F)
         /\ \A s \in SourceId \ (F.sources \cap Selected) : b[s] = None
         /\ b = Selection(F, Selected).baseline
         /\ F.sources \cap Selected = Selection(F, Selected).sources
<1>1. F.baseline \in [SourceId -> Observation \cup {None}] /\ F.sources \in SUBSET SourceId
  BY StoreFields DEF Sound
<1>2. \A s \in SourceId \ F.sources : F.baseline[s] = None
  BY NoSourceNoRows
<1>3. BaselinesAhead(b, F)
  BY <1>1 DEF BaselinesAhead, Sound, Closed
<1> QED BY <1>1, <1>2, <1>3 DEF Selection

LEMMA ReadSourcesIInv ==
  ASSUME IInv, NEW j \in Job, ReadSources(j)
  PROVE  IInv'
<1>1. pc[j] = "read sources" /\ UNCHANGED <<file, postgres>>
  BY DEF ReadSources
<1>2. /\ local[j].to = "namespaced" /\ local[j].from \in FileName \ {"namespaced"}
      /\ Sound(file[local[j].from])
  BY <1>1, AtImport
<1>3. PICK F : F = file[local[j].from]
  OBVIOUS
<1>4. PICK b : b = [s \in SourceId |-> IF s \in Selected THEN F.baseline[s] ELSE None]
  OBVIOUS
<1>5. PICK st : st = OnlySources(F.sources \cap Selected, b)
  OBVIOUS
<1>6. PICK l : l = [from |-> local[j].from, to |-> "namespaced", copy |-> st]
  OBVIOUS
<1>7. Go(j, "initialize", l)
  BY <1>3, <1>4, <1>5, <1>6 DEF ReadSources, OnlySources
<1>8. /\ b \in [SourceId -> Observation \cup {None}]
      /\ BaselinesAhead(b, F)
      /\ \A s \in SourceId \ (F.sources \cap Selected) : b[s] = None
      /\ b = Selection(F, Selected).baseline
      /\ F.sources \cap Selected = Selection(F, Selected).sources
  BY <1>2, <1>3, <1>4, SourcesAndBaselines
<1>9. F.sources \cap Selected \in SUBSET SourceId
  BY MigrationAssumption
<1>10. PICK ss \in SUBSET SourceId : ss = F.sources \cap Selected
  BY <1>9
<1>11. st = OnlySources(ss, b)
  BY <1>5, <1>10
<1>12. /\ st \in Store /\ st.sources = F.sources \cap Selected /\ st.baseline = b
       /\ st.reviews = {} /\ st.candidates = {} /\ st.attempts = {}
  BY <1>8, <1>10, <1>11, OnlySourcesFields
<1>13. l \in ImportWork /\ l.from = local[j].from /\ l.to = "namespaced" /\ l.copy = st
  BY <1>2, <1>6, <1>12 DEF ImportWork
<1>14. ImportGood("initialize", l, quiet[j], F, file["namespaced"])
  BY <1>8, <1>12, <1>13 DEF ImportGood, SourcesRead
<1>15. "initialize" \in Call \ {"idle"}
  BY DEF Call
<1> QED BY <1>1, <1>3, <1>7, <1>13, <1>14, <1>15, ImportGoKeeps

LEMMA InitializeTargetIInv ==
  ASSUME IInv, NEW j \in Job, InitializeTarget(j)
  PROVE  IInv'
<1>1. /\ pc[j] = "initialize" /\ file' = [file EXCEPT !["namespaced"] = EmptyStore]
      /\ Go(j, "read observations", local[j]) /\ UNCHANGED postgres
  BY DEF InitializeTarget
<1>2. /\ pc[j] # "idle" /\ local[j].to = "namespaced" /\ local[j].from \in FileName \ {"namespaced"}
      /\ Sound(file[local[j].from])
      /\ ImportGood("initialize", local[j], quiet[j], file[local[j].from], file["namespaced"])
  BY <1>1, AtImport
<1>3. FilesInv' /\ \A g \in FileName \ {"namespaced"} : file'[g] = file[g]
  BY <1>1, EmptyIsSound, FileReplaced DEF FileName
<1>4. ImportGood("read observations", local[j], quiet[j], file[local[j].from], file'["namespaced"])
  BY <1>2 DEF ImportGood
<1>5. Good("read observations", local[j], quiet[j], file[local[j].from], file'["namespaced"])
  BY <1>2, <1>4 DEF Good
<1>6. "read observations" \in Call
  BY DEF Call
<1> QED BY <1>1, <1>2, <1>3, <1>5, <1>6, GoKeeps

\* The copy in hand, after a table has been read into it.
LEMMA CopyReplaced ==
  ASSUME NEW l \in ImportWork, NEW st \in Store, NEW nl, nl = [l EXCEPT !.copy = st]
  PROVE  nl \in ImportWork /\ nl.from = l.from /\ nl.to = "namespaced" /\ nl.copy = st
  BY DEF ImportWork

LEMMA SelectionFields ==
  ASSUME NEW F, Sound(F)
  PROVE  /\ Selection(F, Selected) \in Store
         /\ Selection(F, Selected).sources = F.sources \cap Selected
         /\ Selection(F, Selected).observations
              = [s \in SourceId |-> IF s \in Selected THEN F.observations[s] ELSE << >>]
         /\ \A o : o \in Ids(Selection(F, Selected)) <=> \E s \in Selected : o \in ToSet(F.observations[s])
         /\ Selection(F, Selected).reviews = F.reviews \cap Ids(Selection(F, Selected))
         /\ Selection(F, Selected).candidates = F.candidates \cap Ids(Selection(F, Selected))
         /\ Selection(F, Selected).attempts = F.attempts \cap Ids(Selection(F, Selected))
<1>1. F \in Store
  BY DEF Sound
<1>2. PICK ids : ids = UNION {ToSet(F.observations[s]) : s \in Selected}
  OBVIOUS
<1>3. PICK N : N = Selection(F, Selected)
  OBVIOUS
<1>4. /\ N.sources = F.sources \cap Selected
      /\ N.baseline = [s \in SourceId |-> IF s \in Selected THEN F.baseline[s] ELSE None]
      /\ N.observations = [s \in SourceId |-> IF s \in Selected THEN F.observations[s] ELSE << >>]
      /\ N.reviews = F.reviews \cap ids /\ N.candidates = F.candidates \cap ids
      /\ N.attempts = F.attempts \cap ids
      /\ N = [sources |-> N.sources, baseline |-> N.baseline, observations |-> N.observations,
              reviews |-> N.reviews, candidates |-> N.candidates, attempts |-> N.attempts]
  BY <1>2, <1>3 DEF Selection
<1>5. \A o : o \in Ids(N) <=> o \in ids
  <2>1. ASSUME NEW o, o \in Ids(N) PROVE o \in ids
    <3>1. PICK s \in SourceId : o \in ToSet(N.observations[s])
      BY <2>1, IdsOf
    <3>2. s \in Selected /\ N.observations[s] = F.observations[s]
      BY <1>4, <3>1, NoElements
    <3> QED BY <1>2, <3>1, <3>2
  <2>2. ASSUME NEW o, o \in ids PROVE o \in Ids(N)
    <3>1. PICK s \in Selected : o \in ToSet(F.observations[s])
      BY <1>2, <2>2
    <3>2. s \in SourceId /\ N.observations[s] = F.observations[s]
      BY <1>4, MigrationAssumption
    <3> QED BY <3>1, <3>2, IdsOf
  <2> QED BY <2>1, <2>2
<1>6. N \in Store
  <2>1. /\ N.sources \in SUBSET SourceId
        /\ N.reviews \in SUBSET Observation /\ N.candidates \in SUBSET Observation
        /\ N.attempts \in SUBSET Observation
    BY <1>1, <1>4, StoreFields
  <2>2. N.baseline \in [SourceId -> Observation \cup {None}]
    BY <1>1, <1>4, StoreFields
  <2>3. N.observations \in [SourceId -> Seq(Observation)]
    BY <1>1, <1>4, StoreFields, EmptySeq
  <2> QED BY <1>4, <2>1, <2>2, <2>3 DEF Store
<1>7. Ids(N) = ids
  BY <1>5
<1> QED BY <1>2, <1>3, <1>4, <1>6, <1>7

\* The observations of some sources of a store, without what refers to them.
LEMMA SomeObservations ==
  ASSUME NEW F, Sound(F), NEW st \in Store, st.sources \subseteq SourceId,
         st.observations = [s \in SourceId |-> IF s \in st.sources THEN F.observations[s] ELSE << >>],
         BaselinesAhead(st.baseline, F),
         \A s \in SourceId \ st.sources : st.baseline[s] = None,
         st.reviews = {}, st.candidates = {}, st.attempts = {}
  PROVE  Sound(st)
<1>1. \A s \in st.sources : st.observations[s] = F.observations[s]
  OBVIOUS
<1>2. \A s \in SourceId \ st.sources : st.observations[s] = << >>
  OBVIOUS
<1>3. Unique(st)
  <2>1. ASSUME NEW s \in SourceId, NEW i \in DOMAIN st.observations[s] PROVE s \in st.sources
    <3>1. DOMAIN << >> = {}
      OBVIOUS
    <3> QED BY <1>2, <2>1, <3>1
  <2> QED BY <1>1, <2>1 DEF Unique, Sound
<1>4. Closed(st)
  BY <1>1, <1>2 DEF Closed, BaselinesAhead
<1> QED BY <1>3, <1>4 DEF Sound

LEMMA ReadObservationsIInv ==
  ASSUME IInv, NEW j \in Job, ReadObservations(j)
  PROVE  IInv'
<1>1. pc[j] = "read observations" /\ UNCHANGED <<file, postgres>>
  BY DEF ReadObservations
<1>2. PICK F : F = file[local[j].from]
  OBVIOUS
<1>3. PICK l : l = local[j]
  OBVIOUS
<1>4. /\ l.to = "namespaced" /\ Sound(F) /\ l \in ImportWork
      /\ BaselinesAhead(l.copy.baseline, F)
      /\ \A s \in SourceId \ l.copy.sources : l.copy.baseline[s] = None
      /\ l.copy.reviews = {} /\ l.copy.candidates = {} /\ l.copy.attempts = {}
      /\ quiet[j] => SourcesRead(l.copy, F)
  BY <1>1, <1>2, <1>3, AtImport DEF ImportGood
<1>5. l.copy \in Store /\ l.copy.sources \subseteq SourceId
  BY <1>4, StoreFields DEF ImportWork
<1>6. PICK obs : obs = [s \in SourceId |-> IF s \in l.copy.sources THEN F.observations[s] ELSE << >>]
  OBVIOUS
<1>7. PICK st : st = [l.copy EXCEPT !.observations = obs]
  OBVIOUS
<1>8. PICK nl : nl = [l EXCEPT !.copy = st]
  OBVIOUS
<1>9. Go(j, "read reviews", nl)
  <2>1. nl = [l EXCEPT !.copy.observations = obs]
    BY <1>7, <1>8
  <2> QED BY <1>2, <1>3, <1>6, <2>1 DEF ReadObservations
<1>10. obs \in [SourceId -> Seq(Observation)]
  BY <1>4, <1>6, StoreFields, EmptySeq DEF Sound
<1>11. /\ st \in Store /\ st.sources = l.copy.sources /\ st.baseline = l.copy.baseline
       /\ st.observations = obs /\ st.reviews = {} /\ st.candidates = {} /\ st.attempts = {}
  BY <1>4, <1>5, <1>7, <1>10 DEF Store
<1>12. nl \in ImportWork /\ nl.from = l.from /\ nl.to = "namespaced" /\ nl.copy = st
  BY <1>4, <1>8, <1>11, CopyReplaced
<1>13. Sound(st)
  BY <1>4, <1>5, <1>6, <1>11, SomeObservations
<1>14. quiet[j] => SourcesRead(st, F) /\ obs = Selection(F, Selected).observations
  <2>1. \A s \in SourceId \ F.sources : F.observations[s] = << >>
    BY <1>4, NoSourceNoRows
  <2>2. Selection(F, Selected).observations
          = [s \in SourceId |-> IF s \in Selected THEN F.observations[s] ELSE << >>]
    BY <1>4, SelectionFields
  <2> QED BY <1>4, <1>6, <1>11, <2>1, <2>2 DEF SourcesRead
<1>15. ImportGood("read reviews", nl, quiet[j], F, file["namespaced"])
  BY <1>11, <1>12, <1>13, <1>14 DEF ImportGood
<1>16. "read reviews" \in Call \ {"idle"}
  BY DEF Call
<1> QED BY <1>1, <1>2, <1>3, <1>9, <1>12, <1>15, <1>16, ImportGoKeeps

\* A foreign key has refused a row.
LEMMA ImportFailsIInv ==
  ASSUME IInv, NEW j \in Job, ImportFails(j), UNCHANGED postgres,
         pc[j] \in {"read reviews", "read candidates", "read attempts"}
  PROVE  IInv'
<1>1. pc[j] # "idle" /\ local[j].to = "namespaced"
  BY AtImport
<1>2. FilesInv' /\ \A g \in FileName \ {"namespaced"} : file'[g] = file[g]
  BY FileReplaced DEF ImportFails, FileName
<1> QED BY <1>1, <1>2, StopKeeps DEF ImportFails

\* While nobody writes, the rows read are those of the selection.
LEMMA RowsReadAreSelected ==
  ASSUME NEW j \in Job, NEW F, F = file[local[j].from], Sound(F), NEW rows,
         SourcesRead(local[j].copy, F)
  PROVE  RowsRead(j, rows) = rows \cap Ids(Selection(F, Selected))
<1>1. local[j].copy.sources = F.sources \cap Selected
  BY DEF SourcesRead
<1>2. \A s \in SourceId \ F.sources : ToSet(F.observations[s]) = {}
  BY NoSourceNoRows, NoElements
<1>3. \A o : (\E s \in F.sources \cap Selected : o \in ToSet(F.observations[s]))
               <=> \E s \in Selected : o \in ToSet(F.observations[s])
  BY <1>2, MigrationAssumption
<1>4. \A o : o \in Ids(Selection(F, Selected)) <=> \E s \in Selected : o \in ToSet(F.observations[s])
  BY SelectionFields
<1> QED BY <1>1, <1>3, <1>4 DEF RowsRead

LEMMA ReadReviewsIInv ==
  ASSUME IInv, NEW j \in Job, ReadReviews(j)
  PROVE  IInv'
<1>1. pc[j] = "read reviews" /\ UNCHANGED postgres
  BY DEF ReadReviews
<1>2. PICK F : F = file[local[j].from]
  OBVIOUS
<1>3. PICK l : l = local[j]
  OBVIOUS
<1>4. /\ l.to = "namespaced" /\ Sound(F) /\ l \in ImportWork /\ Sound(l.copy)
      /\ l.copy.attempts = {} /\ l.copy.candidates = {}
      /\ quiet[j] => SourcesRead(l.copy, F) /\ l.copy.observations = Selection(F, Selected).observations
  BY <1>1, <1>2, <1>3, AtImport DEF ImportGood
<1>5. PICK read : read = RowsRead(j, F.reviews)
  OBVIOUS
<1>6. CASE ImportFails(j)
  BY <1>1, <1>6, ImportFailsIInv
<1>7. CASE /\ read \subseteq Ids(l.copy)
           /\ Go(j, "read candidates", [l EXCEPT !.copy.reviews = read])
           /\ UNCHANGED file
  <2>1. PICK st : st = [l.copy EXCEPT !.reviews = read]
    OBVIOUS
  <2>2. PICK nl : nl = [l EXCEPT !.copy = st]
    OBVIOUS
  <2>3. Go(j, "read candidates", nl)
    <3>1. nl = [l EXCEPT !.copy.reviews = read]
      BY <2>1, <2>2
    <3> QED BY <1>7, <3>1
  <2>4. l.copy \in Store /\ read \subseteq Observation
    BY <1>4, <1>5, StoreFields DEF Sound, RowsRead
  <2>5. /\ st \in Store /\ st.sources = l.copy.sources /\ st.baseline = l.copy.baseline
        /\ st.observations = l.copy.observations /\ st.reviews = read
        /\ st.candidates = l.copy.candidates /\ st.attempts = l.copy.attempts
    BY <2>1, <2>4 DEF Store
  <2>6. Sound(st)
    <3>1. l.copy.reviews \cup l.copy.candidates \subseteq Ids(l.copy)
      BY <1>4 DEF Sound, Closed
    <3> QED BY <1>4, <1>7, <2>5, <3>1, TablesReplaced
  <2>7. nl \in ImportWork /\ nl.from = l.from /\ nl.to = "namespaced" /\ nl.copy = st
    BY <1>4, <2>2, <2>5, CopyReplaced
  <2>8. quiet[j] => /\ SourcesRead(st, F) /\ st.observations = Selection(F, Selected).observations
                    /\ read = Selection(F, Selected).reviews
    <3>1. quiet[j] => RowsRead(j, F.reviews) = F.reviews \cap Ids(Selection(F, Selected))
      BY <1>2, <1>3, <1>4, RowsReadAreSelected
    <3>2. Selection(F, Selected).reviews = F.reviews \cap Ids(Selection(F, Selected))
      BY <1>4, SelectionFields
    <3> QED BY <1>4, <1>5, <2>5, <3>1, <3>2 DEF SourcesRead
  <2>9. ImportGood("read candidates", nl, quiet[j], F, file["namespaced"])
    BY <1>4, <2>5, <2>6, <2>7, <2>8 DEF ImportGood
  <2>10. "read candidates" \in Call \ {"idle"}
    BY DEF Call
  <2> QED BY <1>1, <1>2, <1>3, <1>7, <2>3, <2>7, <2>9, <2>10, ImportGoKeeps
<1> QED BY <1>1, <1>2, <1>3, <1>5, <1>6, <1>7 DEF ReadReviews

LEMMA ReadCandidatesIInv ==
  ASSUME IInv, NEW j \in Job, ReadCandidates(j)
  PROVE  IInv'
<1>1. pc[j] = "read candidates" /\ UNCHANGED postgres
  BY DEF ReadCandidates
<1>2. PICK F : F = file[local[j].from]
  OBVIOUS
<1>3. PICK l : l = local[j]
  OBVIOUS
<1>4. /\ l.to = "namespaced" /\ Sound(F) /\ l \in ImportWork /\ Sound(l.copy)
      /\ l.copy.attempts = {} /\ l.copy.candidates = {}
      /\ quiet[j] => SourcesRead(l.copy, F) /\ l.copy.observations = Selection(F, Selected).observations
                   /\ l.copy.reviews = Selection(F, Selected).reviews
  BY <1>1, <1>2, <1>3, AtImport DEF ImportGood
<1>5. PICK read : read = RowsRead(j, F.candidates)
  OBVIOUS
<1>6. CASE ImportFails(j)
  BY <1>1, <1>6, ImportFailsIInv
<1>7. CASE /\ read \subseteq Ids(l.copy)
           /\ Go(j, "read attempts", [l EXCEPT !.copy.candidates = read])
           /\ UNCHANGED file
  <2>1. PICK st : st = [l.copy EXCEPT !.candidates = read]
    OBVIOUS
  <2>2. PICK nl : nl = [l EXCEPT !.copy = st]
    OBVIOUS
  <2>3. Go(j, "read attempts", nl)
    <3>1. nl = [l EXCEPT !.copy.candidates = read]
      BY <2>1, <2>2
    <3> QED BY <1>7, <3>1
  <2>4. l.copy \in Store /\ read \subseteq Observation
    BY <1>4, <1>5, StoreFields DEF Sound, RowsRead
  <2>5. /\ st \in Store /\ st.sources = l.copy.sources /\ st.baseline = l.copy.baseline
        /\ st.observations = l.copy.observations /\ st.reviews = l.copy.reviews
        /\ st.candidates = read /\ st.attempts = l.copy.attempts
    BY <2>1, <2>4 DEF Store
  <2>6. Sound(st)
    <3>1. l.copy.reviews \cup l.copy.candidates \subseteq Ids(l.copy)
      BY <1>4 DEF Sound, Closed
    <3> QED BY <1>4, <1>7, <2>5, <3>1, TablesReplaced
  <2>7. nl \in ImportWork /\ nl.from = l.from /\ nl.to = "namespaced" /\ nl.copy = st
    BY <1>4, <2>2, <2>5, CopyReplaced
  <2>8. quiet[j] => /\ SourcesRead(st, F) /\ st.observations = Selection(F, Selected).observations
                    /\ read = Selection(F, Selected).candidates
    <3>1. quiet[j] => RowsRead(j, F.candidates) = F.candidates \cap Ids(Selection(F, Selected))
      BY <1>2, <1>3, <1>4, RowsReadAreSelected
    <3>2. Selection(F, Selected).candidates = F.candidates \cap Ids(Selection(F, Selected))
      BY <1>4, SelectionFields
    <3> QED BY <1>4, <1>5, <2>5, <3>1, <3>2 DEF SourcesRead
  <2>9. ImportGood("read attempts", nl, quiet[j], F, file["namespaced"])
    BY <1>4, <2>5, <2>6, <2>7, <2>8 DEF ImportGood
  <2>10. "read attempts" \in Call \ {"idle"}
    BY DEF Call
  <2> QED BY <1>1, <1>2, <1>3, <1>7, <2>3, <2>7, <2>9, <2>10, ImportGoKeeps
<1> QED BY <1>1, <1>2, <1>3, <1>5, <1>6, <1>7 DEF ReadCandidates

LEMMA ReadAttemptsIInv ==
  ASSUME IInv, NEW j \in Job, ReadAttempts(j)
  PROVE  IInv'
<1>1. pc[j] = "read attempts" /\ UNCHANGED postgres
  BY DEF ReadAttempts
<1>2. PICK F : F = file[local[j].from]
  OBVIOUS
<1>3. PICK l : l = local[j]
  OBVIOUS
<1>4. /\ l.to = "namespaced" /\ Sound(F) /\ l \in ImportWork /\ Sound(l.copy)
      /\ l.copy.attempts = {}
      /\ quiet[j] => SourcesRead(l.copy, F) /\ l.copy.observations = Selection(F, Selected).observations
                   /\ l.copy.reviews = Selection(F, Selected).reviews
                   /\ l.copy.candidates = Selection(F, Selected).candidates
  BY <1>1, <1>2, <1>3, AtImport DEF ImportGood
<1>5. PICK read : read = RowsRead(j, F.attempts)
  OBVIOUS
<1>6. CASE ImportFails(j)
  BY <1>1, <1>6, ImportFailsIInv
<1>7. CASE /\ read \subseteq l.copy.candidates
           /\ Go(j, "commit", [l EXCEPT !.copy.attempts = read])
           /\ UNCHANGED file
  <2>1. PICK st : st = [l.copy EXCEPT !.attempts = read]
    OBVIOUS
  <2>2. PICK nl : nl = [l EXCEPT !.copy = st]
    OBVIOUS
  <2>3. Go(j, "commit", nl)
    <3>1. nl = [l EXCEPT !.copy.attempts = read]
      BY <2>1, <2>2
    <3> QED BY <1>7, <3>1
  <2>4. l.copy \in Store /\ read \subseteq Observation
    BY <1>4, <1>5, StoreFields DEF Sound, RowsRead
  <2>5. /\ st \in Store /\ st.sources = l.copy.sources /\ st.baseline = l.copy.baseline
        /\ st.observations = l.copy.observations /\ st.reviews = l.copy.reviews
        /\ st.candidates = l.copy.candidates /\ st.attempts = read
    BY <2>1, <2>4 DEF Store
  <2>6. Sound(st)
    <3>1. l.copy.reviews \cup l.copy.candidates \subseteq Ids(l.copy)
      BY <1>4 DEF Sound, Closed
    <3> QED BY <1>4, <1>7, <2>5, <3>1, TablesReplaced
  <2>7. nl \in ImportWork /\ nl.from = l.from /\ nl.to = "namespaced" /\ nl.copy = st
    BY <1>4, <2>2, <2>5, CopyReplaced
  <2>8. quiet[j] => /\ SourcesRead(st, F) /\ st.observations = Selection(F, Selected).observations
                    /\ read = Selection(F, Selected).attempts
    <3>1. quiet[j] => RowsRead(j, F.attempts) = F.attempts \cap Ids(Selection(F, Selected))
      BY <1>2, <1>3, <1>4, RowsReadAreSelected
    <3>2. Selection(F, Selected).attempts = F.attempts \cap Ids(Selection(F, Selected))
      BY <1>4, SelectionFields
    <3> QED BY <1>4, <1>5, <2>5, <3>1, <3>2 DEF SourcesRead
  <2>9. quiet[j] => st = Selection(F, Selected)
    <3>1. PICK sel : sel = Selection(F, Selected)
      OBVIOUS
    <3>2. sel \in Store /\ sel.sources = F.sources \cap Selected
      BY <1>4, <3>1, SelectionFields
    <3> SUFFICES ASSUME quiet[j] PROVE st = sel
      BY <3>1
    <3>3. /\ st.sources = F.sources \cap Selected /\ st.baseline = sel.baseline
          /\ st.observations = sel.observations
      BY <2>8, <3>1 DEF SourcesRead
    <3>4. st.reviews = sel.reviews /\ st.candidates = sel.candidates /\ st.attempts = sel.attempts
      BY <1>4, <2>5, <2>8, <3>1
    <3> QED BY <2>5, <3>2, <3>3, <3>4, SameTables
  <2>10. ImportGood("commit", nl, quiet[j], F, file["namespaced"])
    BY <1>4, <2>5, <2>6, <2>7, <2>8, <2>9 DEF ImportGood
  <2>11. "commit" \in Call \ {"idle"}
    BY DEF Call
  <2> QED BY <1>1, <1>2, <1>3, <1>7, <2>3, <2>7, <2>10, <2>11, ImportGoKeeps
<1> QED BY <1>1, <1>2, <1>3, <1>5, <1>6, <1>7 DEF ReadAttempts

LEMMA CommitImportIInv ==
  ASSUME IInv, NEW j \in Job, CommitImport(j)
  PROVE  IInv'
<1>1. /\ pc[j] = "commit" /\ file' = [file EXCEPT !["namespaced"] = local[j].copy]
      /\ Go(j, "finished", local[j]) /\ UNCHANGED postgres
  BY DEF CommitImport
<1>2. /\ pc[j] # "idle" /\ local[j].to = "namespaced" /\ local[j].from \in FileName \ {"namespaced"}
      /\ Sound(file[local[j].from])
      /\ ImportGood("commit", local[j], quiet[j], file[local[j].from], file["namespaced"])
  BY <1>1, AtImport
<1>3. Sound(local[j].copy)
  BY <1>2 DEF ImportGood
<1>4. /\ FilesInv' /\ file'["namespaced"] = local[j].copy
      /\ \A g \in FileName \ {"namespaced"} : file'[g] = file[g]
  BY <1>1, <1>3, FileReplaced DEF FileName
<1>5. ImportGood("finished", local[j], quiet[j], file[local[j].from], file'["namespaced"])
  BY <1>2, <1>4 DEF ImportGood
<1>6. Good("finished", local[j], quiet[j], file[local[j].from], file'["namespaced"])
  BY <1>2, <1>5 DEF Good
<1>7. "finished" \in Call
  BY DEF Call
<1> QED BY <1>1, <1>2, <1>4, <1>6, <1>7, GoKeeps

-----------------------------------------------------------------------------
(* The import into Postgres.                                               *)

PostgresCall == {"list sources", "list candidates", "get baselines", "upsert source", "list observations",
                 "save observation", "copy review", "list attempts", "create attempt"}

LEMMA AtPostgres ==
  ASSUME IInv, NEW j \in Job, pc[j] \in PostgresCall
  PROVE  /\ pc[j] # "idle" /\ pc[j] # "finished"
         /\ local[j].to = "postgres" /\ local[j].from = "namespaced"
         /\ Sound(file["namespaced"]) /\ Sound(postgres)
         /\ PostgresGood(pc[j], local[j], quiet[j], file["namespaced"], postgres)
         /\ pc[j] # "list sources" => local[j] \in PostgresWork
         /\ quiet[j] \in BOOLEAN
<1>1. pc[j] # "idle" /\ pc[j] # "finished"
  BY DEF PostgresCall
<1>2. Good(pc[j], local[j], quiet[j], file[local[j].from], Target(j))
  BY <1>1 DEF IInv, WorkInv
<1>3. local[j].to = "postgres" /\ local[j].from = "namespaced"
  BY <1>2 DEF Good, CopyGood, ImportGood, PostgresCall
<1>4. Sound(file["namespaced"]) /\ PostgresGood(pc[j], local[j], quiet[j], file["namespaced"], postgres)
  BY <1>2, <1>3 DEF Good, Target
<1>5. quiet[j] \in BOOLEAN /\ Sound(postgres)
  BY DEF IInv, JobsInv, FilesInv
<1> QED BY <1>1, <1>3, <1>4, <1>5 DEF PostgresGood

LEMMA PostgresGoKeeps ==
  ASSUME IInv, NEW j \in Job, pc[j] \in PostgresCall, NEW c \in Call \ {"idle"}, NEW l, Go(j, c, l),
         UNCHANGED file, Sound(postgres'), l.from = "namespaced", l.to = "postgres",
         PostgresGood(c, l, quiet[j], file["namespaced"], postgres')
  PROVE  IInv'
<1>1. /\ pc[j] # "idle" /\ local[j].to = "postgres" /\ local[j].from = "namespaced"
      /\ Sound(file["namespaced"])
  BY AtPostgres
<1>2. Good(c, l, quiet[j], file[l.from], postgres')
  BY <1>1 DEF Good, FileName
<1>3. FilesInv'
  BY DEF IInv, FilesInv
<1> QED BY <1>1, <1>2, <1>3, GoKeeps

PostgresReady(c, l, q, F, T) ==
  l \in PostgresWork /\ Sound(T) /\ PostgresGood(c, l, q, F, T)

LEMMA PostgresReadyKeeps ==
  ASSUME IInv, NEW j \in Job, pc[j] \in PostgresCall, NEW c \in Call \ {"idle"}, NEW l, Go(j, c, l),
         UNCHANGED file, PostgresReady(c, l, quiet[j], file["namespaced"], postgres')
  PROVE  IInv'
<1>1. l.from = "namespaced" /\ l.to = "postgres"
  BY DEF PostgresReady, PostgresWork
<1> QED BY <1>1, PostgresGoKeeps DEF PostgresReady

LEMMA PostgresStopKeeps ==
  ASSUME IInv, NEW j \in Job, pc[j] \in PostgresCall, Stop(j), UNCHANGED <<file, postgres>>
  PROVE  IInv'
<1>1. FilesInv' /\ pc[j] # "idle"
  BY AtPostgres DEF IInv, FilesInv
<1> QED BY <1>1, StopKeeps

LEMMA WorkFields ==
  ASSUME NEW l \in PostgresWork
  PROVE  /\ l.from = "namespaced" /\ l.to = "postgres"
         /\ l.had \in SUBSET SourceId /\ l.sources \in SUBSET SourceId
         /\ l.candidates \in SUBSET Observation
         /\ l.baseline \in [SourceId -> Observation \cup {None}]
         /\ l.unread \in SUBSET SourceId /\ l.source \in SourceId \cup {None}
         /\ l.observations \in Seq(Observation) /\ l.attempts \in SUBSET Observation
  BY DEF PostgresWork

LEMMA CheckEmptyIInv ==
  ASSUME IInv, NEW j \in Job, CheckEmpty(j)
  PROVE  IInv'
<1>1. PICK F : F = file["namespaced"]
  OBVIOUS
<1>2. PICK l : l = [from |-> "namespaced", to |-> "postgres", had |-> {s \in SourceId : F.baseline[s] # None}]
  OBVIOUS
<1>3. /\ IsStore(F) /\ postgres.sources = {} /\ Begin(j, "list sources", l) /\ UNCHANGED <<file, postgres>>
  BY <1>1, <1>2 DEF CheckEmpty
<1>4. l.from = "namespaced" /\ l.to = "postgres" /\ l.had = {s \in SourceId : F.baseline[s] # None}
  BY <1>2
<1>5. Sound(F)
  BY <1>1, <1>3, StoreIsSound DEF FileName
<1>6. postgres = EmptyStore
  BY <1>3, NoSourcesNoRows DEF IInv, FilesInv
<1>7. PostgresGood("list sources", l, TRUE, F, postgres)
  BY <1>4, <1>6 DEF PostgresGood, Reading
<1>8. Good("list sources", l, TRUE, file[l.from], IF l.to = "postgres" THEN postgres ELSE file[l.to])
  BY <1>1, <1>4, <1>5, <1>7 DEF Good, FileName
<1>9. "list sources" \in Call \ {"idle"}
  BY DEF Call
<1> QED BY <1>3, <1>8, <1>9, BeginKeeps

LEMMA ListSourcesIInv ==
  ASSUME IInv, NEW j \in Job, ListSources(j)
  PROVE  IInv'
<1>1. pc[j] = "list sources" /\ UNCHANGED <<file, postgres>>
  BY DEF ListSources
<1>2. PICK F : F = file["namespaced"]
  OBVIOUS
<1>3. PICK had : had = local[j].had
  OBVIOUS
<1>4. /\ pc[j] \in PostgresCall /\ Sound(F) /\ Sound(postgres) /\ had \subseteq SourceId
      /\ postgres = EmptyStore /\ \A s \in had : F.baseline[s] # None
  <2>1. pc[j] \in PostgresCall
    BY <1>1 DEF PostgresCall
  <2> QED BY <1>1, <1>2, <1>3, <2>1, AtPostgres DEF PostgresGood, Reading
<1>5. PICK none : none = [s \in SourceId |-> None]
  OBVIOUS
<1>6. PICK l : l = [from |-> "namespaced", to |-> "postgres", had |-> had,
                    sources |-> F.sources, candidates |-> {}, baseline |-> none,
                    unread |-> F.sources, source |-> None, observations |-> << >>, attempts |-> {}]
  OBVIOUS
<1>7. Go(j, "list candidates", l)
  BY <1>2, <1>3, <1>5, <1>6 DEF ListSources, Source, EmptyStore
<1>8. F.sources \in SUBSET SourceId /\ none \in [SourceId -> Observation \cup {None}]
  BY <1>4, <1>5, StoreFields DEF Sound
<1>9. l \in PostgresWork
  BY <1>4, <1>6, <1>8, EmptySeq DEF PostgresWork
<1>10. l.had = had /\ l.sources = F.sources /\ l.unread = F.sources /\ l.baseline = none
  BY <1>6
<1>11. \A s \in SourceId \ F.sources : F.baseline[s] = None
  BY <1>4, NoSourceNoRows
<1>12. BaselinesAhead(none, F)
  BY <1>5 DEF BaselinesAhead
<1>13. Reading("list candidates", l, quiet[j], F, postgres)
  BY <1>4, <1>5, <1>10, <1>11, <1>12 DEF Reading
<1>14. PostgresGood("list candidates", l, quiet[j], F, postgres)
  BY <1>4, <1>9, <1>10, <1>13 DEF PostgresGood
<1>15. "list candidates" \in Call \ {"idle"}
  BY DEF Call
<1> QED BY <1>1, <1>2, <1>4, <1>7, <1>9, <1>14, <1>15, WorkFields, PostgresGoKeeps

LEMMA ListCandidatesIInv ==
  ASSUME IInv, NEW j \in Job, ListCandidates(j)
  PROVE  IInv'
<1>1. pc[j] = "list candidates" /\ UNCHANGED <<file, postgres>> /\ pc[j] \in PostgresCall
  BY DEF ListCandidates, PostgresCall
<1>2. PICK F : F = file["namespaced"]
  OBVIOUS
<1>3. PICK l : l = local[j]
  OBVIOUS
<1>4. /\ Sound(F) /\ Sound(postgres) /\ l \in PostgresWork
      /\ Reading("list candidates", l, quiet[j], F, postgres)
  BY <1>1, <1>2, <1>3, AtPostgres DEF PostgresGood
<1>5. PICK nl : nl = [l EXCEPT !.candidates = F.candidates]
  OBVIOUS
<1>6. Go(j, "get baselines", nl)
  BY <1>2, <1>3, <1>5 DEF ListCandidates, Source
<1>7. F.candidates \in SUBSET Observation
  BY <1>4, StoreFields DEF Sound
<1>8. /\ nl \in PostgresWork /\ nl.had = l.had /\ nl.sources = l.sources /\ nl.unread = l.unread
      /\ nl.baseline = l.baseline /\ nl.candidates = F.candidates
  BY <1>4, <1>5, <1>7 DEF PostgresWork
<1>9. Reading("get baselines", nl, quiet[j], F, postgres)
  BY <1>4, <1>8 DEF Reading
<1>10. PostgresGood("get baselines", nl, quiet[j], F, postgres)
  BY <1>8, <1>9, WorkFields DEF PostgresGood
<1>11. "get baselines" \in Call \ {"idle"}
  BY DEF Call
<1> QED BY <1>1, <1>2, <1>4, <1>6, <1>8, <1>10, <1>11, WorkFields, PostgresGoKeeps

\* All baselines are read: the writing may begin.
LEMMA ReadingDone ==
  ASSUME NEW l \in PostgresWork, NEW q \in BOOLEAN, NEW F, NEW T, Sound(F),
         Reading("get baselines", l, q, F, T), l.unread = {}
  PROVE  Writing("upsert source", l, q, F, T)
<1>1. T = EmptyStore /\ T.sources = {} /\ T.candidates = {} /\ T.reviews = {} /\ T.attempts = {}
  BY DEF Reading, EmptyStore
<1>2. \A s \in SourceId : T.observations[s] = << >> /\ T.baseline[s] = None
  BY <1>1 DEF EmptyStore
<1>3. BaselinesAhead(l.baseline, F) /\ \A s \in l.had : l.baseline[s] # None
  BY DEF Reading
<1>4. Carried("upsert source", l, T)
  BY DEF Reading, Carried
<1>5. ASSUME q PROVE Progress("upsert source", l, F, T)
  <2>1. l.sources = F.sources /\ l.candidates = F.candidates
    BY <1>5 DEF Reading
  <2>2. l.baseline = F.baseline
    <3>1. \A s \in SourceId : l.baseline[s] = F.baseline[s]
      BY <1>5 DEF Reading
    <3>2. l.baseline \in [SourceId -> Observation \cup {None}] /\ F.baseline \in [SourceId -> Observation \cup {None}]
      BY WorkFields, StoreFields DEF Sound
    <3>3. /\ l.baseline = [s \in SourceId |-> l.baseline[s]]
          /\ F.baseline = [s \in SourceId |-> F.baseline[s]]
      BY <3>2
    <3> QED BY <3>1, <3>3
  <2>3. Ids(T) = {}
    BY <1>1, EmptyIsSound
  <2>4. \A s \in SourceId : F.baseline[s] \notin ToSet(T.observations[s])
    BY <1>2, NoElements
  <2> QED BY <1>1, <1>2, <2>1, <2>2, <2>3, <2>4 DEF Progress
<1> QED BY <1>1, <1>3, <1>4, <1>5 DEF Writing

LEMMA GetBaselineIInv ==
  ASSUME IInv, NEW j \in Job, GetBaseline(j)
  PROVE  IInv'
<1>1. pc[j] = "get baselines" /\ UNCHANGED <<file, postgres>> /\ pc[j] \in PostgresCall
  BY DEF GetBaseline, PostgresCall
<1>2. PICK F : F = file["namespaced"]
  OBVIOUS
<1>3. PICK l : l = local[j]
  OBVIOUS
<1>4. /\ Sound(F) /\ Sound(postgres) /\ l \in PostgresWork /\ quiet[j] \in BOOLEAN
      /\ Reading("get baselines", l, quiet[j], F, postgres)
  BY <1>1, <1>2, <1>3, AtPostgres DEF PostgresGood
<1>5. CASE l.unread = {} /\ Go(j, "upsert source", l)
  <2>1. PICK q \in BOOLEAN : q = quiet[j]
    BY <1>4
  <2>2. Writing("upsert source", l, q, F, postgres)
    BY <1>4, <1>5, <2>1, ReadingDone
  <2>3. PostgresGood("upsert source", l, quiet[j], F, postgres)
    BY <1>4, <2>1, <2>2, WorkFields DEF PostgresGood
  <2>4. "upsert source" \in Call \ {"idle"}
    BY DEF Call
  <2> QED BY <1>1, <1>2, <1>4, <1>5, <2>3, <2>4, WorkFields, PostgresGoKeeps
<1>6. ASSUME NEW s \in l.unread,
             Go(j, "get baselines", [l EXCEPT !.unread = @ \ {s}, !.baseline[s] = F.baseline[s]])
      PROVE  IInv'
  <2>1. PICK b : b = [l.baseline EXCEPT ![s] = F.baseline[s]]
    OBVIOUS
  <2>2. PICK nl : nl = [l EXCEPT !.unread = @ \ {s}, !.baseline = b]
    OBVIOUS
  <2>3. Go(j, "get baselines", nl)
    <3>1. nl = [l EXCEPT !.unread = @ \ {s}, !.baseline[s] = F.baseline[s]]
      BY <1>4, <2>1, <2>2 DEF PostgresWork
    <3> QED BY <1>6, <3>1
  <2>4. /\ s \in SourceId /\ l.baseline \in [SourceId -> Observation \cup {None}]
        /\ F.baseline \in [SourceId -> Observation \cup {None}]
    BY <1>4, WorkFields, StoreFields DEF Sound
  <2>5. b \in [SourceId -> Observation \cup {None}]
    BY <2>1, <2>4
  <2>6. /\ nl \in PostgresWork /\ nl.had = l.had /\ nl.sources = l.sources /\ nl.unread = l.unread \ {s}
        /\ nl.baseline = b /\ nl.candidates = l.candidates
    BY <1>4, <2>2, <2>5 DEF PostgresWork
  <2>7. \A r \in SourceId : b[r] = IF r = s THEN F.baseline[s] ELSE l.baseline[r]
    BY <2>1, <2>4
  <2>8. BaselinesAhead(b, F)
    BY <1>4, <2>7 DEF Reading, BaselinesAhead, Sound, Closed
  <2>9. Reading("get baselines", nl, quiet[j], F, postgres)
    BY <1>4, <2>6, <2>7, <2>8, WorkFields DEF Reading
  <2>10. PostgresGood("get baselines", nl, quiet[j], F, postgres)
    BY <2>6, <2>9, WorkFields DEF PostgresGood
  <2>11. "get baselines" \in Call \ {"idle"}
    BY DEF Call
  <2> QED BY <1>1, <1>2, <1>4, <2>3, <2>6, <2>10, <2>11, WorkFields, PostgresGoKeeps
<1> QED BY <1>2, <1>3, <1>5, <1>6 DEF GetBaseline, Source

\* All sources are written.
LEMMA WritingDone ==
  ASSUME NEW l \in PostgresWork, NEW q \in BOOLEAN, NEW F, NEW T, Sound(F), Sound(T),
         Writing("upsert source", l, q, F, T), l.sources = {}
  PROVE  Attempting("list attempts", l, q, F, T)
<1>1. \A s \in l.had : T.baseline[s] # None
  BY DEF Writing, Carried, Current
<1>2. ASSUME q
      PROVE  /\ T.sources = F.sources /\ T.baseline = F.baseline /\ T.observations = F.observations
             /\ T.reviews = F.reviews /\ T.candidates = F.candidates /\ T.attempts = {}
  <2>1. Progress("upsert source", l, F, T)
    BY <1>2 DEF Writing
  <2>2. T.sources = F.sources /\ T.attempts = {}
    BY <2>1 DEF Progress
  <2>3. T \in Store /\ F \in Store
    BY DEF Sound
  <2>4. ASSUME NEW s \in SourceId PROVE T.observations[s] = F.observations[s]
    <3>1. CASE s \in T.sources
      BY <2>1, <3>1 DEF Progress, Current
    <3>2. CASE s \notin T.sources
      BY <2>2, <3>2, NoSourceNoRows
    <3> QED BY <3>1, <3>2
  <2>5. T.observations = F.observations
    <3>1. /\ T.observations = [s \in SourceId |-> T.observations[s]]
          /\ F.observations = [s \in SourceId |-> F.observations[s]]
      BY <2>3, StoreFields
    <3> QED BY <2>4, <3>1
  <2>6. ASSUME NEW s \in SourceId PROVE T.baseline[s] = F.baseline[s]
    BY <2>1, <2>4 DEF Progress, Sound, Closed
  <2>7. T.baseline = F.baseline
    <3>1. /\ T.baseline = [s \in SourceId |-> T.baseline[s]]
          /\ F.baseline = [s \in SourceId |-> F.baseline[s]]
      BY <2>3, StoreFields
    <3> QED BY <2>6, <3>1
  <2>8. Ids(T) = Ids(F)
    BY <2>5 DEF Ids
  <2>9. F.reviews \subseteq Ids(F) /\ F.candidates \subseteq Ids(F)
    BY DEF Sound, Closed
  <2>10. T.candidates = F.candidates /\ T.reviews = F.reviews
    BY <2>1, <2>8, <2>9 DEF Progress
  <2> QED BY <2>2, <2>5, <2>7, <2>10
<1> QED BY <1>1, <1>2 DEF Attempting

\* A source is upserted.
LEMMA SourceTaken ==
  ASSUME NEW l \in PostgresWork, NEW q \in BOOLEAN, NEW F, NEW T, Sound(F), Sound(T),
         Writing("upsert source", l, q, F, T), NEW s \in l.sources,
         NEW nl, nl = [l EXCEPT !.sources = @ \ {s}, !.source = s], NEW U, U = WithSource(T, s)
  PROVE  PostgresReady("list observations", nl, q, F, U)
<1>1. s \in SourceId /\ s \notin T.sources
  BY WorkFields DEF Writing
<1>2. /\ Sound(U) /\ U.sources = T.sources \cup {s} /\ U.baseline = T.baseline
      /\ U.observations = T.observations /\ U.reviews = T.reviews
      /\ U.candidates = T.candidates /\ U.attempts = T.attempts
  <2>1. Becomes(T, U, T.sources \cup {s}, T.reviews, T.attempts)
    BY <1>1, SourceAdded, Zenon
  <2> QED BY <2>1 DEF Becomes
<1>3. /\ nl \in PostgresWork /\ nl.had = l.had /\ nl.sources = l.sources \ {s} /\ nl.source = s
      /\ nl.candidates = l.candidates /\ nl.baseline = l.baseline
  BY <1>1 DEF PostgresWork
<1>4. T.observations[s] = << >> /\ T.baseline[s] = None
  BY <1>1, NoSourceNoRows
<1>5. Carried("list observations", nl, U)
  BY <1>2, <1>3 DEF Writing, Carried, Current
<1>6. ASSUME q PROVE Progress("list observations", nl, F, U)
  <2>1. Progress("upsert source", l, F, T)
    BY <1>6 DEF Writing
  <2>2. Ids(U) = Ids(T)
    BY <1>2 DEF Ids
  <2>3. U.sources \cup nl.sources = F.sources
    BY <1>2, <1>3, <2>1 DEF Progress
  <2> QED BY <1>2, <1>3, <1>4, <2>1, <2>2, <2>3 DEF Progress, Current
<1>7. nl.sources \cap U.sources = {}
  BY <1>2, <1>3 DEF Writing
<1>8. Writing("list observations", nl, q, F, U)
  BY <1>2, <1>3, <1>5, <1>6, <1>7 DEF Writing
<1> QED BY <1>2, <1>3, <1>8, WorkFields DEF PostgresReady, PostgresGood

LEMMA UpsertSourceIInv ==
  ASSUME IInv, NEW j \in Job, UpsertSource(j)
  PROVE  IInv'
<1>1. pc[j] = "upsert source" /\ UNCHANGED file /\ pc[j] \in PostgresCall
  BY DEF UpsertSource, PostgresCall
<1>2. PICK F : F = file["namespaced"]
  OBVIOUS
<1>3. PICK l : l = local[j]
  OBVIOUS
<1>4. /\ Sound(F) /\ Sound(postgres) /\ l \in PostgresWork /\ quiet[j] \in BOOLEAN
      /\ Writing("upsert source", l, quiet[j], F, postgres)
  BY <1>1, <1>2, <1>3, AtPostgres DEF PostgresGood
<1>5. PICK q \in BOOLEAN : q = quiet[j]
  BY <1>4
<1>6. CASE l.sources = {} /\ Go(j, "list attempts", l) /\ UNCHANGED postgres
  <2>1. Attempting("list attempts", l, q, F, postgres)
    BY <1>4, <1>5, <1>6, WritingDone
  <2>2. PostgresGood("list attempts", l, quiet[j], F, postgres)
    BY <1>4, <1>5, <2>1, WorkFields DEF PostgresGood
  <2>3. "list attempts" \in Call \ {"idle"}
    BY DEF Call
  <2> QED BY <1>1, <1>2, <1>4, <1>6, <2>2, <2>3, WorkFields, PostgresGoKeeps
<1>7. ASSUME NEW s \in l.sources, postgres' = [postgres EXCEPT !.sources = @ \cup {s}],
             Go(j, "list observations", [l EXCEPT !.sources = @ \ {s}, !.source = s])
      PROVE  IInv'
  <2>1. PICK nl : nl = [l EXCEPT !.sources = @ \ {s}, !.source = s]
    OBVIOUS
  <2>2. PICK T : T = postgres
    OBVIOUS
  <2>3. PICK U : U = WithSource(T, s)
    OBVIOUS
  <2>4. postgres' = U
    BY <1>7, <2>2, <2>3 DEF WithSource
  <2>5. PostgresReady("list observations", nl, q, F, U)
    BY <1>4, <1>5, <2>1, <2>2, <2>3, SourceTaken
  <2>6. "list observations" \in Call \ {"idle"}
    BY DEF Call
  <2>7. Go(j, "list observations", nl)
    BY <1>7, <2>1
  <2> QED BY <1>1, <1>2, <1>5, <2>4, <2>5, <2>6, <2>7, PostgresReadyKeeps
<1> QED BY <1>3, <1>6, <1>7 DEF UpsertSource

\* The observations of the source are listed.
LEMMA ObservationsListed ==
  ASSUME NEW l \in PostgresWork, NEW q \in BOOLEAN, NEW F, NEW T, Sound(F), Sound(T),
         Writing("list observations", l, q, F, T),
         NEW nl, nl = [l EXCEPT !.observations = F.observations[l.source]]
  PROVE  PostgresReady("save observation", nl, q, F, T)
<1>1. l.source \in T.sources /\ l.source \in SourceId
  BY StoreFields DEF Writing, Sound
<1>2. F.observations[l.source] \in Seq(Observation)
  BY <1>1, StoreFields DEF Sound
<1>3. /\ nl \in PostgresWork /\ nl.had = l.had /\ nl.sources = l.sources /\ nl.source = l.source
      /\ nl.candidates = l.candidates /\ nl.baseline = l.baseline
      /\ nl.observations = F.observations[l.source]
  BY <1>2 DEF PostgresWork
<1>4. Carried("save observation", nl, T)
  BY <1>1, <1>3 DEF Writing, Carried, Current, Unsaved, BaselinesAhead
<1>5. ASSUME q PROVE Progress("save observation", nl, F, T)
  <2>1. Progress("list observations", l, F, T)
    BY <1>5 DEF Writing
  <2>2. << >> \o F.observations[l.source] = F.observations[l.source]
    BY <1>2, ConcatEmptySeq
  <2>3. T.observations[nl.source] \o Unsaved("save observation", nl) = F.observations[nl.source]
    BY <1>3, <2>1, <2>2 DEF Progress, Unsaved
  <2> QED BY <1>3, <2>1, <2>3 DEF Progress, Current
<1>6. Writing("save observation", nl, q, F, T)
  BY <1>1, <1>3, <1>4, <1>5 DEF Writing
<1> QED BY <1>3, <1>6, WorkFields DEF PostgresReady, PostgresGood

LEMMA ListObservationsIInv ==
  ASSUME IInv, NEW j \in Job, ListObservations(j)
  PROVE  IInv'
<1>1. pc[j] = "list observations" /\ UNCHANGED <<file, postgres>> /\ pc[j] \in PostgresCall
  BY DEF ListObservations, PostgresCall
<1>2. PICK F, T : F = file["namespaced"] /\ T = postgres
  OBVIOUS
<1>3. PICK l : l = local[j]
  OBVIOUS
<1>4. /\ Sound(F) /\ Sound(T) /\ l \in PostgresWork /\ quiet[j] \in BOOLEAN
      /\ Writing("list observations", l, quiet[j], F, T)
  BY <1>1, <1>2, <1>3, AtPostgres DEF PostgresGood
<1>5. PICK q \in BOOLEAN : q = quiet[j]
  BY <1>4
<1>6. PICK nl : nl = [l EXCEPT !.observations = F.observations[l.source]]
  OBVIOUS
<1>7. Go(j, "save observation", nl)
  BY <1>2, <1>3, <1>6 DEF ListObservations, Source
<1>8. PostgresReady("save observation", nl, q, F, T)
  BY <1>4, <1>5, <1>6, ObservationsListed
<1>9. "save observation" \in Call \ {"idle"}
  BY DEF Call
<1> QED BY <1>1, <1>2, <1>5, <1>7, <1>8, <1>9, PostgresReadyKeeps

\* The last observation of the source is copied.
LEMMA SourceDone ==
  ASSUME NEW l \in PostgresWork, NEW q \in BOOLEAN, NEW F, NEW T, Sound(F), Sound(T),
         Writing("save observation", l, q, F, T), l.observations = << >>
  PROVE  PostgresReady("upsert source", l, q, F, T)
<1>1. Unsaved("save observation", l) = << >>
  BY DEF Unsaved
<1>2. Carried("upsert source", l, T)
  BY <1>1, NoElements DEF Writing, Carried, Current
<1>3. ASSUME q PROVE Progress("upsert source", l, F, T)
  <2>1. Progress("save observation", l, F, T)
    BY <1>3 DEF Writing
  <2>2. l.source \in T.sources /\ l.source \in SourceId
    BY StoreFields DEF Writing, Sound
  <2>3. T.observations[l.source] \in Seq(Observation)
    BY <2>2, StoreFields DEF Sound
  <2>4. T.observations[l.source] = F.observations[l.source]
    BY <1>1, <2>1, <2>3, ConcatEmptySeq DEF Progress
  <2>5. \A s \in T.sources : T.observations[s] = F.observations[s]
    BY <2>1, <2>4 DEF Progress, Current
  <2> QED BY <2>1, <2>5 DEF Progress
<1>4. Writing("upsert source", l, q, F, T)
  BY <1>2, <1>3 DEF Writing
<1> QED BY <1>4, WorkFields DEF PostgresReady, PostgresGood

\* An observation is saved.
LEMMA ObservationSaved ==
  ASSUME NEW l \in PostgresWork, NEW q \in BOOLEAN, NEW F, NEW T, Sound(F), Sound(T),
         Writing("save observation", l, q, F, T), l.observations # << >>,
         NEW s, s = l.source, NEW o, o = Head(l.observations), o \notin Ids(T),
         NEW U, U = Appended(T, s, o, {o} \cap l.candidates, IF l.baseline[s] = o THEN o ELSE T.baseline[s])
  PROVE  PostgresReady("copy review", l, q, F, U)
<1>1. s \in T.sources /\ s \in SourceId
  BY StoreFields DEF Writing, Sound
<1>2. /\ l.observations \in Seq(Observation) /\ o \in Observation /\ Tail(l.observations) \in Seq(Observation)
      /\ ToSet(l.observations) = {o} \cup ToSet(Tail(l.observations))
  BY WorkFields, FirstAndRest
<1>3. PICK raised : raised = {o} \cap l.candidates
  OBVIOUS
<1>4. PICK b : b = IF l.baseline[s] = o THEN o ELSE T.baseline[s]
  OBVIOUS
<1>5. AppendedTo(T, s, o, raised, b, U)
  <2>1. raised \subseteq {o} /\ (b = o \/ b = T.baseline[s]) /\ U = Appended(T, s, o, raised, b)
    BY <1>3, <1>4
  <2> QED BY <1>1, <1>2, <2>1, AppendedIsSound
<1>6. /\ Sound(U) /\ Ids(U) = Ids(T) \cup {o}
      /\ U.sources = T.sources /\ U.reviews = T.reviews /\ U.attempts = T.attempts
      /\ U.candidates = T.candidates \cup raised
      /\ U.baseline[s] = b /\ U.observations[s] = Append(T.observations[s], o)
      /\ ToSet(U.observations[s]) = ToSet(T.observations[s]) \cup {o}
      /\ \A r \in SourceId \ {s} : U.baseline[r] = T.baseline[r] /\ U.observations[r] = T.observations[r]
  BY <1>5 DEF AppendedTo
<1>7. Unsaved("save observation", l) = l.observations /\ Unsaved("copy review", l) = Tail(l.observations)
  BY DEF Unsaved
<1>8. o # None
  BY <1>2, NothingIsNoStore
<1>9. Carried("copy review", l, U)
  <2>1. SUFFICES ASSUME NEW r \in l.had, r \notin l.sources, U.baseline[r] = None
                 PROVE  Current("copy review", l, r) /\ l.baseline[r] \in ToSet(Tail(l.observations))
    BY <1>7 DEF Carried
  <2>2. r \in SourceId
    BY WorkFields
  <2>3. T.baseline[r] = None
    BY <1>4, <1>6, <1>8, <2>1, <2>2
  <2>4. r = s /\ l.baseline[r] \in ToSet(l.observations)
    BY <1>7, <2>1, <2>3 DEF Writing, Carried, Current
  <2>5. l.baseline[r] # o
    BY <1>4, <1>6, <1>8, <2>1, <2>4
  <2> QED BY <1>2, <2>4, <2>5 DEF Current
<1>10. ASSUME q PROVE Progress("copy review", l, F, U)
  <2>1. Progress("save observation", l, F, T)
    BY <1>10 DEF Writing
  <2>2. /\ T.sources \cup l.sources = F.sources /\ l.candidates = F.candidates /\ l.baseline = F.baseline
        /\ T.observations[s] \o l.observations = F.observations[s]
        /\ T.candidates = F.candidates \cap Ids(T)
        /\ T.reviews = F.reviews \cap Ids(T) /\ T.attempts = {}
    BY <1>7, <2>1 DEF Progress
  <2>3. T.observations[s] \in Seq(Observation)
    BY <1>1, StoreFields DEF Sound
  <2>4. PICK p \in Seq(Observation), p2 \in Seq(Observation) :
          p = T.observations[s] /\ p2 = l.observations
    BY <1>2, <2>3
  <2>5. U.observations[s] \o Unsaved("copy review", l) = F.observations[s]
    <3>1. Append(p, Head(p2)) \o Tail(p2) = p \o p2
      BY <2>4, MovedAcross
    <3>2. U.observations[s] = Append(p, Head(p2)) /\ Unsaved("copy review", l) = Tail(p2)
      BY <1>6, <1>7, <2>4
    <3>3. p \o p2 = F.observations[s]
      BY <2>2, <2>4
    <3> QED BY <3>1, <3>2, <3>3
  <2>6. ASSUME NEW r \in U.sources, ~Current("copy review", l, r)
        PROVE  U.observations[r] = F.observations[r]
    <3>1. r \in T.sources /\ r \in SourceId /\ r # s
      BY <1>6, <2>6, StoreFields DEF Sound, Current
    <3>2. ~Current("save observation", l, r)
      BY <3>1 DEF Current
    <3>3. T.observations[r] = F.observations[r]
      BY <2>1, <3>1, <3>2 DEF Progress
    <3> QED BY <1>6, <3>1, <3>3
  <2>7. ASSUME NEW r \in SourceId
        PROVE  U.baseline[r] = IF F.baseline[r] \in ToSet(U.observations[r]) THEN F.baseline[r] ELSE None
    <3>1. T.baseline[r] = IF F.baseline[r] \in ToSet(T.observations[r]) THEN F.baseline[r] ELSE None
      BY <2>1 DEF Progress
    <3>2. CASE r = s
      <4>1. ToSet(U.observations[r]) = ToSet(T.observations[r]) \cup {o}
        BY <1>6, <3>2
      <4>2. U.baseline[r] = IF F.baseline[r] = o THEN o ELSE T.baseline[r]
        BY <1>4, <1>6, <2>2, <3>2
      <4>3. CASE F.baseline[r] = o
        BY <4>1, <4>2, <4>3
      <4>4. CASE F.baseline[r] # o
        <5>1. U.baseline[r] = T.baseline[r]
          BY <4>2, <4>4
        <5>2. F.baseline[r] \in ToSet(U.observations[r]) <=> F.baseline[r] \in ToSet(T.observations[r])
          BY <4>1, <4>4
        <5> QED BY <3>1, <5>1, <5>2
      <4> QED BY <4>3, <4>4
    <3>3. CASE r # s
      BY <1>6, <3>1, <3>3
    <3> QED BY <3>2, <3>3
  <2>8. U.candidates = F.candidates \cap Ids(U)
    BY <1>3, <1>6, <2>2
  <2>9. U.reviews \cup ({Head(l.observations)} \cap F.reviews) = F.reviews \cap Ids(U)
    BY <1>6, <2>2
  <2> QED BY <1>6, <2>2, <2>5, <2>6, <2>7, <2>8, <2>9 DEF Progress
<1>11. Writing("copy review", l, q, F, U)
  BY <1>1, <1>6, <1>9, <1>10 DEF Writing
<1> QED BY <1>6, <1>11, WorkFields DEF PostgresReady, PostgresGood

LEMMA SaveObservationIInv ==
  ASSUME IInv, NEW j \in Job, SaveObservation(j)
  PROVE  IInv'
<1>1. pc[j] = "save observation" /\ UNCHANGED file /\ pc[j] \in PostgresCall
  BY DEF SaveObservation, PostgresCall
<1>2. PICK F, T : F = file["namespaced"] /\ T = postgres
  OBVIOUS
<1>3. PICK l : l = local[j]
  OBVIOUS
<1>4. /\ Sound(F) /\ Sound(T) /\ l \in PostgresWork /\ quiet[j] \in BOOLEAN
      /\ Writing("save observation", l, quiet[j], F, T)
  BY <1>1, <1>2, <1>3, AtPostgres DEF PostgresGood
<1>5. PICK q \in BOOLEAN : q = quiet[j]
  BY <1>4
<1>6. PICK s, o : s = l.source /\ o = Head(l.observations)
  OBVIOUS
<1>7. CASE l.observations = << >> /\ Go(j, "upsert source", l) /\ UNCHANGED postgres
  <2>1. PostgresReady("upsert source", l, q, F, T)
    BY <1>4, <1>5, <1>7, SourceDone
  <2>2. "upsert source" \in Call \ {"idle"}
    BY DEF Call
  <2> QED BY <1>1, <1>2, <1>5, <1>7, <2>1, <2>2, PostgresReadyKeeps
<1>8. ASSUME l.observations # << >>, o \notin Ids(T), Go(j, "copy review", l),
             T.baseline \in [SourceId -> Observation \cup {None}],
             postgres' = [T EXCEPT !.observations[s] = Append(@, o),
                                   !.candidates = @ \cup ({o} \cap l.candidates),
                                   !.baseline[s] = IF l.baseline[s] = o THEN o ELSE @]
      PROVE  IInv'
  <2>1. PICK b : b = IF l.baseline[s] = o THEN o ELSE T.baseline[s]
    OBVIOUS
  <2>2. PICK U : U = Appended(T, s, o, {o} \cap l.candidates, b)
    OBVIOUS
  <2>3. postgres' = U
    BY <1>8, <2>1, <2>2 DEF Appended
  <2>4. PostgresReady("copy review", l, q, F, U)
    BY <1>4, <1>5, <1>6, <1>8, <2>1, <2>2, ObservationSaved
  <2>5. "copy review" \in Call \ {"idle"}
    BY DEF Call
  <2> QED BY <1>1, <1>2, <1>5, <1>8, <2>3, <2>4, <2>5, PostgresReadyKeeps
<1>9. CASE Stop(j) /\ UNCHANGED postgres
  BY <1>1, <1>9, PostgresStopKeeps
<1>10. T.baseline \in [SourceId -> Observation \cup {None}]
  BY <1>4, StoreFields DEF Sound
<1> QED BY <1>2, <1>3, <1>6, <1>7, <1>8, <1>9, <1>10 DEF SaveObservation

\* The review of an observation is copied.
LEMMA ReviewCopied ==
  ASSUME NEW l \in PostgresWork, NEW q \in BOOLEAN, NEW F, NEW T, Sound(F), Sound(T),
         Writing("copy review", l, q, F, T),
         NEW o, o = Head(l.observations), o \in F.reviews => o \in Ids(T),
         NEW nl, nl = [l EXCEPT !.observations = Tail(@)],
         NEW U, U = WithReviews(T, {o} \cap F.reviews)
  PROVE  PostgresReady("save observation", nl, q, F, U)
<1>1. PICK more \in SUBSET Ids(T) : more = {o} \cap F.reviews
  OBVIOUS
<1>2. /\ Sound(U) /\ Ids(U) = Ids(T) /\ U.sources = T.sources /\ U.baseline = T.baseline
      /\ U.observations = T.observations /\ U.reviews = T.reviews \cup more
      /\ U.candidates = T.candidates /\ U.attempts = T.attempts
  <2>1. Becomes(T, U, T.sources, T.reviews \cup more, T.attempts)
    BY <1>1, ReviewsAdded
  <2> QED BY <2>1 DEF Becomes
<1>3. PICK rest \in Seq(Observation) : rest = Tail(l.observations)
  BY WorkFields, FirstAndRest DEF Writing
<1>4. /\ nl \in PostgresWork /\ nl.had = l.had /\ nl.sources = l.sources /\ nl.source = l.source
      /\ nl.candidates = l.candidates /\ nl.baseline = l.baseline /\ nl.observations = rest
  BY <1>3 DEF PostgresWork
<1>5. Unsaved("save observation", nl) = rest /\ Unsaved("copy review", l) = rest
  BY <1>3, <1>4 DEF Unsaved
<1>6. Carried("save observation", nl, U)
  BY <1>2, <1>4, <1>5 DEF Writing, Carried, Current
<1>7. ASSUME q PROVE Progress("save observation", nl, F, U)
  <2>1. Progress("copy review", l, F, T)
    BY <1>7 DEF Writing
  <2>2. /\ U.sources \cup nl.sources = F.sources
        /\ nl.candidates = F.candidates /\ nl.baseline = F.baseline
        /\ U.observations[nl.source] \o Unsaved("save observation", nl) = F.observations[nl.source]
        /\ U.candidates = F.candidates \cap Ids(U) /\ U.attempts = {}
    BY <1>2, <1>4, <1>5, <2>1 DEF Progress
  <2>3. \A s \in U.sources : ~Current("save observation", nl, s) => U.observations[s] = F.observations[s]
    BY <1>2, <1>4, <2>1 DEF Progress, Current
  <2>4. \A s \in SourceId :
          U.baseline[s] = IF F.baseline[s] \in ToSet(U.observations[s]) THEN F.baseline[s] ELSE None
    BY <1>2, <2>1 DEF Progress
  <2>5. U.reviews = F.reviews \cap Ids(U)
    BY <1>1, <1>2, <2>1 DEF Progress
  <2> QED BY <2>2, <2>3, <2>4, <2>5 DEF Progress
<1>8. Writing("save observation", nl, q, F, U)
  BY <1>2, <1>4, <1>6, <1>7 DEF Writing
<1> QED BY <1>2, <1>4, <1>8, WorkFields DEF PostgresReady, PostgresGood

LEMMA CopyReviewIInv ==
  ASSUME IInv, NEW j \in Job, CopyReview(j)
  PROVE  IInv'
<1>1. pc[j] = "copy review" /\ UNCHANGED file /\ pc[j] \in PostgresCall
  BY DEF CopyReview, PostgresCall
<1>2. PICK F, T : F = file["namespaced"] /\ T = postgres
  OBVIOUS
<1>3. PICK l : l = local[j]
  OBVIOUS
<1>4. /\ Sound(F) /\ Sound(T) /\ l \in PostgresWork /\ quiet[j] \in BOOLEAN
      /\ Writing("copy review", l, quiet[j], F, T)
  BY <1>1, <1>2, <1>3, AtPostgres DEF PostgresGood
<1>5. PICK q \in BOOLEAN : q = quiet[j]
  BY <1>4
<1>6. PICK o : o = Head(l.observations)
  OBVIOUS
<1>7. ASSUME o \in F.reviews => o \in Ids(T),
             postgres' = [T EXCEPT !.reviews = @ \cup ({o} \cap F.reviews)],
             Go(j, "save observation", [l EXCEPT !.observations = Tail(@)])
      PROVE  IInv'
  <2>1. PICK nl : nl = [l EXCEPT !.observations = Tail(@)]
    OBVIOUS
  <2>2. PICK U : U = WithReviews(T, {o} \cap F.reviews)
    OBVIOUS
  <2>3. postgres' = U
    BY <1>7, <2>2 DEF WithReviews
  <2>4. PostgresReady("save observation", nl, q, F, U)
    BY <1>4, <1>5, <1>6, <1>7, <2>1, <2>2, ReviewCopied
  <2>5. "save observation" \in Call \ {"idle"}
    BY DEF Call
  <2>6. Go(j, "save observation", nl)
    BY <1>7, <2>1
  <2> QED BY <1>1, <1>2, <1>5, <2>3, <2>4, <2>5, <2>6, PostgresReadyKeeps
<1>8. CASE Stop(j) /\ UNCHANGED postgres
  BY <1>1, <1>8, PostgresStopKeeps
<1> QED BY <1>2, <1>3, <1>6, <1>7, <1>8 DEF CopyReview, Source

\* The attempts are listed.
LEMMA ListAttemptsIInv ==
  ASSUME IInv, NEW j \in Job, ListAttempts(j)
  PROVE  IInv'
<1>1. pc[j] = "list attempts" /\ UNCHANGED <<file, postgres>> /\ pc[j] \in PostgresCall
  BY DEF ListAttempts, PostgresCall
<1>2. PICK F, T : F = file["namespaced"] /\ T = postgres
  OBVIOUS
<1>3. PICK l : l = local[j]
  OBVIOUS
<1>4. /\ Sound(F) /\ Sound(T) /\ l \in PostgresWork
      /\ Attempting("list attempts", l, quiet[j], F, T)
  BY <1>1, <1>2, <1>3, AtPostgres DEF PostgresGood
<1>5. PICK nl : nl = [l EXCEPT !.attempts = F.attempts]
  OBVIOUS
<1>6. Go(j, "create attempt", nl)
  BY <1>2, <1>3, <1>5 DEF ListAttempts, Source
<1>7. F.attempts \in SUBSET Observation
  BY <1>4, StoreFields DEF Sound
<1>8. nl \in PostgresWork /\ nl.had = l.had /\ nl.attempts = F.attempts
  BY <1>4, <1>5, <1>7 DEF PostgresWork
<1>9. Attempting("create attempt", nl, quiet[j], F, T)
  BY <1>4, <1>8 DEF Attempting
<1>10. PostgresReady("create attempt", nl, quiet[j], F, T)
  BY <1>4, <1>8, <1>9, WorkFields DEF PostgresReady, PostgresGood
<1>11. "create attempt" \in Call \ {"idle"}
  BY DEF Call
<1> QED BY <1>1, <1>2, <1>6, <1>10, <1>11, PostgresReadyKeeps

\* The last attempt is copied, and the import is over.
LEMMA AttemptsDone ==
  ASSUME NEW l \in PostgresWork, NEW q \in BOOLEAN, NEW F, NEW T, Sound(F), Sound(T),
         Attempting("create attempt", l, q, F, T), l.attempts = {}
  PROVE  PostgresReady("finished", l, q, F, T)
<1>1. ASSUME q PROVE T = F
  <2>1. /\ T.sources = F.sources /\ T.baseline = F.baseline /\ T.observations = F.observations
        /\ T.reviews = F.reviews /\ T.candidates = F.candidates /\ T.attempts = F.attempts
    BY <1>1 DEF Attempting
  <2> QED BY <2>1, SameTables DEF Sound
<1>2. \A s \in l.had : T.baseline[s] # None
  BY DEF Attempting
<1> QED BY <1>1, <1>2, WorkFields DEF PostgresReady, PostgresGood

LEMMA AttemptCopied ==
  ASSUME NEW l \in PostgresWork, NEW q \in BOOLEAN, NEW F, NEW T, Sound(F), Sound(T),
         Attempting("create attempt", l, q, F, T), NEW c \in l.attempts, c \in T.candidates,
         NEW nl, nl = [l EXCEPT !.attempts = @ \ {c}], NEW U, U = WithAttempt(T, c)
  PROVE  PostgresReady("create attempt", nl, q, F, U)
<1>1. /\ Sound(U) /\ U.sources = T.sources /\ U.baseline = T.baseline
      /\ U.observations = T.observations /\ U.reviews = T.reviews
      /\ U.candidates = T.candidates /\ U.attempts = T.attempts \cup {c}
  <2>1. Becomes(T, U, T.sources, T.reviews, T.attempts \cup {c})
    BY AttemptAdded
  <2> QED BY <2>1 DEF Becomes
<1>2. nl \in PostgresWork /\ nl.had = l.had /\ nl.attempts = l.attempts \ {c}
  BY DEF PostgresWork
<1>3. U.attempts \cup nl.attempts = T.attempts \cup l.attempts
  BY <1>1, <1>2
<1>4. Attempting("create attempt", nl, q, F, U)
  BY <1>1, <1>2, <1>3 DEF Attempting
<1> QED BY <1>1, <1>2, <1>4, WorkFields DEF PostgresReady, PostgresGood

LEMMA CreateAttemptIInv ==
  ASSUME IInv, NEW j \in Job, CreateAttempt(j)
  PROVE  IInv'
<1>1. pc[j] = "create attempt" /\ UNCHANGED file /\ pc[j] \in PostgresCall
  BY DEF CreateAttempt, PostgresCall
<1>2. PICK F, T : F = file["namespaced"] /\ T = postgres
  OBVIOUS
<1>3. PICK l : l = local[j]
  OBVIOUS
<1>4. /\ Sound(F) /\ Sound(T) /\ l \in PostgresWork /\ quiet[j] \in BOOLEAN
      /\ Attempting("create attempt", l, quiet[j], F, T)
  BY <1>1, <1>2, <1>3, AtPostgres DEF PostgresGood
<1>5. PICK q \in BOOLEAN : q = quiet[j]
  BY <1>4
<1>6. CASE l.attempts = {} /\ Go(j, "finished", l) /\ UNCHANGED postgres
  <2>1. PostgresReady("finished", l, q, F, T)
    BY <1>4, <1>5, <1>6, AttemptsDone
  <2>2. "finished" \in Call \ {"idle"}
    BY DEF Call
  <2> QED BY <1>1, <1>2, <1>5, <1>6, <2>1, <2>2, PostgresReadyKeeps
<1>7. ASSUME NEW c \in l.attempts, c \in T.candidates,
             postgres' = [T EXCEPT !.attempts = @ \cup {c}],
             Go(j, "create attempt", [l EXCEPT !.attempts = @ \ {c}])
      PROVE  IInv'
  <2>1. PICK nl : nl = [l EXCEPT !.attempts = @ \ {c}]
    OBVIOUS
  <2>2. PICK U : U = WithAttempt(T, c)
    OBVIOUS
  <2>3. postgres' = U
    BY <1>7, <2>2 DEF WithAttempt
  <2>4. PostgresReady("create attempt", nl, q, F, U)
    BY <1>4, <1>5, <1>7, <2>1, <2>2, AttemptCopied
  <2>5. "create attempt" \in Call \ {"idle"}
    BY DEF Call
  <2>6. Go(j, "create attempt", nl)
    BY <1>7, <2>1
  <2> QED BY <1>1, <1>2, <1>5, <2>3, <2>4, <2>5, <2>6, PostgresReadyKeeps
<1>8. CASE Stop(j) /\ UNCHANGED postgres
  BY <1>1, <1>8, PostgresStopKeeps
<1> QED BY <1>2, <1>3, <1>6, <1>7, <1>8 DEF CreateAttempt

-----------------------------------------------------------------------------
(* Every step.                                                             *)

LEMMA NextIInv ==
  ASSUME IInv, [Next]_vars
  PROVE  IInv'
<1>1. CASE UNCHANGED vars
  <2>1. UNCHANGED <<file, postgres, pc, local, quiet, runs, writes>>
    BY <1>1 DEF vars
  <2> QED BY <2>1 DEF IInv, FilesInv, JobsInv, Exclusive, WorkInv, Target
<1>2. ASSUME NEW j \in Job, CopyStep(j) PROVE IInv'
  BY <1>2, CopyPagesIInv, VerifyCopyIInv DEF CopyStep
<1>3. ASSUME NEW j \in Job, ImportStep(j) PROVE IInv'
  BY <1>3, ReadSourcesIInv, InitializeTargetIInv, ReadObservationsIInv, ReadReviewsIInv,
     ReadCandidatesIInv, ReadAttemptsIInv, CommitImportIInv DEF ImportStep
<1>4. ASSUME NEW j \in Job, PostgresStep(j) PROVE IInv'
  BY <1>4, ListSourcesIInv, ListCandidatesIInv, GetBaselineIInv, UpsertSourceIInv,
     ListObservationsIInv, SaveObservationIInv, CopyReviewIInv, ListAttemptsIInv, CreateAttemptIInv
     DEF PostgresStep
<1>5. ASSUME NEW j \in Job,
             \/ \E from, to \in FileName : StartCopy(j, from, to)
             \/ \E from \in FileName : StartImport(j, from)
             \/ CheckEmpty(j) \/ ReportFinished(j) \/ Die(j)
      PROVE  IInv'
  BY <1>5, StartCopyIInv, StartImportIInv, CheckEmptyIInv, ReportFinishedIInv, DieIInv
<1>6. ASSUME NEW f \in FileName, ServiceWrites(f) \/ RemoveFile(f) PROVE IInv'
  BY <1>6, ServiceWritesIInv, RemoveFileIInv
<1>7. CASE ClearWorkspace
  BY <1>7, ClearWorkspaceIInv
<1>8. CASE Rest
  BY <1>1, <1>8 DEF Rest
<1> QED BY <1>1, <1>2, <1>3, <1>4, <1>5, <1>6, <1>7, <1>8 DEF Next

THEOREM Invariance == Spec => []IInv
<1>1. Init => IInv
  BY InitIInv
<1>2. IInv /\ [Next]_vars => IInv'
  BY NextIInv
<1> QED BY <1>1, <1>2, PTL DEF Spec

-----------------------------------------------------------------------------
(* What a reader should know of.                                           *)

LEMMA IInvTypeOK == IInv => TypeOK
<1> SUFFICES ASSUME IInv PROVE TypeOK
  OBVIOUS
<1>1. \A f \in FileName : IsStore(file[f]) => Unique(file[f])
  BY DEF IInv, FilesInv, Sound
<1>2. postgres \in Store /\ Unique(postgres)
  BY DEF IInv, FilesInv, Sound
<1>3. \A st \in {file[f] : f \in FileName} \cup {postgres} : IsStore(st) => Unique(st)
  BY <1>1, <1>2
<1> QED BY <1>2, <1>3 DEF IInv, FilesInv, JobsInv, TypeOK

LEMMA IInvFinished ==
  ASSUME IInv, NEW j \in Job, pc[j] = "finished"
  PROVE  /\ quiet[j] => CASE local[j].to = "postgres"   -> postgres = file["namespaced"]
                          [] local[j].to = "namespaced" ->
                               file["namespaced"] = Selection(file[local[j].from], Selected)
                          [] OTHER                      -> file[local[j].to] = file[local[j].from]
         /\ local[j].to = "postgres" => \A s \in local[j].had : postgres.baseline[s] # None
<1>1. Good("finished", local[j], quiet[j], file[local[j].from], Target(j))
  BY DEF IInv, WorkInv
<1>2. CASE local[j].to = "postgres"
  BY <1>1, <1>2 DEF Good, PostgresGood, Target
<1>3. CASE local[j].to = "namespaced"
  BY <1>1, <1>3 DEF Good, ImportGood, Target
<1>4. CASE local[j].to \in {"snapshot", "restored"}
  BY <1>1, <1>4 DEF Good, CopyGood, Target
<1> QED BY <1>1, <1>2, <1>3, <1>4 DEF Good

\* Every file is nothing, a file without tables or a store, and no store, of a
\* file or of Postgres, has two rows of one observation (storage.py:123).
THEOREM TypeCorrect == Spec => []TypeOK
  BY Invariance, IInvTypeOK, PTL

\* Whatever jobs die when, and whatever the service writes meanwhile, no store
\* holds a baseline, review, candidate or attempt of which the observation is
\* missing.  Foreign keys see to the rows; the baseline has none, and is safe
\* because a copy reads it before the observations and sets it with its own
\* (namespaced_storage.py:745, postgres_storage.py:856).
THEOREM NothingDangles == Spec => []NoDanglingRows
<1>1. IInv => NoDanglingRows
  BY DEF IInv, FilesInv, Sound, NoDanglingRows
<1> QED BY <1>1, Invariance, PTL

\* A backup, restore or import that reports success, and of which nobody has
\* written to what it read, has copied the store or the selection as it is
\* (storage.py:175, namespaced_storage.py:718, postgres_storage.py:839).
THEOREM CopiesAreWhole == Spec => []FinishedCopyIsWhole
<1>1. IInv => FinishedCopyIsWhole
  BY IInvFinished DEF FinishedCopyIsWhole
<1> QED BY <1>1, Invariance, PTL

\* An import into Postgres that reports success has set a baseline for every
\* source that had one when it began, even from a file in use
\* (postgres_storage.py:846).
THEOREM BaselinesAreCarried == Spec => []BaselineCarried
<1>1. IInv => BaselineCarried
  BY IInvFinished DEF BaselineCarried
<1> QED BY <1>1, Invariance, PTL
=============================================================================

-------------------------------- MODULE Fleet --------------------------------
(* The scheduled runs over all the sources of a workspace.  A run lists the    *)
(* sources by id, decides of each whether it is due and checks it before it    *)
(* goes on to the next.  A check that raises ends the run; the next run starts *)
(* from the first source again.  Runs overlap, and users enable and disable    *)
(* sources meanwhile.  One check is modelled in detail in Monitoring.          *)
EXTENDS Naturals, Sequences

CONSTANTS
  Last,        \* the sources are 1..Last, in the order of their ids
  Scheduled,   \* the runs an external scheduler starts again and again
  Requested,   \* the runs users ask for
  Interval     \* monitor_interval_minutes, the same for all

ASSUME FleetAssumption ==
  /\ Last \in Nat \ {0} /\ Interval \in Nat \ {0}
  /\ Scheduled \cap Requested = {}

Source == 1..Last
Run == Scheduled \cup Requested

VARIABLES
  enabled,   \* the source is enabled
  raises,    \* the check of the source raises, for the data the source has now
  age,       \* time since its latest observation: at Interval and above, or
             \* without an observation, it is due
  pc,        \* of each run: "off", "decide" or "check"
  listed,    \* the sources it has yet to look at, as it read them
  all,       \* it checks all sources, due or not
  took       \* how long its current check has taken

vars == <<enabled, raises, age, pc, listed, all, took>>

Init ==
  /\ enabled \in [Source -> BOOLEAN]
  /\ raises = [s \in Source |-> FALSE]
  /\ age = [s \in Source |-> Interval]
  /\ pc = [r \in Run |-> "off"]
  /\ listed = [r \in Run |-> <<>>]
  /\ all = [r \in Run |-> FALSE]
  /\ took = [r \in Run |-> 0]

Goto(r, label) == pc' = [pc EXCEPT ![r] = label]

\* The run is over, done or not.
End(r) ==
  /\ Goto(r, "off")
  /\ listed' = [listed EXCEPT ![r] = <<>>]
  /\ all' = [all EXCEPT ![r] = FALSE]
  /\ took' = [took EXCEPT ![r] = 0]

\* It goes on with the next source, if there is one.
Skip(r) ==
  IF Len(listed[r]) = 1
  THEN End(r)
  ELSE /\ Goto(r, "decide")
       /\ listed' = [listed EXCEPT ![r] = Tail(@)]
       /\ took' = [took EXCEPT ![r] = 0]
       /\ UNCHANGED all

\* check_due_sources, or check_all_sources.
StartRun(r, everything) ==
  /\ pc[r] = "off"
  /\ Goto(r, "decide")
  /\ listed' = [listed EXCEPT ![r] = [s \in Source |-> [id |-> s, enabled |-> enabled[s]]]]
  /\ all' = [all EXCEPT ![r] = everything]
  /\ UNCHANGED <<enabled, raises, age, took>>

\* run_decision, of the source as it was listed.
RunDecision(r, source) == source.enabled /\ (all[r] \/ age[source.id] >= Interval)

\* Mutant: the run stops at the first source that is not due.
DecideUntilNotDue(r) ==
  /\ pc[r] = "decide"
  /\ IF ~RunDecision(r, Head(listed[r])) \/ ~enabled[Head(listed[r]).id]
     THEN End(r)
     ELSE Goto(r, "check") /\ UNCHANGED <<listed, all, took>>
  /\ UNCHANGED <<enabled, raises, age>>

\* check_source reads the source again, and raises if it is disabled by now.
Decide(r) ==
  LET source == Head(listed[r])
  IN  /\ pc[r] = "decide"
      /\ CASE ~RunDecision(r, source) -> Skip(r)
           [] RunDecision(r, source) /\ ~enabled[source.id] -> End(r)
           [] OTHER -> Goto(r, "check") /\ UNCHANGED <<listed, all, took>>
      /\ UNCHANGED <<enabled, raises, age>>

\* The observation carries the time its check began; the latest one is the one
\* whose check began last, which need not be the one saved last.
SaveCheck(r, s) ==
  /\ pc[r] = "check" /\ Head(listed[r]).id = s /\ ~raises[s]
  /\ age' = [age EXCEPT ![s] = IF took[r] < @ THEN took[r] ELSE @]
  /\ Skip(r)
  /\ UNCHANGED <<enabled, raises>>

RaiseInCheck(r) ==
  /\ pc[r] = "check" /\ raises[Head(listed[r]).id]
  /\ End(r)
  /\ UNCHANGED <<enabled, raises, age>>

EnableSource(s, on) ==
  /\ enabled' = [enabled EXCEPT ![s] = on]
  /\ UNCHANGED <<raises, age, pc, listed, all, took>>

\* The data of the source change to data its check raises on, or back.
Turn(s) ==
  /\ raises' = [raises EXCEPT ![s] = ~@]
  /\ UNCHANGED <<enabled, age, pc, listed, all, took>>

Older(t) == IF t < Interval THEN t + 1 ELSE t

Tick ==
  /\ age' = [s \in Source |-> Older(age[s])]
  /\ took' = [r \in Run |-> IF pc[r] = "check" THEN Older(took[r]) ELSE 0]
  /\ UNCHANGED <<enabled, raises, pc, listed, all>>

Step(r) == Decide(r) \/ RaiseInCheck(r) \/ \E s \in Source : SaveCheck(r, s)

Next ==
  \/ \E r \in Run : Step(r)
  \/ \E r \in Scheduled : StartRun(r, FALSE)
  \/ \E r \in Requested, everything \in BOOLEAN : StartRun(r, everything)
  \/ \E s \in Source : Turn(s) \/ \E on \in BOOLEAN : EnableSource(s, on)
  \/ Tick

\* Time passes, a run that has started goes on, and the scheduler starts it
\* again when it has ended; nothing makes users do anything.
Fairness ==
  /\ WF_vars(Tick)
  /\ \A r \in Run : WF_vars(Step(r))
  /\ \A r \in Scheduled : WF_vars(StartRun(r, FALSE))

Spec == Init /\ [][Next]_vars /\ Fairness

-----------------------------------------------------------------------------
(* Properties *)

\* A source that stays enabled is checked again and again, although it waits
\* for the sources before it in every run, as long as none of these keeps
\* raising or is switched on and off for ever: other sources, those after it
\* and those that are disabled or not due, cannot keep it from being checked
\* (service.py:471-477, scheduler.py:19-43).
EverySourceChecked ==
  \A s \in Source :
    /\ <>[](enabled[s] /\ \A x \in 1..s : ~raises[x])
    /\ <>[][\A x \in 1..s : enabled'[x] = enabled[x]]_vars
    => []<><<\E r \in Run : SaveCheck(r, s)>>_vars
=============================================================================

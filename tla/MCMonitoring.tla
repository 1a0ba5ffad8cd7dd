---------------------------- MODULE MCMonitoring ----------------------------
(* Monitoring and its scorecards on small instances. *)
EXTENDS Scorecards

Defined(transitions, keys) ==
  [enabled |-> TRUE, transitions |-> transitions, unique_keys |-> keys]

Policies == {Defined({"Opened", "Escalated"}, FALSE), Defined({"Recovered"}, FALSE)}
\* The later policy comes with a source that is switched off.
Revised == {Defined({"Opened", "Escalated"}, TRUE),
            [Defined({"Recovered"}, FALSE) EXCEPT !.enabled = FALSE]}
Keyed == {Defined({"Opened"}, TRUE)}

Outcome(health, usable, raw) == [health |-> health, usable |-> usable, raw |-> raw]

\* Results that matter to incidents, and to pruning.
HealthResults == {Outcome("Healthy", TRUE, FALSE), Outcome("Warning", TRUE, FALSE),
                  Outcome("Critical", FALSE, FALSE)}
RowResults == {Outcome("Healthy", TRUE, TRUE), Outcome("Critical", FALSE, FALSE)}

\* No guard, and no property but the type, reads the other variables.
View == <<sourceVars, now, pc, work>>
=============================================================================

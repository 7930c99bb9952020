---------------------------- MODULE MCScheduler ----------------------------
(***************************************************************************)
(* Small instances of Scheduler for TLC.                                   *)
(***************************************************************************)
EXTENDS Scheduler

\* "x" matches at 1 and 2 and "y" at 1 only, so that expressions run out.
CronInstants == [e \in Exprs |-> IF e = "x" THEN {1, 2} ELSE {1}]

\* One workflow with an entry written twice and another cron expression.
YamlEntries == LET Entry(e) == [workflow |-> CHOOSE w \in Workflows : TRUE, expr |-> e]
               IN  <<Entry("x"), Entry("x"), Entry("y")>>

\* No schedules.yaml.
NoEntries == <<>>

=============================================================================

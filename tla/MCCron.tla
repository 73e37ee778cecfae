------------------------------- MODULE MCCron -------------------------------
(* Small instances of CronScheduler for TLC.                                *)
EXTENDS CronScheduler

CONSTANTS hand, assistant

At1    == [kind |-> "at", t |-> 1]
Every1 == [kind |-> "every", t |-> 1]
Every2 == [kind |-> "every", t |-> 2]
Cron0  == [kind |-> "cron", t |-> 0]

MCSchedules == {At1, Every1, Every2, Cron0}
Job(a, s, enabled, oneShot, name, program) ==
  [agent |-> a, sched |-> s, enabled |-> enabled, oneShot |-> oneShot,
   name |-> name, program |-> program]

(* With one job: two agents, every kind of schedule.                        *)
MCJobInputs ==
  {Job(hand,      Every2, TRUE,  FALSE, "n", NoProgram),
   Job(hand,      At1,    TRUE,  TRUE,  "n", NoProgram),
   Job(assistant, At1,    TRUE,  FALSE, "n", NoProgram),
   Job(assistant, Cron0,  FALSE, FALSE, "n", NoProgram)}

(* With two jobs: one that recurs and one that is removed when it succeeds. *)
(* Two of one definition share a name; one of each run the same program.    *)
MCPairInputs ==
  {Job(hand, Every1, TRUE, FALSE, "n", "p"),
   Job(hand, Every1, TRUE, TRUE,  "m", "p")}

(* The one cron expression of the instances fires at every odd instant.     *)
MCCronNext(e, t) == IF t % 2 = 0 THEN t + 1 ELSE t + 2
=============================================================================

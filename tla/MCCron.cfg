\* One job, one on-demand runner: every operation on the job interleaved.
SPECIFICATION Spec
CONSTANTS
  JobId = {1}
  hand = hand
  assistant = assistant
  Agents = {hand, assistant}
  HandAgent = hand
  DefaultAgent = assistant
  Schedules <- MCSchedules
  JobInputs <- MCJobInputs
  CronNext <- MCCronNext
  Names = {"n", "m"}
  Programs = {"p"}
  NoProgram = "none"
  ManualRunners = {m1}
  MaxTime = 3
  MaxHands = 2
  MaxErrors = 2
  MaxTotalJobs = 2
  MaxJobsPerAgent = 2
  Tick = tick
  Unborn = unborn
  Removed = removed
  Idle = idle
INVARIANTS TypeOK ErrorBudget ReconcileClean
PROPERTIES IntervalRespected RemovedStaysRemoved ManualRunKeepsSchedule
CHECK_DEADLOCK FALSE

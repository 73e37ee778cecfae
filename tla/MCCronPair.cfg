\* Two jobs of one agent in one tick loop; no on-demand runs.
SPECIFICATION Spec
CONSTANTS
  JobId = {1, 2}
  hand = hand
  assistant = assistant
  Agents = {hand}
  HandAgent = hand
  DefaultAgent = hand
  Schedules <- MCSchedules
  JobInputs <- MCPairInputs
  CronNext <- MCCronNext
  Names = {"n", "m"}
  Programs = {"p"}
  NoProgram = "none"
  ManualRunners = {}
  MaxTime = 1
  MaxHands = 1
  MaxErrors = 2
  MaxTotalJobs = 2
  MaxJobsPerAgent = 2
  Tick = tick
  Unborn = unborn
  Removed = removed
  Idle = idle
INVARIANT ReconcileClean
PROPERTY DueJobsStart
CHECK_DEADLOCK FALSE

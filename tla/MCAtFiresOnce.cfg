\* One job, one on-demand runner: does an At job fire at two ticks?
SPECIFICATION Spec
CONSTANTS
  JobId = {1}
  hand = hand
  assistant = assistant
  Agents = {hand, assistant}
  HandAgent = hand
  DefaultAgent = assistant
  Schedules <- MCSchedules
  JobInputs <- MCJobInputs
  CronNext <- MCCronNext
  Names = {"n", "m"}
  Programs = {"p"}
  NoProgram = "none"
  ManualRunners = {m1}
  MaxTime = 2
  MaxHands = 2
  MaxErrors = 2
  MaxTotalJobs = 2
  MaxJobsPerAgent = 2
  Tick = tick
  Unborn = unborn
  Removed = removed
  Idle = idle
PROPERTY AtFiresOnce
CHECK_DEADLOCK FALSE

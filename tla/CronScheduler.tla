---------------------------- MODULE CronScheduler ----------------------------
(***************************************************************************)
(* The cron engine of the kernel: the job table of                         *)
(* openfang-kernel/src/cron.rs, the tick loop that fires due jobs, the     *)
(* on-demand runs of the HTTP API, and the kernel operations that remove   *)
(* or move the jobs of an agent (kill_agent, activate_hand,                *)
(* reconcile_persisted_cron_jobs).                                         *)
(*                                                                         *)
(* The table is a DashMap: every operation on one entry holds that entry's *)
(* shard lock, so it is one atomic step here.  An operation that takes the *)
(* lock twice (update_job, record_success on a one-shot job) is two steps, *)
(* and an execution is a step that starts it and a later one that records  *)
(* its outcome, with everything else interleaved in between.               *)
(*                                                                         *)
(* Time is a clock that any step may find advanced; one unit is at most    *)
(* the tick period.  The cron_jobs.json file is not part of this module.   *)
(***************************************************************************)
EXTENDS Integers, FiniteSets

CONSTANTS
  JobId,             \* ids handed out by CronJobId::new (never reused), numbers
  Agents,            \* agent ids
  HandAgent,         \* the fixed agent id of the one hand of the model
  DefaultAgent,      \* the agent named "assistant", target of reassigned jobs
  Schedules,         \* the schedules of the jobs clients submit
  JobInputs,         \* the job definitions clients submit
  CronNext(_, _),    \* the cron crate: first instant of an expression after t
  Names,             \* display names of jobs
  Programs,          \* the programs (path and options) of AinlRun actions
  NoProgram,         \* any other action of a job
  ManualRunners,     \* concurrent on-demand runs, from the API and from chats
  MaxTime,           \* bound on the clock
  MaxHands,          \* bound on the instances of the hand
  MaxErrors,         \* MAX_CONSECUTIVE_ERRORS
  MaxTotalJobs,      \* max_total_jobs
  MaxJobsPerAgent,   \* MAX_JOBS_PER_AGENT
  Tick,              \* the tick loop, as a runner
  Unborn, Removed,   \* a job id not handed out yet, a job no longer in the map
  Idle               \* a runner with nothing in flight

Runners == ManualRunners \cup {Tick}
Time    == 0..MaxTime
Never   == -1

JobDef == [agent : Agents, sched : Schedules, enabled : BOOLEAN, oneShot : BOOLEAN,
           name : Names, program : Programs \cup {NoProgram}]

(* A job with its bookkeeping; agentMissing stands for a last_status that   *)
(* mentions "not found" or "No such agent".                                 *)
JobMeta == [agent : Agents, sched : Schedules, enabled : BOOLEAN, oneShot : BOOLEAN,
            name : Names, program : Programs \cup {NoProgram},
            next : Nat, errs : Nat, agentMissing : BOOLEAN]

ASSUME ConstantsAssumption ==
  /\ JobId \subseteq Nat
  /\ HandAgent \in Agents
  /\ MaxTime \in Nat
  /\ MaxErrors \in Nat \ {0}
  /\ Tick \notin ManualRunners
  /\ Unborn # Removed
  /\ {Unborn, Removed} \cap JobMeta = {}
  /\ JobInputs \subseteq JobDef

(* Every schedule is well formed: an interval is positive (MIN_EVERY_SECS   *)
(* is 60), and `t' names the expression of a cron schedule.                 *)
ASSUME ScheduleAssumption ==
  \A s \in Schedules :
    /\ s \in [kind : {"at", "every", "cron"}, t : Nat]
    /\ s.kind = "every" => s.t > 0

(* The cron crate is external: all that is used of it is that it answers    *)
(* with an instant later than the one it is asked about.                    *)
ASSUME CronCrateAssumption ==
  \A s \in Schedules, t \in Time :
    s.kind = "cron" => CronNext(s.t, t) \in Nat /\ CronNext(s.t, t) > t

VARIABLES
  now,         \* Utc::now()
  jobs,        \* CronScheduler.jobs
  edit,        \* the job an update_job call has looked up and not yet written
  alive,       \* ids in the agent registry
  hands,       \* how many instances of the hand are Active and Paused
  queue,       \* snapshots due_jobs returned that the tick loop has yet to run
  run,         \* what each runner is executing
  lastDue      \* history: when the tick last returned the job as due

vars == <<now, jobs, edit, alive, hands, queue, run, lastDue>>

(* What a run carries of its job, and the runs themselves.                  *)
Snapshot == [job : JobId, agent : Agents]
Run      == [snap : Snapshot, phase : {"executing", "removing"}]

(* The scheduler's state is well typed; every job in the table has the      *)
(* next_run that due_jobs compares with the clock.                          *)
TypeOK ==
  /\ now \in Time
  /\ jobs \in [JobId -> JobMeta \cup {Unborn, Removed}]
  /\ edit \in JobId \cup {Idle}
  /\ alive \subseteq Agents
  /\ hands \in [active : Nat, paused : Nat]
  /\ queue \subseteq Snapshot
  /\ run \in [Runners -> Run \cup {Idle}]
  /\ lastDue \in [JobId -> Time \cup {Never}]

Live(j)     == jobs[j] \notin {Unborn, Removed}
LiveJobs    == {j \in JobId : Live(j)}
JobsOf(a)   == {j \in LiveJobs : jobs[j].agent = a}
Due(j)      == Live(j) /\ jobs[j].enabled /\ jobs[j].next <= now
Queued(j)   == \E q \in queue : q.job = j
TickRuns(j) == run[Tick] # Idle /\ run[Tick].snap.job = j

ComputeNextRunAfter(s, after) ==
  CASE s.kind = "at"    -> s.t
    [] s.kind = "every" -> after + s.t
    [] s.kind = "cron"  -> CronNext(s.t, after)

(* Mutant of SkipOverdue: next_run recomputed whether or not it is overdue. *)
SkipAlways(meta) ==
  [meta EXCEPT !.next = ComputeNextRunAfter(meta.sched, now)]

SkipOverdue(meta) ==
  [meta EXCEPT !.next = IF meta.next <= now THEN ComputeNextRunAfter(meta.sched, now)
                                            ELSE meta.next]

-----------------------------------------------------------------------------
(* CRUD.  CronJob::validate rejects an instant that is already past and an  *)
(* agent that has its quota of jobs.                                        *)

Valid(def, others) ==
  /\ Cardinality(others) < MaxJobsPerAgent
  /\ def.sched.kind = "at" => def.sched.t > now

(* Mutant of NewMeta: the initial next_run is not computed.                 *)
NewMetaNoNextRun(def) ==
  [agent |-> def.agent, sched |-> def.sched, enabled |-> def.enabled,
   oneShot |-> def.oneShot, name |-> def.name, program |-> def.program,
   next |-> Never, errs |-> 0, agentMissing |-> FALSE]

NewMeta(def) ==
  [agent |-> def.agent, sched |-> def.sched, enabled |-> def.enabled,
   oneShot |-> def.oneShot, name |-> def.name, program |-> def.program,
   next |-> ComputeNextRunAfter(def.sched, now), errs |-> 0, agentMissing |-> FALSE]

AddJob(j, def) ==
  /\ jobs[j] = Unborn
  /\ Cardinality(LiveJobs) < MaxTotalJobs
  /\ Valid(def, JobsOf(def.agent))
  /\ jobs' = [jobs EXCEPT ![j] = NewMeta(def)]
  /\ UNCHANGED <<now, edit, alive, hands, queue, run, lastDue>>

RemoveJob(j) ==
  /\ Live(j)
  /\ jobs' = [jobs EXCEPT ![j] = Removed]
  /\ UNCHANGED <<now, edit, alive, hands, queue, run, lastDue>>

(* update_job looks the entry up, validates the new definition, and looks   *)
(* the entry up again to write it; one_shot and last_status are kept.       *)
UpdateJobLookup(j) ==
  /\ edit = Idle
  /\ Live(j)
  /\ edit' = j
  /\ UNCHANGED <<now, jobs, alive, hands, queue, run, lastDue>>

Rewritten(meta, def) ==
  [meta EXCEPT !.agent = def.agent, !.sched = def.sched, !.enabled = def.enabled,
               !.name = def.name, !.program = def.program,
               !.next = ComputeNextRunAfter(def.sched, now), !.errs = 0]

(* Mutant of UpdateJobWrite: the entry is inserted, not looked up again.    *)
UpdateJobInsert(def) ==
  /\ edit # Idle
  /\ edit' = Idle
  /\ jobs' = [jobs EXCEPT ![edit] = NewMeta(def)]
  /\ lastDue' = [lastDue EXCEPT ![edit] = Never]
  /\ UNCHANGED <<now, alive, hands, queue, run>>

UpdateJobWrite(def) ==
  /\ edit # Idle
  /\ edit' = Idle
  /\ IF Live(edit) /\ Valid(def, JobsOf(def.agent) \ {edit})
     THEN /\ jobs' = [jobs EXCEPT ![edit] = Rewritten(jobs[edit], def)]
          /\ lastDue' = [lastDue EXCEPT ![edit] = Never]
     ELSE UNCHANGED <<jobs, lastDue>>
  /\ UNCHANGED <<now, alive, hands, queue, run>>

Reenabled(meta) ==
  [meta EXCEPT !.enabled = TRUE, !.errs = 0, !.next = ComputeNextRunAfter(meta.sched, now)]

SetEnabled(j, enabled) ==
  /\ Live(j)
  /\ jobs' = [jobs EXCEPT ![j] = IF enabled THEN Reenabled(@)
                                            ELSE [@ EXCEPT !.enabled = FALSE]]
  /\ UNCHANGED <<now, edit, alive, hands, queue, run, lastDue>>

-----------------------------------------------------------------------------
(* What the kernel does to the jobs of an agent.                            *)

RemoveAgentJobs(table, a) ==
  [j \in JobId |-> IF table[j] \notin {Unborn, Removed} /\ table[j].agent = a
                   THEN Removed ELSE table[j]]

(* reassign_agent_jobs: a job disabled because its agent was missing gets   *)
(* another chance, any other disabled job stays disabled.                   *)
ReassignAgentJobs(table, old, new) ==
  [j \in JobId |->
     IF table[j] \in {Unborn, Removed} THEN table[j]
     ELSE IF table[j].agent # old THEN table[j]
     ELSE IF table[j].enabled \/ ~table[j].agentMissing
     THEN [table[j] EXCEPT !.agent = new, !.errs = 0]
     ELSE [table[j] EXCEPT !.agent = new, !.errs = 0, !.enabled = TRUE,
                           !.next = ComputeNextRunAfter(table[j].sched, now)]]

(* Mutant of ReassignFromMissing: a disabled job stays with its agent.      *)
ReassignEnabledFromMissing(table, fallback) ==
  [j \in JobId |->
     IF table[j] \in {Unborn, Removed} THEN table[j]
     ELSE IF table[j].agent \in alive \/ ~table[j].enabled THEN table[j]
     ELSE [table[j] EXCEPT !.agent = fallback, !.errs = 0,
                           !.next = ComputeNextRunAfter(table[j].sched, now)]]

ReassignFromMissing(table, fallback) ==
  [j \in JobId |->
     IF table[j] \in {Unborn, Removed} THEN table[j]
     ELSE IF table[j].agent \in alive THEN table[j]
     ELSE [table[j] EXCEPT !.agent = fallback, !.errs = 0,
                           !.next = ComputeNextRunAfter(table[j].sched, now),
                           !.enabled = table[j].enabled \/ table[j].agentMissing]]

(* The dedupe functions keep the lowest id of every group of duplicates.    *)
Dedupe(table, Same(_, _)) ==
  [j \in JobId |->
     IF /\ table[j] \notin {Unborn, Removed}
        /\ \E k \in JobId : /\ k < j
                            /\ table[k] \notin {Unborn, Removed}
                            /\ Same(table[k], table[j])
     THEN Removed ELSE table[j]]

SameName(m, n) == m.name = n.name

SameProgram(m, n) ==
  /\ m.program # NoProgram
  /\ <<m.agent, m.sched, m.program>> = <<n.agent, n.sched, n.program>>

(* Mutant of DedupeByName: the survivor of a group goes with the others.    *)
DedupeByNameAll(table) ==
  [j \in JobId |->
     IF /\ table[j] \notin {Unborn, Removed}
        /\ \E k \in JobId \ {j} : /\ table[k] \notin {Unborn, Removed}
                                   /\ SameName(table[k], table[j])
     THEN Removed ELSE table[j]]

DedupeByName(table) == Dedupe(table, SameName)

DedupeByProgram(table) == Dedupe(table, SameProgram)

SpawnAgent(a) ==
  /\ a \notin alive \cup {HandAgent}
  /\ alive' = alive \cup {a}
  /\ UNCHANGED <<now, jobs, edit, hands, queue, run, lastDue>>

KillAgent(a) ==
  /\ a \in alive
  /\ alive' = alive \ {a}
  /\ jobs' = RemoveAgentJobs(jobs, a)
  /\ UNCHANGED <<now, edit, hands, queue, run, lastDue>>

(* activate_hand: an agent of the hand's name left over from before (the    *)
(* registry restored from SQLite at boot, or a paused instance) is killed,  *)
(* the agent is spawned again under its fixed id, and the jobs of the old   *)
(* id are moved to the new one.  If the spawn fails the instance stays.     *)
ActivateHand(spawned) ==
  /\ hands.active = 0
  /\ hands.paused < MaxHands   \* bound
  /\ hands' = [hands EXCEPT !.active = 1]
  /\ alive' = IF spawned THEN alive \cup {HandAgent} ELSE alive \ {HandAgent}
  /\ LET killed == RemoveAgentJobs(jobs, HandAgent) IN
       jobs' = IF HandAgent \notin alive THEN jobs
               ELSE IF spawned THEN ReassignAgentJobs(killed, HandAgent, HandAgent)
               ELSE killed
  /\ UNCHANGED <<now, edit, queue, run, lastDue>>

PauseHand ==
  /\ hands.active > 0
  /\ hands' = [active |-> hands.active - 1, paused |-> hands.paused + 1]
  /\ UNCHANGED <<now, jobs, edit, alive, queue, run, lastDue>>

ResumeHand ==
  /\ hands.paused > 0
  /\ hands' = [active |-> hands.active + 1, paused |-> hands.paused - 1]
  /\ UNCHANGED <<now, jobs, edit, alive, queue, run, lastDue>>

(* Every instance of the hand names the same agent, or none if its spawn    *)
(* failed; then the agent is found by its tag.                              *)
DeactivateHand ==
  /\ \E status \in {"active", "paused"} :
       /\ hands[status] > 0
       /\ hands' = [hands EXCEPT ![status] = @ - 1]
  /\ alive' = alive \ {HandAgent}
  /\ jobs' = IF HandAgent \in alive THEN RemoveAgentJobs(jobs, HandAgent) ELSE jobs
  /\ UNCHANGED <<now, edit, queue, run, lastDue>>

(* Jobs are moved before duplicates are looked for, by name first.          *)
Reconciled(table, fallback) ==
  DedupeByProgram(DedupeByName(ReassignFromMissing(table, fallback)))

ReconcileJobs ==
  /\ \E fallback \in alive :
       /\ DefaultAgent \in alive => fallback = DefaultAgent
       /\ jobs' = Reconciled(jobs, fallback)
  /\ UNCHANGED <<now, edit, alive, hands, queue, run, lastDue>>

-----------------------------------------------------------------------------
(* The tick loop.  It takes the due jobs, advancing next_run as it goes,    *)
(* then runs them one after the other; jobs that come due meanwhile wait.   *)

(* Mutant of PreAdvanced: due_jobs leaves next_run alone.                   *)
NotAdvanced(meta) == meta

PreAdvanced(meta) == [meta EXCEPT !.next = ComputeNextRunAfter(meta.sched, now)]

DueJobs ==
  LET due == {j \in JobId : Due(j)} IN
  /\ queue = {}
  /\ run[Tick] = Idle
  /\ due # {}
  /\ queue' = {[job |-> j, agent |-> jobs[j].agent] : j \in due}
  /\ jobs' = [j \in JobId |-> IF j \in due THEN PreAdvanced(jobs[j]) ELSE jobs[j]]
  /\ lastDue' = [j \in JobId |-> IF j \in due THEN now ELSE lastDue[j]]
  /\ UNCHANGED <<now, edit, alive, hands, run>>

(* Mutant of StartDue: the loop forgets the jobs behind the one it starts.  *)
StartDueDropRest ==
  /\ run[Tick] = Idle
  /\ \E q \in queue :
       run' = [run EXCEPT ![Tick] = [snap |-> q, phase |-> "executing"]]
  /\ queue' = {}
  /\ UNCHANGED <<now, jobs, edit, alive, hands, lastDue>>

StartDue ==
  /\ run[Tick] = Idle
  /\ \E q \in queue :
       /\ queue' = queue \ {q}
       /\ run' = [run EXCEPT ![Tick] = [snap |-> q, phase |-> "executing"]]
  /\ UNCHANGED <<now, jobs, edit, alive, hands, lastDue>>

(* POST /api/cron/jobs/{id}/run: claim under one lock, execute in the       *)
(* background.                                                              *)
TryClaimForRun(r, j) ==
  /\ run[r] = Idle
  /\ Live(j)
  /\ jobs[j].enabled
  /\ jobs' = [jobs EXCEPT ![j] = SkipOverdue(@)]
  /\ run' = [run EXCEPT ![r] = [snap  |-> [job |-> j, agent |-> jobs[j].agent],
                                phase |-> "executing"]]
  /\ UNCHANGED <<now, edit, alive, hands, queue, lastDue>>

(* The chat command /schedule run claims nothing: it runs the job, enabled  *)
(* or not, and leaves an overdue fire to the tick.  A bound: the failures   *)
(* of a disabled job are counted up to one over the budget.                 *)
RunFromChat(r, j) ==
  /\ run[r] = Idle
  /\ Live(j)
  /\ jobs[j].errs <= MaxErrors
  /\ run' = [run EXCEPT ![r] = [snap  |-> [job |-> j, agent |-> jobs[j].agent],
                                phase |-> "executing"]]
  /\ UNCHANGED <<now, jobs, edit, alive, hands, queue, lastDue>>

-----------------------------------------------------------------------------
(* Outcomes.  cron_run_job records exactly one, whatever the action of the  *)
(* job; the record is lost on a job that has left the table meanwhile.      *)

AfterSuccess(meta) == [meta EXCEPT !.errs = 0, !.agentMissing = FALSE]

(* Mutant of AfterFailure: one failure too many is tolerated.               *)
AfterFailureOffByOne(meta, missing) ==
  LET failed == [meta EXCEPT !.errs = meta.errs + 1, !.agentMissing = missing]
  IN  IF failed.errs > MaxErrors THEN [failed EXCEPT !.enabled = FALSE]
                                 ELSE SkipOverdue(failed)

AfterFailure(meta, missing) ==
  LET failed == [meta EXCEPT !.errs = meta.errs + 1, !.agentMissing = missing]
  IN  IF failed.errs >= MaxErrors THEN [failed EXCEPT !.enabled = FALSE]
                                  ELSE SkipOverdue(failed)

RecordSuccess(r) ==
  /\ run[r] # Idle
  /\ run[r].phase = "executing"
  /\ LET j == run[r].snap.job IN
       IF Live(j)
       THEN /\ jobs' = [jobs EXCEPT ![j] = AfterSuccess(@)]
            /\ run' = [run EXCEPT ![r] = IF jobs[j].oneShot
                                         THEN [@ EXCEPT !.phase = "removing"] ELSE Idle]
       ELSE /\ run' = [run EXCEPT ![r] = Idle]
            /\ UNCHANGED jobs
  /\ UNCHANGED <<now, edit, alive, hands, queue, lastDue>>

RemoveOneShot(r) ==
  /\ run[r] # Idle
  /\ run[r].phase = "removing"
  /\ LET j == run[r].snap.job IN
       jobs' = IF Live(j) THEN [jobs EXCEPT ![j] = Removed] ELSE jobs
  /\ run' = [run EXCEPT ![r] = Idle]
  /\ UNCHANGED <<now, edit, alive, hands, queue, lastDue>>

(* The text of the error decides whether the failure counts as a missing    *)
(* agent: a turn sent to an agent that is not in the registry fails with    *)
(* "not found", but so may a workflow, a program or a file.                 *)
RecordFailure(r) ==
  /\ run[r] # Idle
  /\ run[r].phase = "executing"
  /\ LET j == run[r].snap.job IN
       \E missing \in BOOLEAN :
         jobs' = IF Live(j) THEN [jobs EXCEPT ![j] = AfterFailure(@, missing)] ELSE jobs
  /\ run' = [run EXCEPT ![r] = Idle]
  /\ UNCHANGED <<now, edit, alive, hands, queue, lastDue>>

Elapse ==
  /\ now < MaxTime
  /\ now' = now + 1
  /\ UNCHANGED <<jobs, edit, alive, hands, queue, run, lastDue>>

-----------------------------------------------------------------------------
Init ==
  /\ now = 0
  /\ jobs = [j \in JobId |-> Unborn]
  /\ edit = Idle
  /\ alive = Agents
  /\ hands = [active |-> 1, paused |-> 0]
  /\ queue = {}
  /\ run = [r \in Runners |-> Idle]
  /\ lastDue = [j \in JobId |-> Never]

Crud ==
  \/ \E j \in JobId, def \in JobInputs : AddJob(j, def)
  \/ \E j \in JobId : RemoveJob(j)
  \/ \E j \in JobId : UpdateJobLookup(j)
  \/ \E def \in JobInputs : UpdateJobWrite(def)
  \/ \E j \in JobId, e \in BOOLEAN : SetEnabled(j, e)

AgentChange ==
  \/ \E a \in Agents : SpawnAgent(a)
  \/ \E a \in Agents : KillAgent(a)
  \/ \E spawned \in BOOLEAN : ActivateHand(spawned)
  \/ PauseHand
  \/ ResumeHand
  \/ DeactivateHand
  \/ ReconcileJobs

Outcome(r) == RecordSuccess(r) \/ RemoveOneShot(r) \/ RecordFailure(r)
ManualRun  == \E r \in ManualRunners, j \in JobId : TryClaimForRun(r, j) \/ RunFromChat(r, j)

Next ==
  \/ Elapse
  \/ Crud
  \/ AgentChange
  \/ DueJobs
  \/ StartDue
  \/ ManualRun
  \/ \E r \in Runners : Outcome(r)

(* The tick loop keeps coming back (tokio interval), and every execution is *)
(* bounded by the timeout of its action, so it ends with an outcome.        *)
Fairness ==
  /\ WF_vars(DueJobs)
  /\ WF_vars(StartDue)
  /\ WF_vars(Outcome(Tick))

Spec == Init /\ [][Next]_vars /\ Fairness

-----------------------------------------------------------------------------
(* Properties.                                                              *)

(* A job that has failed MAX_CONSECUTIVE_ERRORS times in a row is disabled: *)
(* no interleaving of failing runs, manual runs, edits, re-enables and      *)
(* reassignments leaves an enabled job at or over its error budget.         *)
ErrorBudget ==
  \A j \in JobId : Live(j) /\ jobs[j].enabled => jobs[j].errs < MaxErrors

(* due_jobs pre-advances next_run so that the tick never fires an interval  *)
(* job twice within its interval, whatever manual runs, failures and        *)
(* re-enables happen in between.                                            *)
IntervalStep ==
  \A j \in JobId :
    /\ Live(j)
    /\ jobs[j].sched.kind = "every"
    /\ lastDue[j] # Never
    /\ lastDue'[j] \notin {lastDue[j], Never}
    => lastDue'[j] >= lastDue[j] + jobs[j].sched.t
IntervalRespected == [][IntervalStep]_vars

(* A job that was deleted (by a client, with its agent, as a duplicate or   *)
(* as a completed one-shot) never comes back, although an edit, a run or    *)
(* the tick may still hold its id or a snapshot of it.                      *)
RemovedStep == \A j \in JobId : jobs[j] = Removed => jobs'[j] = Removed
RemovedStaysRemoved == [][RemovedStep]_vars

(* A run on demand (try_claim_for_run, /schedule run) and the outcome of a  *)
(* run leave the next scheduled fire of a job alone unless that fire is     *)
(* already overdue.                                                         *)
KeepsScheduleStep ==
  ManualRun \/ (\E r \in Runners : Outcome(r)) =>
    \A j \in JobId :
      Live(j) /\ jobs[j].next > now /\ jobs'[j] # Removed
        => jobs'[j].next = jobs[j].next
ManualRunKeepsSchedule == [][KeepsScheduleStep]_vars

(* reconcile_persisted_cron_jobs removes in two passes that know nothing of *)
(* each other.  Still, what it would leave of any table the scheduler can   *)
(* reach is clean: every job belongs to a registered agent, and no two      *)
(* share a name, or the agent, schedule and program of an AinlRun.  And no  *)
(* job is lost without cause: the oldest job of its name is left, or one    *)
(* that is older still and runs that job's program on the same schedule.    *)
LeavesClean(t) ==
  LET left == {j \in JobId : t[j] \notin {Unborn, Removed}} IN
  /\ \A j \in left : t[j].agent \in alive
  /\ \A j, k \in left :
       \/ j = k
       \/ /\ t[j].name # t[k].name
          /\ \/ t[j].program = NoProgram
             \/ \E f \in {"agent", "sched", "program"} : t[j][f] # t[k][f]
  /\ \A j \in LiveJobs :
       \E k \in LiveJobs :
         /\ k <= j
         /\ jobs[k].name = jobs[j].name
         /\ \/ k \in left
            \/ \E l \in left : /\ l < k
                               /\ t[l].program = jobs[k].program
                               /\ t[l].program # NoProgram
                               /\ t[l].sched = jobs[k].sched
ReconcileClean == \A fallback \in alive : LeavesClean(Reconciled(jobs, fallback))

(* Liveness: a job that is due is picked up by the tick or stops being due  *)
(* (disabled, edited, removed, claimed), and a job picked up is executed,   *)
(* although the loop runs jobs one at a time and is blocked while one runs. *)
DueJobsStart ==
  \A j \in JobId : /\ Due(j) ~> (Queued(j) \/ ~Due(j))
                   /\ Queued(j) ~> TickRuns(j)

(* "Fire once at a specific time": the tick does not return an At job as    *)
(* due again at a later tick once it has been run without failing.          *)
AtFiresOnce ==
  [][\A j \in JobId :
       /\ Live(j)
       /\ jobs[j].sched.kind = "at"
       /\ jobs[j].errs = 0
       /\ lastDue[j] # Never
       => lastDue'[j] \in {lastDue[j], Never}]_vars

(* Activating a hand again keeps the jobs of its agent.                     *)
HandJobsSurvive ==
  [][ActivateHand(TRUE) => \A j \in JobsOf(HandAgent) : jobs'[j] # Removed]_vars
=============================================================================

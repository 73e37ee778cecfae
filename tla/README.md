# A TLA+ model of the ArmaraOS / OpenFang kernel

This directory models the parts of the agent kernel whose correctness depends
on the order in which threads, timers and people act: the **cron scheduler** and
its **file**, the **approval manager**, the shared **task queue**, the
**heartbeat monitor** and the **background executor** with the turns it starts.
TLC checks the models on small instances, TLAPS proves their main theorems for
every instance.

Paths below are relative to `src/crates/`.

## 1. Inventory of the system

The program is a daemon that runs LLM agents. One process holds one `Kernel`
(`openfang-kernel`), whose parts are shared by `Arc` between tokio tasks: HTTP
handlers, the tick loops the kernel starts, and one task per agent turn.
Most tables are `DashMap`s, so an operation on one entry is atomic and nothing
larger is.

| component | state | operations | what is hard | what makes it correct |
|---|---|---|---|---|
| cron scheduler (`openfang-kernel/src/cron.rs`, tick loop and `cron_run_job` in `kernel.rs`) | jobs with next_run, error count, enabled, one_shot; `cron_jobs.json` | add, remove, update, enable, claim for an on-demand run, due_jobs, record outcome, reassign, dedupe, load, persist | sequential tick loop over snapshots; on-demand runs beside it; multi-lock updates; persistence of a snapshot | a job fires once per due time, deleted jobs stay deleted, failing jobs stop, due jobs start |
| approval manager (`openfang-kernel/src/approval.rs`; gate in `openfang-runtime/src/tool_runner.rs`) | pending requests with oneshot channels, recent decisions | request_approval (waits), resolve, list, update_policy | timeout against a late decision, two deciders, dropped futures, check-then-insert cap | a guarded tool runs only if a person approved; requests always return |
| agent and hand lifecycle (`kernel.rs`, `registry.rs`, `openfang-hands`) | registry maps, SQLite rows, hand instances, quotas, capabilities, triggers, jobs per agent | spawn, kill, activate, pause, resume and deactivate hand, rename, restore at boot | partial failure of multi-step operations, stale entries saved after a kill | nothing of a killed agent remains, nothing of a live one is lost |
| heartbeat and supervisor (`heartbeat.rs`, `supervisor.rs`) | agent state, recovery counter, last activity | check, crash, recover, terminate | turns that finish late, phases that outlive their turn, statuses out of date when handled | a silent agent is noticed, a crashed one is handled, none is given up early |
| workflow engine (`workflow.rs`) | runs, step results | sequential, fan-out, collect, conditional, loop; retries | error policies, concurrent steps, eviction of runs | a run ends in Completed or Failed with one result per step |
| triggers, event bus (`triggers.rs`, `event_bus.rs`) | triggers with fire counts; bounded history, broadcast channels | register, evaluate, take and restore; publish, subscribe | limits evaluated lazily, lagging receivers | no trigger fires more than max_fires |
| background executor (`background.rs`) | one task per agent, busy flags, permit pool | start, tick, stop | permit awaited while busy, abort, second start, locks held across calls between agents | one tick per loop, at most N ticks at once, loops go on and end at shutdown |
| quotas (`scheduler.rs`, `metering.rs`) | usage windows, budgets | check, record | check before, charge after | bounded overspend |
| memory substrate (`openfang-memory`) | SQLite over a connection pool; task queue | task_post, task_claim, task_complete; sessions, KV | select-then-update over separate connections | one claimant per task, the right one; pending tasks are taken |
| agent loop and tool runner (`openfang-runtime`) | a turn | call the LLM, run tools in parallel batches, timeouts | cancellation at await points | no guarded tool without approval |
| loop guard, provider cooldown, session repair, shutdown (`openfang-runtime`) | counters, circuits, message lists, phases | record, probe, repair, drain | boundaries, probes racing, order of phases | blocks loops, reopens circuits, repaired history is well formed |
| wire protocol (`openfang-wire`) | peers, nonces | handshake, authenticated messages | replay, reordering | both ends authenticated |
| channels, API, CLI, desktop, extensions, skills, migration, ainl crates | mostly I/O | front ends and adapters | external services | out of scope of the models, except as environment |

Interactions: the API, the chat bridge and tools call into the kernel; the tick
loop runs `cron_run_job`, which sends a turn to an agent, runs a workflow or an
AINL program and records the outcome on the job; `kill_agent` and the hand
operations rewrite the jobs of an agent; a turn's tool call waits on the
approval manager, under a tool timeout and under `stop_agent_run`. Background
loops, chat messages and the `agent_*` tools all start turns, which hold the
lock of their agent; a turn reports its phase and stamps the registry, and the
heartbeat monitor reads both and sets the state the turn sets at its end.
Agents post and claim tasks through tools while other agents do the same.

`PROJECT.json` lists every component, and under `hazards` every place where an
order of events nobody tests matters, with the property that watches it.

## 2. Modules

| module | role |
|---|---|
| `CronScheduler` | job table, tick loop, on-demand runs, outcomes, what the kernel does to jobs of agents and hands |
| `MCCron` + `MCCron.cfg`, `MCCronPair.cfg`, `MCAtFiresOnce.cfg`, `MCHandJobsSurvive.cfg` | instances for TLC |
| `CronProofs` | inductive invariant and theorems about `CronScheduler` |
| `ApprovalGate` | abstract specification: what the approval gate promises |
| `Approval` | `request_approval` and `resolve`, one step per lock or channel access |
| `MCApproval` + `MCApproval.cfg` | instance for TLC |
| `ApprovalProofs` | invariant, refinement and cap theorems about `Approval` |
| `CronStore` | job table, `cron_jobs.json`, its temporary file, threads in `persist`, crash and boot |
| `MCCronStore` + `MCCronStore.cfg`; `CronStoreProofs` | instance; invariant and theorems |
| `TaskBoard` | abstract specification: what the task queue promises, with a claim in one step |
| `TaskQueue` | `task_post`, `task_claim`, `task_complete`, one step per SQL statement |
| `MCTaskQueue` + `MCTaskQueue.cfg`, `MCClaimedByOne.cfg`; `TaskQueueProofs` | instances; invariants, refinement and theorems |
| `Heartbeat` | the monitor, the recovery tracker, agent states and the turns that change them |
| `MCHeartbeat` + `MCHeartbeat.cfg`, `MCWatchdog.cfg`; `HeartbeatProofs` | instances; invariant and theorems |
| `Background` | background executor composed with turns: permits, locks, calls between agents, timeouts, shutdown |
| `MCBackground` + `MCBackground.cfg`, `MCStopStops.cfg`; `BackgroundProofs` | instances; invariant and theorems |

Operators whose comment begins with *Mutant of* are deliberate bugs; no
specification uses them. Each property is broken by one of them, which shows
that the property depends on the code it is about.

### CronScheduler and the code

| state | code |
|---|---|
| `jobs` | `CronScheduler.jobs`; `Unborn` is an id not handed out, `Removed` one no longer in the map (Uuids are not reused) |
| `edit` | an `update_job` call between its two lookups |
| `alive`, `hands` | ids in the agent registry; how many instances of one hand are Active and Paused |
| `queue`, `run[Tick]` | the snapshots `due_jobs` returned and the one being run by the loop |
| `run[m]` | an execution started by `POST /api/cron/jobs/{id}/run` (`TryClaimForRun`) or by `/schedule run` in chat (`RunFromChat`) |
| `now` | `Utc::now()`; advances at any time, so an operation may see any later instant |
| `lastDue` | history only: when the tick last returned the job |

Each function of `cron.rs` that changes the table is an action. `update_job`
and the success of a one-shot job take the lock twice and are two steps. An
execution is a start and an outcome with everything else in between;
`cron_run_job` records exactly one outcome on each of its paths, so all kinds of
action are one pair of steps. The error text decides later whether a disabled
job is revived (`last_status` contains "not found"), and any action may produce
such a text, so `agentMissing` is chosen freely on failure. The chat command
(`openfang-api/src/channel_bridge.rs:610`) takes a snapshot of the job and runs it
without `try_claim_for_run`: it claims nothing, moves no `next`, and also runs a
disabled job, whose failures go on counting; the model starts such a run only
while `errs <= MaxErrors`, which bounds the counter. `activate_hand`
kills the agent left from an earlier activation, spawns it again (or fails and
leaves the instance) and then reassigns jobs; the model composes the same two
table operations in the same order. The names and program signatures of jobs
exist for the two dedupe functions. `Reconciled` is what
`reconcile_persisted_cron_jobs` makes of a table. `ReconcileClean` says of every
table the scheduler can reach what that would be, whether or not the kernel
reconciles it then: every job with a registered agent, no duplicates, and for
every job a representative. The representative of a job is the oldest job of its
name, or, since the second pass may remove that one, a still older job that runs
the same program on the same schedule. Nothing stronger holds: a job with a
program of its own goes with the job whose name it shares.

Abstractions: schedules are `at t`, `every t` or a cron expression whose next
instant is given by the external `cron` crate, of which only "later than the
argument" is assumed (the fallback for a bad expression, one hour later, has
that property as well). Text validation in `CronJob::validate` is left out;
its quota and its check that an `at` instant lies ahead are kept. `add_job`,
`due_jobs`, `kill_agent` and the hand operations are single steps although they
visit entries one by one.

### Approval and the code

`pc[r]` follows a call of `request_approval`: limit check, insertion, event,
wait, and after a timeout removal and record. `call[h]` follows `resolve`: remove,
record, send. `Drop` is the future being dropped at an await point (tool
timeout, `stop_agent_run`); the pending entry stays, as in the code, and can
still be resolved by a person. `answered` is what the person was told. Requests
the gate never submits (tools not on the list, the full exec policy, hand
agents, which are approved automatically) are outside the model.

### CronStore and the code

A thread is whoever runs `add_job`, `remove_job` or `persist`. `add_job` is split
between its look at the size of the map and the insertion. `persist` is split
into the steps that other threads can observe: the iteration of the map, entry
by entry, the opening of the temporary file (which truncates it), the write and
the rename. `where` says which path leads to the file a thread has open: a
rename moves the file under whoever is writing it. Two snapshots written over
each other leave either the later one or `Torn`. `Crash` loses the table and the
threads; `Boot` is `load`, after which the kernel goes on with an empty table
when the file does not parse or cannot be read, and the next `persist` writes that
table over the file. Operations that do not persist (`/schedule add`
and `del` in chat, the removal of a one-shot job) are the same actions with
`saves = FALSE`. `saved`, `missed` and `clash` are history: what a caller whose
`persist` ran alone may rely on, which of these jobs a boot that could not load the
file left behind, and whether calls have overlapped since one ran alone. A boot
keeps `saved`: the promise stands, and `missed` names the only way it is broken.
A crash is the end of the process; power loss and unsynced pages are not
modelled. The per-agent limit has the same shape as the global one and is left
to `CronScheduler`.

### TaskQueue and the code

`rows` is the `task_queue` table; a task id is also its `created_at`. A call of
`task_claim` is `sticky` or `any` before the two SELECTs and `update` between a
SELECT and the UPDATE of `finish_claim`; nothing holds the table in between.
The strategies decide, as in the code, whether an empty sticky query falls back
and in which order rows are taken. Any statement may fail, which ends the call.
`task_complete` looks at neither the caller nor the status. The result, title
and description columns are left out; `task_list` only reads. `addressee`,
`claimed`, and in a call `settled` and `known` (what was settled and what was
posted when it began), are history.

`TaskBoard` is the queue as its users may think of it: tasks are posted for
someone or for anyone, a claim that has begun takes in one step some task that
was open when it began and may go to its agent, or returns with nothing, and what
is claimed or completed is settled for good. That it may take a task settled
since it began is the double claim of finding 3, stated as part of the promise.
`BoardSpec` says that `TaskQueue` implements it, with `posted` and `settled` read
off the rows and `pull` off the calls; the statement that selects a row maps to a
stutter and the UPDATE to the claim. Claimed and completed are both `settled`, so
the board does not see a completed row that a late UPDATE sets back to
in_progress. `FirstInLineTaken` is all the code gives a waiting task: no task stays
first in line for a polling agent. A task of low priority is not promised more,
because `ORDER BY priority DESC` passes it over as long as more urgent ones come.

### Heartbeat and the code

| state | code |
|---|---|
| `state`, `idle`, `life` | `AgentEntry.state`, the age of `last_active`, and `last_active` against `created_at` (the `IDLE_GRACE_SECS` test) |
| `phases` | `agent_loop_phases`: kind and age; removed by Done, by the monitor for agents not Running, by nothing else |
| `turn` | turns between the start and the kernel's `set_state`; streaming ones take no lock |
| `mon`, `status` | where the monitor is, and the statuses `check_agents` returned and the loop has yet to handle |
| `tracker` | `RecoveryTracker`: failures and the age of the last attempt |

Time is counted in checks of the monitor. A turn may hang for ever, fail, answer
silently (no Done phase) or be aborted by the restart endpoint. `manifest` is
chosen initially: reactive or scheduled, with or without quiet hours, agent of a
hand or not. Hands are spawned again under the same id, so the tracker of a
killed agent is met again by its successor. Left out: the notifications and
their rate limit, `Created` and `Suspended` agents (which `check_agents` skips),
the watchdog switched off, and the end of the monitor at shutdown.

### Background and the code

A member of `loop` is one tokio task of `start_agent`: at its busy test (`try`),
waiting for a permit, or asleep. `tasks` holds the handle `stop_agent` would
abort; inserting another drops the earlier handle without an abort. A tick is a
turn whose `from` is its loop; it becomes `returned` when the turn ends and
disappears when its watcher has dropped the permit and cleared the flag. A turn
waits for the lock of its agent, runs, may call agents, and ends. The `agent_*`
tools are in a serial lane, so a turn is in one of them at a time, but a tool may
wait for several calls at once:

| action | tools |
|---|---|
| `AgentSend` | `agent_send`: one call, counted and bounded by `AGENT_CALL_DEPTH` |
| `AgentFanOut` | `agent_delegate` and `agent_supervise` (one call), `agent_map_reduce` (one agent, several items), `agent_coordinate` (several agents): the depth is neither checked nor counted, and the tool goes on when all its calls have returned |
| `ToolTimeout` | the timeout of the tool drops all its calls with everything they wait for |
| `CallTimeout` | `agent_supervise` and `agent_coordinate` give up one call after a timeout of its own |

`agent_coordinate` starts its tasks level by level; a level is one fan-out, and the
turn may start the next when the calls have returned. Loops come from the staggered start at boot, from
`PUT` updates and from hand activations, each of which stops before it starts,
with anything in between. `raced` is history: the agents on which an operation began
while a start of them was still to come. The turn slots are split into those a tick,
a message and a call may take (`TickTurns`, `MessageTurns`, `CallTurns`, which may
overlap); only the number of turns in progress together is bounded. Streaming turns,
which take no lock, and the contents of turns are left out.

## 3. Runs

| run | instance | shows | size |
|---|---|---|---|
| `cron` | 1 job, 2 agents, 4 definitions, 1 on-demand runner, time 0..3, 2 errors, 2 hand instances | `TypeOK`, `ErrorBudget`, `ReconcileClean`, `IntervalRespected`, `RemovedStaysRemoved`, `ManualRunKeepsSchedule` | 710k states |
| `cron_pair` | 2 jobs of one agent, time 0..1, no on-demand runs | `ReconcileClean`, `DueJobsStart` (liveness) | 196k states |
| `cron_at_fires_once` | as `cron`, time 0..2 | violated: finding 1 | |
| `cron_hand_jobs` | as `cron`, time 0..2 | violated: finding 2 | |
| `approval` | 2 requests of 1 agent, 2 resolvers, cap 1, history of 2 | `TypeOK`, `NotListedOnceDecided`, `RecordedBeforeActed`, `CapUnlessRaced`, `GateSpec` (refinement), `RequestsReturn` (liveness) | 14k states |
| `taskq` | 2 tasks, 2 agents, 1 trace, 2 priorities, 2 calls, every strategy | `TypeOK`, `AddresseeOnly`, `NoLateClaim`, `PriorityRespected`, `BoardSpec` (refinement), `FirstInLineTaken` (liveness) | 207k states |
| `taskq_claimed_by_one` | the same | violated: finding 3 | |
| `heartbeat` | 1 agent of every kind, a locked and a streaming turn, limits of 1 and 2 checks, a reactive limit under one check, cooldown 3, 2 attempts | `TypeOK`, `NotGivenUpEarly`, `CrashIsHandled`, `SilenceIsNoticed` (liveness) | 635k states |
| `heartbeat_watchdog` | the same | violated: finding 4 | |
| `cronstore` | 3 jobs, 2 threads, limit 1; symmetric in jobs and threads | `TypeOK`, `WholeUnlessOverlap`, `SavedSurvives`, `InsertBounded` | 1.2M states |
| `background` | 1 agent, 2 loops, 3 turns (2 may be ticks, 2 may be calls, 1 a message), 1 request, 1 permit, depth 1 | `TypeOK`, `OneTickPerLoop`, `PermitsAccounted`, `OrphansNeedARace`, `TurnsEnd`, `LoopsTick`, `ShutdownEndsLoops` (liveness) | 51k states |
| `background_stop` | 2 agents | violated: finding 5 | |

Bounds. One job suffices for the safety properties of `cron`, which are about
one entry: the jobs share only the limits and the loop. Time 0..3 lets an
interval of 2 elapse, be observed and be early by one; two errors separate the
first failure from the last allowed one; a tick execution and an on-demand one
overlap. Two hand instances are the fewest that let a hand be activated while
the agent of a paused instance is alive. `cron_pair` needs two jobs so that one
waits behind the other; its two definitions have one program and different names,
so that both ways of being a duplicate occur. `ReconcileClean` is checked in both:
`cron` has the jobs of agents that are gone, `cron_pair` the duplicates, and the
proof covers their combination. A cap of 1 with two requests of one agent reaches the
race at the cap; two resolvers reach a double decision; a history of two evicts
nothing it must keep for `RecordedBeforeActed`, which is stated for a history
that is not full.

Two overlapping claims are the fewest that race, two tasks the fewest that an
order by priority and strategy tells apart. `heartbeat` ages stop at 3, one more
than any limit, so "older than the limit" and "at the limit" differ; two attempts
separate the first recovery from the last; a reactive agent judged at every check
and a cooldown of 3 are the fewest that let a crash meet the cooldown; the agents of the monitor do not
interact, so one of each kind suffices. In `cronstore` two threads overlap in
every step of `persist`, the limit of 1 is exceeded by the race, and the third
job lets a table change between two overlapping snapshots. In `background` one
permit makes the two loops compete, the second loop is the one a replaced handle
leaves behind, and an agent that sends to itself is the shortest cycle of locks.
Three turns are the fewest that let a tool wait for two calls at once and let a
call make a call, so a timeout drops a group and a chain. Its liveness properties
are checked with one agent: two agents that send to each other, and loops of
different agents that compete for the permits, are not in the run. Its safety
properties are proved for any number of agents.

Deadlock is not checked in `cron` and `approval`: these systems may be at rest (no
job, every request returned), and bounded time ends. It is checked in the other
runs.

Fairness. `DueJobs` and `StartDue` are weakly fair because the tick loop is a
task of its own that returns to its interval; `Outcome(Tick)` is, because every
action of a job runs under a timeout. Clients, on-demand runs and the clock are
not assumed to do anything. In `Approval` a submitted request is weakly fair:
publishing never blocks and the timer fires. Resolvers are not fair: nobody has
to answer, and a resolver may stop between two of its steps.

In `TaskQueue` one agent polls for ever (the prompt of an autonomous agent's tick
tells it to look for pending tasks) and a statement repeated often enough
succeeds, because the busy timeout bounds how long another writer keeps it out:
strong fairness on the statements of that agent, nothing on anyone else's. Two
tasks are posted at most, so no run shows how long a task waits behind others;
`FirstInLineTaken` says nothing about it. In
`Heartbeat` the monitor's steps are weakly fair and the handling of a status
strongly, since quiet hours end; turns, people and delegations have no fairness.
In `Background` loops, turns and watchers are tasks that get to run; fairness is
strong because tokio's semaphore and mutex queue their waiters, and because a
loop that sleeps again and again hears of the shutdown in one of its sleeps. It is
strong for loops and for the turns of ticks and messages; for calls weak fairness
is enough, since the timeout of the tool can always end one. A
turn that is not waiting for a call returns: iterations are bounded and model
calls and tools have timeouts. Requests, kills, messages and the shutdown itself
are not assumed to happen. `CronStore` states no liveness.

## 4. Findings

1. **An `at` job fires at every tick** (`cron_at_fires_once`).
   `compute_next_run_after` returns the instant of an `At` schedule unchanged, so
   after the first run the job is still due. Only `one_shot` jobs are removed on
   success. `openfang-types/src/scheduler.rs:85` says "Fire once at a specific
   time."
2. **Activating a hand deletes its cron jobs** (`cron_hand_jobs`).
   `activate_hand` calls `kill_agent` (`kernel.rs:5885`), which removes the jobs
   of the agent and persists that, before `reassign_agent_jobs`, whose comment
   (`kernel.rs:5906`) says "Migrate cron jobs from old agent to new agent so they
   survive restarts." Triggers are saved before the kill, jobs are not.
3. **Two agents are given the same task** (`taskq_claimed_by_one`). `finish_claim`
   (`openfang-memory/src/substrate.rs:558`) updates by id without looking at the
   status again. The comment at line 524 says "Claim the next pending task". What
   does hold is proved: a task posted for one agent goes to nobody else, and
   claims that do not overlap never share a task.
4. **The watchdog judges turns that are over** (`heartbeat_watchdog`). A turn that
   leaves the agent loop by an error or with a silent answer reports no Done
   phase; the entry stays and ages until the agent is found stalled and marked
   Crashed with no turn in progress. `heartbeat.rs:12` says "while a turn is in
   progress, wall time in `Thinking`, `ToolUse`, or `Streaming` is capped".
5. **A replaced background loop cannot be stopped** (`background_stop`). A second
   `start_agent` drops the handle of the first loop without aborting it; boot's
   staggered start beside an update or a hand activation does that. `stop_agent`
   then leaves the first loop ticking, although `background.rs:189` says "Stop the
   background loop for an agent, if one is running." It still ends at shutdown
   (`ShutdownEndsLoops`).

6. **Recovery attempts are never used up** (theorem `NeverExhaustedHolds`). Recovery
   stamps `last_active`, the next check finds the agent responsive and resets the
   counter (`kernel.rs:7327`), so an agent that hangs every time is recovered for
   ever. `heartbeat.rs:18` says "the heartbeat will attempt to reset crashed agents
   back to Running up to `max_recovery_attempts` times. After exhausting attempts,
   agents are marked as Terminated (dead)." and line 83 "Maximum recovery attempts
   before marking agent as Terminated." This is so for every agent with a schedule
   that is not of a hand and has no quiet hours, if no phase limit and no idle
   limit is shorter than one check (30 seconds by default). It is proved and not
   stated as a run: what the proof shows is that no behaviour does what is
   documented, which is more than one counterexample.

Also visible in the model, without a promise in the code to hold against it: a
dropped request stays in `pending` and counts against the cap until a person
resolves it (`Drop`), and a person can be told "approved" for a call that times
out between the removal and the send.

## 5. Proofs

All theorems hold for arbitrary sets of jobs, agents, schedules, runners,
requests and resolvers and for every value of the limits.

Assumptions (checked by TLC on each instance): `ConstantsAssumption` (the hand's
agent is an agent, job ids and limits are numbers, the error limit is positive,
marker values differ from each other and from entries), `ScheduleAssumption` (intervals are positive),
`CronCrateAssumption` (the cron crate answers with a later instant),
`ApprovalAssumption` (positive limits, finitely many requests). The four later
modules have a `ConstantsAssumption` each: inputs of the right type, distinct
marker values, finitely many threads, jobs and turns. `NeverExhaustedHolds` alone
has a hypothesis, `LimitsAtLeastOneCheck`: no phase limit and no idle limit is
shorter than one check of the monitor. The limits are configurable, so this is an
assumption about the configuration; no other theorem needs it.

`CronProofs`. Neither `ErrorBudget` nor `IntervalRespected` is inductive: the
first needs the types of the entries, the second is about two ticks. The
invariant `IInv` adds to `TypeOK` that no recorded due time lies in the future and
that each entry is `Good`: within its budget if enabled, and, for an interval
schedule, with a `next` at least one interval after `lastDue`. Every action
changes entries through a handful of helpers; each helper has a lemma that it
keeps an entry (or the table) good, and the step lemma has one step per action.
From `Invariance` follow `TypeCorrect`, `ErrorBudgetHolds`, `IntervalHolds`,
`RemovedHolds` and `KeepsScheduleHolds`. `ReconcileHolds` needs of the invariant
only that entries are well typed; its argument is about the three passes. A lemma
for each says what it leaves (`MissingMoved`, `DedupeByNameLeaves`,
`DedupeByProgramLeaves`); the representative of a removed job is the lowest id of
its group, which exists because the ids are well founded (`LowestId`), and a pass
after the first keeps what the earlier ones established because it only removes.

`ApprovalProofs`. `AInv` adds to `TypeOK` that a listed request is undecided, that
the call, the channel and the answer agree once a resolver has taken a request,
and that exactly the finished calls have an outcome. It yields `NotListed` and
`Refinement`: every step of the threads is a step of `ApprovalGate` or a stutter
under `verdict <- answered`, `effect <- Effect`. `CapHolds` has an invariant of
its own: an agent that never raced has at most one request between the check and
the insertion, and then room for it. `RecordedFirst` follows a decision on its way
(`HistoryInv`): recorded by the resolver, sent into the channel, received as the
outcome; at each station it is in the history, which loses nothing while it is not
full, because a history that is full stays full. `HistoryBounded` comes from the
same invariant.

`TaskQueueProofs`. A claim acts on what it read earlier, so `AddresseeOnly` needs
to know that what was selected stays selectable (`SelectionValid`) and that a
claim never rewrites the assignee of an addressed row (`AssigneeKept`);
`NoLateClaim` needs that no row returns to pending (`SettledKept`).
`PriorityHolds` spans the two queries and the UPDATE: `OrderInv` says what each
query has ruled out (after an empty sticky query, that no task known at the start
and of the preferred trace is claimable; after a selection, that what is selected
comes before every known claimable task) and that a pending row is as it was
posted. `TableKept` is what every statement on the table guarantees to the other
calls, and one lemma shows that it keeps them ordered. `Refinement` maps each
action to a step of `TaskBoard` or to a stutter.

`HeartbeatProofs`. `NotGivenUpEarly` needs that a status that survived the second
look belongs to an agent out of attempts and that a terminated agent has no
status left (`GivenUp`); the same invariant bounds the attempts from above. `NeverExhausted` (finding 6) is about three consecutive checks: the
invariant `PlainAgents` says that an ordinary agent with a failure on record was
stamped by its recovery less than one check ago, and that its phases were dropped
while it was Crashed, so the next check finds it neither idle nor stalled.

`CronStoreProofs`. `SavesOK` says of each running `persist` that it has in its
snapshot, or has yet to visit, every job its caller was promised, and, if nobody
overlapped it, that the temporary file is its own; `PromisesKept` says the same of
the table, of the file and of the temporary file while a call may still rename it,
for jobs that no failed boot left behind. A boot that fails keeps every promise about
removals and adds the saved jobs to `missed`, so `SavedSurvivesHolds` says exactly
when a saved job can be lost. `InsertBoundedHolds` has an invariant of its own:
threads past the check count as jobs already (`RoomForInserting`).

`BackgroundProofs`. `Inv` adds to `TypeOK` that a loop with a tick, or waiting to
send one, has its flag set (`Flagged`), that ticks are unique (`SingleTick`) and that only
ticks are watched (`OnlyTicksReturn`). The lemma `TimeoutSparesTicks` shows that a tool
timeout, which drops a tree of calls, never drops a tick, and with it the permit.
`OrphansNeedARace` says of a loop that its handle leads to it, and is not inductive:
a start replaces a handle, so it needs that there is no loop then. `Clean` says of
an agent outside `raced` that it has no loop while a start of it is to come, that
there is only one such start, in boot or in one request, and that an agent not
registered has no loop. `CleanKept` disposes of the steps that touch neither; the
others are an operation that begins, which stops the loop or puts the agent into
`raced`, and a start that ends.

Only model-checked: the liveness properties (`DueJobsStart`, `RequestsReturn`,
`FirstInLineTaken`, `CrashIsHandled`, `SilenceIsNoticed`, `TurnsEnd`, `LoopsTick`,
`ShutdownEndsLoops`), since TLAPS here proves neither fairness nor ENABLED. Every
invariant, action property and refinement that a passing run checks is proved.

## 6. Not modelled

The components marked `not_modelled` in `PROJECT.json`, with the reason there.
Most of the repository's lines are front ends, chat adapters, LLM drivers, web
and media tools, sandboxes, cryptography, catalogues, converters and the AINL
graph libraries: I/O or sequential data handling, without control that
interleaves. The circuit breaker of `auth_cooldown.rs` is never given to a call
(`agent_loop.rs:3237` and `5910` pass `None`). Of the modelled parts, the body of a
cron execution, what turns say, and the policy of which tools need approval are
abstracted.

## 7. Plan

1. `Lifecycle`: registry maps, SQLite rows, spawn, kill, rename, late saves, boot.
2. `Triggers` with `EventBus`: fire limits, take and restore around an activation.
3. `Workflow`: run and step states, error policies, retries, fan-out.
4. `Handshake` of the wire protocol with replay and reordering.
5. Algorithms: `LoopGuard`, `SessionRepair` against reference definitions; `Quota`
   windows.

Theorems worth proving next: that an agent of a hand exceeds one recovery attempt
only through a respawn; that a `persist` that ran alone while nobody changed the
table leaves exactly the table in the file; that the lock of an agent is held by
the one turn that runs, as a refinement of `Background` to a queue of turns.

------------------------------ MODULE Heartbeat ------------------------------
(***************************************************************************)
(* The heartbeat monitor (openfang-kernel/src/heartbeat.rs and             *)
(* start_heartbeat_monitor in kernel.rs), the agent states it changes, and *)
(* the turns of agents that change the same state while it looks.          *)
(*                                                                         *)
(* The monitor drops the phases of agents that are not Running, takes a    *)
(* status of every agent and then handles the statuses one after the       *)
(* other; turns, API calls and delegations run in between.  Agents are     *)
(* LLM agents (the phases of WASM and Python modules are set and cleared   *)
(* by one function each); [turn_watchdog] is enabled, as by default.       *)
(*                                                                         *)
(* Time is counted in checks of the monitor (30 seconds).  Instants are    *)
(* kept as ages, which stop at MaxAge: no limit distinguishes more.        *)
(***************************************************************************)
EXTENDS Integers

CONSTANTS
  Agents,         \* agent ids
  Turns,          \* turns that may be in progress together
  StreamingTurns, \* the ones started by send_message_streaming
  PhaseLimit,     \* [turn_watchdog] thinking_secs, tool_use_secs, streaming_secs
  IdleLimit,      \* inactivity limit of a scheduled agent
  ReactiveLimit,  \* reactive_idle_timeout_secs, or Off
  Cooldown,       \* recovery_cooldown_secs
  MaxAttempts,    \* max_recovery_attempts
  MaxAge,         \* bound on ages
  Off, NoPhase, Idle

Kinds  == {"thinking", "tool_use", "streaming"}
Ages   == 0..MaxAge
States == {"Running", "Crashed", "Terminated", "Absent"}

ASSUME ConstantsAssumption ==
  /\ StreamingTurns \subseteq Turns
  /\ MaxAge \in Nat
  /\ PhaseLimit \in [Kinds -> 0..(MaxAge - 1)]
  /\ IdleLimit \in 0..(MaxAge - 1)
  /\ ReactiveLimit \in 0..(MaxAge - 1) \cup {Off}
  /\ Cooldown \in Ages
  /\ MaxAttempts \in Nat \ {0}
  /\ NoPhase \notin [kind : Kinds, age : Ages]

VARIABLES
  manifest,  \* what each agent is, see below
  state,     \* AgentEntry.state in the registry
  idle,      \* age of AgentEntry.last_active
  life,      \* last_active against created_at, see below
  phases,    \* agent_loop_phases
  turn,      \* the turns in progress
  mon,       \* what the monitor does next
  status,    \* the statuses it has yet to handle
  tracker    \* RecoveryTracker: failures, and the age of the last attempt

vars == <<manifest, state, idle, life, phases, turn, mon, status, tracker>>

(* Whether the agent's schedule is Reactive or one of the other modes,      *)
(* whether it has quiet hours, and whether it is the agent of a hand, which *)
(* is spawned again under the same id.                                      *)
Manifest == [reactive : BOOLEAN, quiet : BOOLEAN, hand : BOOLEAN]

(* "grace": the agent was created at most IDLE_GRACE_SECS ago; "never": all *)
(* its stamps fell in that time; "used": a later stamp.                     *)
Lives == {"grace", "never", "used"}

Phase    == [kind : Kinds, age : Ages]
Turn     == [agent : Agents, at : {"started", "model", "tool", "returned"}]
Verdicts == {"none", "ok", "unresponsive", "crashed", "giving_up"}

(* The monitor's view, the registry and the turns are well typed.           *)
TypeOK ==
  /\ manifest \in [Agents -> Manifest]
  /\ state \in [Agents -> States]
  /\ idle \in [Agents -> Ages]
  /\ life \in [Agents -> Lives]
  /\ phases \in [Agents -> Phase \cup {NoPhase}]
  /\ turn \in [Turns -> Turn \cup {Idle}]
  /\ mon \in {"sleep", "retain", "list", "handle"}
  /\ status \in [Agents -> Verdicts]
  /\ tracker \in [Agents -> [fails : Nat, age : Ages]]

Older(n)   == IF n < MaxAge THEN n + 1 ELSE n
NoFailures == [fails |-> 0, age |-> MaxAge]
InTurn(a)  == \E t \in Turns : turn[t] # Idle /\ turn[t].agent = a

-----------------------------------------------------------------------------
(* The registry.  Both operations stamp last_active, and do nothing to an   *)
(* agent that is gone.                                                      *)

Touch(a) ==
  IF state[a] = "Absent" THEN UNCHANGED <<idle, life>>
  ELSE /\ idle' = [idle EXCEPT ![a] = 0]
       /\ \E l \in (IF life[a] = "grace" THEN {"grace", "used"} ELSE {"used"}) :
            life' = [life EXCEPT ![a] = l]

SetState(a, s) ==
  /\ Touch(a)
  /\ state' = IF state[a] = "Absent" THEN state ELSE [state EXCEPT ![a] = s]

SpawnAgent(a) ==
  /\ manifest[a].hand
  /\ state[a] = "Absent"
  /\ state' = [state EXCEPT ![a] = "Running"]
  /\ idle' = [idle EXCEPT ![a] = 0]
  /\ life' = [life EXCEPT ![a] = "grace"]
  /\ UNCHANGED <<manifest, phases, turn, mon, status, tracker>>

KillAgent(a) ==
  /\ state[a] # "Absent"
  /\ state' = [state EXCEPT ![a] = "Absent"]
  /\ UNCHANGED <<manifest, idle, life, phases, turn, mon, status, tracker>>

(* A delegation starts the agent it selected unless it is Running.          *)
Delegate(a) ==
  /\ state[a] \notin {"Running", "Absent"}
  /\ SetState(a, "Running")
  /\ UNCHANGED <<manifest, phases, turn, mon, status, tracker>>

(* POST /api/agents/{id}/restart aborts a streaming turn, if one is         *)
(* registered, and sets the agent Running.                                  *)
Restart(a) ==
  /\ state[a] # "Absent"
  /\ \/ \E t \in StreamingTurns :
          /\ turn[t] # Idle
          /\ turn[t].agent = a
          /\ turn' = [turn EXCEPT ![t] = Idle]
     \/ /\ \A t \in StreamingTurns : turn[t] # Idle => turn[t].agent # a
        /\ UNCHANGED turn
  /\ SetState(a, "Running")
  /\ UNCHANGED <<manifest, phases, mon, status, tracker>>

-----------------------------------------------------------------------------
(* Turns.  Messages are accepted in every state of the agent.  Turns of     *)
(* send_message hold the agent's lock; streaming ones do not take it.       *)

RecordPhase(a, kind) ==
  phases' = [phases EXCEPT ![a] = IF @ # NoPhase /\ @.kind = kind THEN @
                                  ELSE [kind |-> kind, age |-> 0]]

StartTurn(t, a) ==
  /\ turn[t] = Idle
  /\ state[a] # "Absent"
  /\ t \notin StreamingTurns =>
       \A u \in Turns \ StreamingTurns : turn[u] # Idle => turn[u].agent # a
  /\ turn' = [turn EXCEPT ![t] = [agent |-> a, at |-> "started"]]
  /\ UNCHANGED <<manifest, state, idle, life, phases, mon, status, tracker>>

(* An iteration of the agent loop: report the phase, stamp last_active,     *)
(* call the model.                                                          *)
Iterate(t) ==
  /\ turn[t] # Idle
  /\ turn[t].at # "returned"
  /\ turn' = [turn EXCEPT ![t].at = "model"]
  /\ RecordPhase(turn[t].agent, IF t \in StreamingTurns /\ turn[t].at = "started"
                                THEN "streaming" ELSE "thinking")
  /\ Touch(turn[t].agent)
  /\ UNCHANGED <<manifest, state, mon, status, tracker>>

UseTool(t) ==
  /\ turn[t] # Idle
  /\ turn[t].at = "model"
  /\ turn' = [turn EXCEPT ![t].at = "tool"]
  /\ RecordPhase(turn[t].agent, "tool_use")
  /\ UNCHANGED <<manifest, state, idle, life, mon, status, tracker>>

(* The loop returns a result: with the Done phase, or, for a silent answer, *)
(* an exhausted continuation or a provider that is out of reach, without.   *)
ReturnResult(t, done) ==
  /\ turn[t] # Idle
  /\ turn[t].at \in {"model", "tool"}
  /\ phases' = IF done THEN [phases EXCEPT ![turn[t].agent] = NoPhase] ELSE phases
  /\ turn' = [turn EXCEPT ![t].at = "returned"]
  /\ UNCHANGED <<manifest, state, idle, life, mon, status, tracker>>

(* ... and the kernel sets the agent Running, whatever it is by now.        *)
FinishTurn(t) ==
  /\ turn[t] # Idle
  /\ turn[t].at = "returned"
  /\ SetState(turn[t].agent, "Running")
  /\ turn' = [turn EXCEPT ![t] = Idle]
  /\ UNCHANGED <<manifest, phases, mon, status, tracker>>

(* An error leaves the loop with `?': no phase is reported.  The failure is *)
(* recorded, which stamps last_active.                                      *)
FailTurn(t) ==
  /\ turn[t] # Idle
  /\ turn[t].at # "returned"
  /\ Touch(turn[t].agent)
  /\ turn' = [turn EXCEPT ![t] = Idle]
  /\ UNCHANGED <<manifest, state, phases, mon, status, tracker>>

-----------------------------------------------------------------------------
(* One check of the monitor.                                                *)

Elapse ==
  /\ mon = "sleep"
  /\ mon' = "retain"
  /\ idle' = [a \in Agents |-> Older(idle[a])]
  /\ life' = [a \in Agents |-> IF life[a] = "grace" THEN "never" ELSE life[a]]
  /\ phases' = [a \in Agents |-> IF phases[a] = NoPhase THEN NoPhase
                                 ELSE [phases[a] EXCEPT !.age = Older(@)]]
  /\ tracker' = [a \in Agents |-> [tracker[a] EXCEPT !.age = Older(@)]]
  /\ UNCHANGED <<manifest, state, turn, status>>

RetainPhases ==
  /\ mon = "retain"
  /\ mon' = "list"
  /\ phases' = [a \in Agents |-> IF state[a] = "Running" THEN phases[a] ELSE NoPhase]
  /\ UNCHANGED <<manifest, state, idle, life, turn, status, tracker>>

(* Mutant of Stalled: no limit on the time in a phase.                      *)
StalledNever(a) == FALSE

Stalled(a) ==
  /\ phases[a] # NoPhase
  /\ phases[a].age > PhaseLimit[phases[a].kind]

(* A reactive agent is judged on idle time only if a limit is configured;   *)
(* an agent that never processed a message is not judged.                   *)
NotJudged(a) ==
  \/ life[a] # "used"
  \/ manifest[a].reactive /\ ReactiveLimit = Off

(* A scheduled agent in the middle of a turn is left to the watchdog.       *)
IdleTooLong(a) ==
  IF manifest[a].reactive THEN idle[a] > ReactiveLimit
                           ELSE idle[a] > IdleLimit /\ phases[a] = NoPhase

(* Mutant of CheckAgent: crashed agents are left out of the report.         *)
CheckAgentNoCrashed(a) ==
  CASE state[a] # "Running" -> "none"
    [] OTHER -> IF Stalled(a) THEN "unresponsive"
                ELSE IF NotJudged(a) THEN "none"
                ELSE IF IdleTooLong(a) THEN "unresponsive" ELSE "ok"

CheckAgent(a) ==
  CASE state[a] = "Crashed" -> "crashed"
    [] state[a] = "Running" -> IF Stalled(a) THEN "unresponsive"
                               ELSE IF NotJudged(a) THEN "none"
                               ELSE IF IdleTooLong(a) THEN "unresponsive" ELSE "ok"
    [] OTHER -> "none"

ListAgents ==
  /\ mon = "list"
  /\ mon' = "handle"
  /\ status' = [a \in Agents |-> CheckAgent(a)]
  /\ UNCHANGED <<manifest, state, idle, life, phases, turn, tracker>>

Handled(a) == status' = [status EXCEPT ![a] = "none"]

SkipQuietHours(a) ==
  /\ manifest[a].quiet
  /\ state[a] # "Absent"
  /\ status[a] \in {"ok", "unresponsive", "crashed"}
  /\ Handled(a)
  /\ UNCHANGED <<manifest, state, idle, life, phases, turn, mon, tracker>>

(* Mutant of Responsive: a responsive check takes back one failure.         *)
ResponsiveDecrements(a) ==
  /\ status[a] = "ok"
  /\ tracker' = [tracker EXCEPT ![a].fails = @ - 1]
  /\ Handled(a)
  /\ UNCHANGED <<manifest, state, idle, life, phases, turn, mon>>

Responsive(a) ==
  /\ status[a] = "ok"
  /\ tracker' = [tracker EXCEPT ![a] = NoFailures]
  /\ Handled(a)
  /\ UNCHANGED <<manifest, state, idle, life, phases, turn, mon>>

MarkCrashed(a) ==
  /\ status[a] = "unresponsive"
  /\ SetState(a, "Crashed")
  /\ Handled(a)
  /\ UNCHANGED <<manifest, phases, turn, mon, tracker>>

(* Mutant of Exhausted: one attempt too few.                                *)
ExhaustedEarly(a) == tracker[a].fails + 1 >= MaxAttempts

Exhausted(a) == tracker[a].fails >= MaxAttempts

(* Out of attempts: look at the state again, then set it.                   *)
GiveUp(a) ==
  /\ status[a] = "crashed"
  /\ Exhausted(a)
  /\ status' = [status EXCEPT ![a] = IF state[a] = "Crashed" THEN "giving_up" ELSE "none"]
  /\ UNCHANGED <<manifest, state, idle, life, phases, turn, mon, tracker>>

MarkTerminated(a) ==
  /\ status[a] = "giving_up"
  /\ SetState(a, "Terminated")
  /\ Handled(a)
  /\ UNCHANGED <<manifest, phases, turn, mon, tracker>>

WaitForCooldown(a) ==
  /\ status[a] = "crashed"
  /\ ~Exhausted(a)
  /\ tracker[a].age < Cooldown
  /\ Handled(a)
  /\ UNCHANGED <<manifest, state, idle, life, phases, turn, mon, tracker>>

Recover(a) ==
  /\ status[a] = "crashed"
  /\ ~Exhausted(a)
  /\ tracker[a].age >= Cooldown
  /\ tracker' = [tracker EXCEPT ![a] = [fails |-> @.fails + 1, age |-> 0]]
  /\ SetState(a, "Running")
  /\ Handled(a)
  /\ UNCHANGED <<manifest, phases, turn, mon>>

CheckDone ==
  /\ mon = "handle"
  /\ \A a \in Agents : status[a] = "none"
  /\ mon' = "sleep"
  /\ UNCHANGED <<manifest, state, idle, life, phases, turn, status, tracker>>

-----------------------------------------------------------------------------
Init ==
  /\ manifest \in [Agents -> Manifest]
  /\ state = [a \in Agents |-> "Running"]
  /\ idle = [a \in Agents |-> 0]
  /\ life \in [Agents -> {"grace", "used"}]    \* spawned, or restored at boot
  /\ phases = [a \in Agents |-> NoPhase]
  /\ turn = [t \in Turns |-> Idle]
  /\ mon = "sleep"
  /\ status = [a \in Agents |-> "none"]
  /\ tracker = [a \in Agents |-> NoFailures]

Check == Elapse \/ RetainPhases \/ ListAgents \/ CheckDone

Handle(a) ==
  \/ Responsive(a) \/ MarkCrashed(a)
  \/ GiveUp(a) \/ MarkTerminated(a) \/ WaitForCooldown(a) \/ Recover(a)

TurnStep(t) ==
  \/ \E a \in Agents : StartTurn(t, a)
  \/ Iterate(t) \/ UseTool(t)
  \/ \E done \in BOOLEAN : ReturnResult(t, done)
  \/ FinishTurn(t) \/ FailTurn(t)

Command(a) == SpawnAgent(a) \/ KillAgent(a) \/ Delegate(a) \/ Restart(a)

Next ==
  \/ Check
  \/ \E a \in Agents : Handle(a) \/ SkipQuietHours(a) \/ Command(a)
  \/ \E t \in Turns : TurnStep(t)

(* The monitor is a task of its own with nothing to wait for but its timer, *)
(* and quiet hours end: an agent is not skipped for ever.  Nothing is       *)
(* assumed of turns: a turn may hang for ever.                              *)
Fairness ==
  /\ WF_vars(Check)
  /\ \A a \in Agents : SF_vars(Handle(a))

Spec == Init /\ [][Next]_vars /\ Fairness

-----------------------------------------------------------------------------
(* An agent is Terminated only after MaxAttempts recoveries without a       *)
(* responsive check in between, and is not recovered more often, although a *)
(* status may be out of date when it is handled (start_heartbeat_monitor).  *)
NotGivenUpEarly ==
  \A a \in Agents : /\ tracker[a].fails <= MaxAttempts
                    /\ state[a] = "Terminated" => tracker[a].fails = MaxAttempts

(* No agent stays Crashed: it is recovered, given up or started by someone, *)
(* in spite of the cooldown and of quiet hours (start_heartbeat_monitor).   *)
CrashIsHandled ==
  \A a \in Agents : (state[a] = "Crashed") ~> (state[a] # "Crashed")

(* A scheduled agent that shows no activity any more does not stay Running: *)
(* the limit on phases covers the turns that the limit on idle time spares  *)
(* (check_agents).                                                          *)
SilenceIsNoticed ==
  \A a \in Agents :
    (~manifest[a].reactive /\ state[a] = "Running" /\ life[a] = "used" /\ idle[a] = MaxAge)
      ~> (state[a] # "Running" \/ idle[a] < MaxAge)

(* What the module documentation says of the turn watchdog, "while a turn   *)
(* is in progress, wall time ... is capped": an agent it finds stalled has  *)
(* a turn in progress, or had one since the last check (the end of a turn   *)
(* stamps last_active).                                                     *)
WatchdogSeesTurns ==
  \A a \in Agents : state[a] = "Running" /\ Stalled(a) => InTurn(a) \/ idle[a] = 0
=============================================================================

----------------------------- MODULE Background -----------------------------
(***************************************************************************)
(* The background executor (openfang-kernel/src/background.rs) composed    *)
(* with the turns it starts: the lock of each agent, which                 *)
(* send_message_with_handle_and_blocks holds for a whole turn, and the     *)
(* agent_* tools, by which a turn waits for turns of other agents while it *)
(* keeps its own lock.                                                     *)
(*                                                                         *)
(* A loop is one tokio task of start_agent; the tick it sends runs in a    *)
(* task of its own, and a watcher task waits for the tick.  What a turn    *)
(* says is left out, and so are streaming turns, which take no lock.       *)
(***************************************************************************)
EXTENDS Integers, FiniteSets

CONSTANTS
  Agents,     \* agents whose schedule is Continuous or Periodic
  Loops,      \* background loops that may exist together
  TickTurns,    \* turns that may be in progress together: those a tick may take,
  MessageTurns, \* those a message from outside may take,
  CallTurns,    \* and those a call of a tool may take
  Requests,   \* API requests that may be in progress together
  MaxBg,      \* MAX_CONCURRENT_BG_LLM
  MaxDepth,   \* effective_max_agent_call_depth
  Client,     \* a message that comes from outside
  None, Idle, Ended

Turns == TickTurns \cup MessageTurns \cup CallTurns

ASSUME ConstantsAssumption ==
  /\ IsFiniteSet(Turns)
  /\ MaxBg \in Nat \ {0}
  /\ MaxDepth \in Nat
  /\ Loops \cap (Turns \cup {Client, None}) = {}
  /\ Client \notin Turns

VARIABLES
  registry,   \* the agents that exist
  boot,       \* the agents start_background_agents has yet to start
  loop,       \* the loops
  tasks,      \* BackgroundExecutor.tasks: the loop stop_agent would abort
  permits,    \* what is left of llm_semaphore
  turn,       \* the turns in progress
  request,    \* PUT and activate requests between stopping and starting
  down,       \* the shutdown signal
  raced       \* history: agents an operation was begun on while a start of
              \* them was still to come

vars == <<registry, boot, loop, tasks, permits, turn, request, down, raced>>

Loop    == [agent : Agents, at : {"try", "permit", "sleep"}, busy : BOOLEAN]
Turn    == [agent : Agents, at : {"waiting", "running", "returned"},
            from : {Client} \cup Loops \cup Turns, depth : 0..MaxDepth,
            timed : BOOLEAN]
Request == [agent : Agents, check : BOOLEAN]

ASSUME IdleAssumption ==
  /\ Idle \notin Turn \cup Loop \cup {Ended}
  /\ Ended \notin Loop

(* Loops, handles, turns and permits are well typed.                        *)
TypeOK ==
  /\ registry \subseteq Agents
  /\ boot \subseteq Agents
  /\ loop \in [Loops -> Loop \cup {Idle, Ended}]
  /\ tasks \in [Agents -> Loops \cup {None}]
  /\ permits \in 0..MaxBg
  /\ turn \in [Turns -> Turn \cup {Idle}]
  /\ request \in [Requests -> Request \cup {Idle}]
  /\ down \in BOOLEAN
  /\ raced \subseteq Agents

Alive(l)    == loop[l] \notin {Idle, Ended}
LoopAt(l, pc) == Alive(l) /\ loop[l].at = pc
TurnAt(t, pc) == turn[t] # Idle /\ turn[t].at = pc
Ticks(l)    == {t \in Turns : turn[t] # Idle /\ turn[t].from = l}
Calls(t)    == {u \in Turns : turn[u] # Idle /\ turn[u].from = t}
BgTurns     == {t \in Turns : turn[t] # Idle /\ turn[t].from \in Loops}

-----------------------------------------------------------------------------
(* Starting and stopping loops.                                             *)

(* A Continuous loop begins with a tick, a Periodic one sleeps first.       *)
(* tasks.insert drops the handle of an earlier loop without aborting it.    *)
StartAgent(a) ==
  \E l \in Loops, first \in {"try", "sleep"} :
    /\ loop[l] = Idle
    /\ Ticks(l) = {}
    /\ loop' = [loop EXCEPT ![l] = [agent |-> a, busy |-> FALSE, at |-> first]]
    /\ tasks' = [tasks EXCEPT ![a] = l]

(* Aborting a loop leaves its tick and the watcher of the tick alone.       *)
StopAgent(a) ==
  /\ tasks' = [tasks EXCEPT ![a] = None]
  /\ loop' = IF tasks[a] # None /\ Alive(tasks[a]) THEN [loop EXCEPT ![tasks[a]] = Idle] ELSE loop

(* start_background_agents goes through the agents it listed at boot, half  *)
(* a second apart.                                                          *)
BootStart(a) ==
  /\ a \in boot
  /\ boot' = boot \ {a}
  /\ StartAgent(a)
  /\ UNCHANGED <<registry, permits, turn, request, down, raced>>

(* A start of the agent is still to come, from boot or from a request.      *)
Starting(a) == a \in boot \/ \E r \in Requests : request[r] # Idle /\ request[r].agent = a

NoteRace(a) == raced' = IF Starting(a) THEN raced \cup {a} ELSE raced

(* Mutant of BeginUpdate: the loop is not stopped.                          *)
BeginUpdateKeepsLoop(r, a) ==
  /\ request[r] = Idle
  /\ a \in registry
  /\ request' = [request EXCEPT ![r] = [agent |-> a, check |-> FALSE]]
  /\ NoteRace(a)
  /\ UNCHANGED <<registry, boot, loop, tasks, permits, turn, down>>

(* PUT /api/agents/{id}/update stops the loop, saves the agent ...          *)
BeginUpdate(r, a) ==
  /\ request[r] = Idle
  /\ a \in registry
  /\ StopAgent(a)
  /\ request' = [request EXCEPT ![r] = [agent |-> a, check |-> FALSE]]
  /\ NoteRace(a)
  /\ UNCHANGED <<registry, boot, permits, turn, down>>

(* ... activate_hand kills the agent of the hand, if it exists, and spawns  *)
(* it again under the same id ...                                           *)
BeginActivate(r, a) ==
  /\ request[r] = Idle
  /\ IF a \in registry THEN StopAgent(a) ELSE UNCHANGED <<loop, tasks>>
  /\ registry' = registry \cup {a}
  /\ request' = [request EXCEPT ![r] = [agent |-> a, check |-> TRUE]]
  /\ NoteRace(a)
  /\ UNCHANGED <<boot, permits, turn, down>>

(* ... and both start a loop ...                                            *)
FinishRequest(r) ==
  /\ request[r] # Idle
  /\ request[r].check => request[r].agent \in registry
  /\ StartAgent(request[r].agent)
  /\ request' = [request EXCEPT ![r] = Idle]
  /\ UNCHANGED <<registry, boot, permits, turn, down, raced>>

(* ... unless the update could not save the agent or gave it a schedule     *)
(* without a loop, or the activated agent is gone again.                    *)
FinishWithoutLoop(r) ==
  /\ request[r] # Idle
  /\ request[r].check => request[r].agent \notin registry
  /\ request' = [request EXCEPT ![r] = Idle]
  /\ UNCHANGED <<registry, boot, loop, tasks, permits, turn, down, raced>>

KillAgent(a) ==
  /\ a \in registry
  /\ registry' = registry \ {a}
  /\ StopAgent(a)
  /\ NoteRace(a)
  /\ UNCHANGED <<boot, permits, turn, request, down>>

Shutdown ==
  /\ ~down
  /\ down' = TRUE
  /\ UNCHANGED <<registry, boot, loop, tasks, permits, turn, request, raced>>

-----------------------------------------------------------------------------
(* A loop.                                                                  *)

(* Mutant of TryTick: the busy flag is not looked at.                       *)
TryTickAlways(l) ==
  /\ LoopAt(l, "try")
  /\ loop' = [loop EXCEPT ![l].busy = TRUE, ![l].at = "permit"]
  /\ UNCHANGED <<registry, boot, tasks, permits, turn, request, down, raced>>

TryTick(l) ==
  /\ LoopAt(l, "try")
  /\ loop' = [loop EXCEPT ![l].busy = TRUE, ![l].at = IF loop[l].busy THEN "sleep" ELSE "permit"]
  /\ UNCHANGED <<registry, boot, tasks, permits, turn, request, down, raced>>

(* Mutant of SendTick: the loop does not wait for a permit.                 *)
SendTickWithoutPermit(l) ==
  /\ LoopAt(l, "permit")
  /\ permits' = permits - 1
  /\ \E t \in TickTurns :
       /\ turn[t] = Idle
       /\ turn' = [turn EXCEPT ![t] = [agent |-> loop[l].agent, at |-> "waiting",
                                       from |-> l, depth |-> 0, timed |-> FALSE]]
  /\ loop' = [loop EXCEPT ![l].at = "sleep"]
  /\ UNCHANGED <<registry, boot, tasks, request, down, raced>>

(* Mutant of SendTick: the permit is dropped at once, not kept by the       *)
(* watcher.                                                                 *)
SendTickPermitDropped(l) ==
  /\ LoopAt(l, "permit")
  /\ permits > 0
  /\ \E t \in TickTurns :
       /\ turn[t] = Idle
       /\ turn' = [turn EXCEPT ![t] = [agent |-> loop[l].agent, at |-> "waiting",
                                       from |-> l, depth |-> 0, timed |-> FALSE]]
  /\ loop' = [loop EXCEPT ![l].at = "sleep"]
  /\ UNCHANGED <<registry, boot, tasks, permits, request, down, raced>>

(* With a permit, the loop spawns the tick and its watcher.                 *)
SendTick(l) ==
  /\ LoopAt(l, "permit")
  /\ permits > 0
  /\ permits' = permits - 1
  /\ \E t \in TickTurns :
       /\ turn[t] = Idle
       /\ turn' = [turn EXCEPT ![t] = [agent |-> loop[l].agent, at |-> "waiting",
                                       from |-> l, depth |-> 0, timed |-> FALSE]]
  /\ loop' = [loop EXCEPT ![l].at = "sleep"]
  /\ UNCHANGED <<registry, boot, tasks, request, down, raced>>

SleepOver(l) ==
  /\ LoopAt(l, "sleep")
  /\ loop' = [loop EXCEPT ![l].at = "try"]
  /\ UNCHANGED <<registry, boot, tasks, permits, turn, request, down, raced>>

(* Mutant of NoticeShutdown: only a loop that stop_agent knows gets the     *)
(* signal.                                                                  *)
NoticeShutdownKnown(l) ==
  /\ LoopAt(l, "sleep")
  /\ down
  /\ tasks[loop[l].agent] = l
  /\ loop' = [loop EXCEPT ![l] = Ended]
  /\ UNCHANGED <<registry, boot, tasks, permits, turn, request, down, raced>>

(* The signal is looked at only while the loop sleeps.                      *)
NoticeShutdown(l) ==
  /\ LoopAt(l, "sleep")
  /\ down
  /\ loop' = [loop EXCEPT ![l] = Ended]
  /\ UNCHANGED <<registry, boot, tasks, permits, turn, request, down, raced>>

(* Mutant of Watch: the watcher ends with its loop.                         *)
WatchWhileAlive(t) ==
  /\ TurnAt(t, "returned")
  /\ LET l == turn[t].from IN
       /\ permits' = IF Alive(l) THEN permits + 1 ELSE permits
       /\ loop' = IF Alive(l) THEN [loop EXCEPT ![l].busy = FALSE] ELSE loop
  /\ turn' = [turn EXCEPT ![t] = Idle]
  /\ UNCHANGED <<registry, boot, tasks, request, down, raced>>

(* The watcher drops the permit and clears the flag of its loop.            *)
Watch(t) ==
  /\ TurnAt(t, "returned")
  /\ permits' = permits + 1
  /\ LET l == turn[t].from IN
       loop' = IF Alive(l) THEN [loop EXCEPT ![l].busy = FALSE] ELSE loop
  /\ turn' = [turn EXCEPT ![t] = Idle]
  /\ UNCHANGED <<registry, boot, tasks, request, down, raced>>

-----------------------------------------------------------------------------
(* Turns.                                                                   *)

NewTurn(a, from, depth, timed) ==
  [agent |-> a, at |-> "waiting", from |-> from, depth |-> depth, timed |-> timed]

ClientMessage(t, a) ==
  /\ turn[t] = Idle
  /\ turn' = [turn EXCEPT ![t] = NewTurn(a, Client, 0, FALSE)]
  /\ UNCHANGED <<registry, boot, loop, tasks, permits, request, down, raced>>

TakeLock(t) ==
  /\ TurnAt(t, "waiting")
  /\ \A u \in Turns : TurnAt(u, "running") => turn[u].agent # turn[t].agent
  /\ turn' = [turn EXCEPT ![t].at = "running"]
  /\ UNCHANGED <<registry, boot, loop, tasks, permits, request, down, raced>>

(* The agent_* tools are in a serial lane, so a turn is in one of them at a *)
(* time.  agent_send calls one agent, which may be the caller's own, unless *)
(* the chain of such calls is too deep.                                     *)
AgentSend(t, u, b) ==
  /\ TurnAt(t, "running")
  /\ Calls(t) = {}
  /\ turn[t].depth < MaxDepth
  /\ turn[u] = Idle
  /\ b \in registry
  /\ turn' = [turn EXCEPT ![u] = NewTurn(b, t, turn[t].depth + 1, FALSE)]
  /\ UNCHANGED <<registry, boot, loop, tasks, permits, request, down, raced>>

(* The other tools neither check nor count the depth.  agent_delegate and   *)
(* agent_supervise call one agent; agent_map_reduce calls one agent for     *)
(* several items at once, agent_coordinate several agents, and both wait    *)
(* for all of them before they go on.  The calls of agent_supervise and     *)
(* agent_coordinate have timeouts of their own.                             *)
AgentFanOut(t, us, who, timed) ==
  /\ TurnAt(t, "running")
  /\ Calls(t) = {}
  /\ \A u \in us : turn[u] = Idle
  /\ turn' = [u \in Turns |-> IF u \in us THEN NewTurn(who[u], t, turn[t].depth, timed)
                              ELSE turn[u]]
  /\ UNCHANGED <<registry, boot, loop, tasks, permits, request, down, raced>>

(* The turn returns, with an answer or an error, and releases its lock; a   *)
(* tick still has its watcher.                                              *)
EndTurn(t) ==
  /\ TurnAt(t, "running")
  /\ Calls(t) = {}
  /\ turn' = [turn EXCEPT ![t] = IF @.from \in Loops THEN [@ EXCEPT !.at = "returned"] ELSE Idle]
  /\ UNCHANGED <<registry, boot, loop, tasks, permits, request, down, raced>>

(* Calls and the calls they have led to: the least set closed under calls.  *)
CallTree(us) ==
  LET Closed(S) == \A t \in S : Calls(t) \subseteq S
  IN {v \in Turns : \A S \in SUBSET Turns : us \subseteq S /\ Closed(S) => v \in S}

Dropped(us) == [v \in Turns |-> IF v \in CallTree(us) THEN Idle ELSE turn[v]]

(* Mutant of ToolTimeout: calls that wait for the agent are not given up.   *)
ToolTimeoutRunning(u) ==
  /\ TurnAt(u, "running")
  /\ turn[u].from \in Turns
  /\ turn' = Dropped(Calls(turn[u].from))
  /\ UNCHANGED <<registry, boot, loop, tasks, permits, request, down, raced>>

(* The timeout of the tool that made call u drops every call of the tool    *)
(* and everything they wait for ...                                         *)
ToolTimeout(u) ==
  /\ turn[u] # Idle
  /\ turn[u].from \in Turns
  /\ turn' = Dropped(Calls(turn[u].from))
  /\ UNCHANGED <<registry, boot, loop, tasks, permits, request, down, raced>>

(* ... and a call's own timeout drops that call and what it waits for.      *)
CallTimeout(u) ==
  /\ turn[u] # Idle
  /\ turn[u].from \in Turns
  /\ turn[u].timed
  /\ turn' = Dropped({u})
  /\ UNCHANGED <<registry, boot, loop, tasks, permits, request, down, raced>>

-----------------------------------------------------------------------------
Init ==
  /\ registry = Agents
  /\ boot = Agents
  /\ loop = [l \in Loops |-> Idle]
  /\ tasks = [a \in Agents |-> None]
  /\ permits = MaxBg
  /\ turn = [t \in Turns |-> Idle]
  /\ request = [r \in Requests |-> Idle]
  /\ down = FALSE
  /\ raced = {}

Manage ==
  \/ \E a \in Agents : BootStart(a) \/ KillAgent(a)
  \/ \E r \in Requests, a \in Agents : BeginUpdate(r, a) \/ BeginActivate(r, a)
  \/ \E r \in Requests : FinishRequest(r) \/ FinishWithoutLoop(r)
  \/ Shutdown

(* What a loop, and a turn, does of its own accord.                         *)
LoopAdvance(l) == TryTick(l) \/ SendTick(l) \/ SleepOver(l)
TurnAdvance(t) == TakeLock(t) \/ EndTurn(t) \/ ToolTimeout(t) \/ Watch(t)

LoopStep(l) == LoopAdvance(l) \/ NoticeShutdown(l)

TurnStep(t) ==
  \/ TurnAdvance(t)
  \/ CallTimeout(t)
  \/ \E u \in CallTurns, b \in Agents : AgentSend(t, u, b)
  \/ \E us \in SUBSET CallTurns \ {{}}, timed \in BOOLEAN :
       \E who \in [us -> registry] : AgentFanOut(t, us, who, timed)

Next ==
  \/ Manage
  \/ \E l \in Loops : LoopStep(l)
  \/ \E t \in MessageTurns, a \in Agents : ClientMessage(t, a)
  \/ \E t \in Turns : TurnStep(t)

(* Loops, turns and watchers are tasks that always get to run, and timers   *)
(* expire.  The semaphore and the mutexes of tokio serve their waiters in   *)
(* turn, so nobody is passed over for ever, and a sleeping loop hears of    *)
(* the shutdown.  A turn has a bounded number of iterations, so one that is *)
(* not waiting for a call returns.  A call can always be given up by the    *)
(* timeout of its tool, so weak fairness is enough for it.                  *)
Fairness ==
  /\ \A l \in Loops : SF_vars(LoopAdvance(l)) /\ SF_vars(NoticeShutdown(l))
  /\ \A t \in TickTurns \cup MessageTurns : SF_vars(TurnAdvance(t))
  /\ \A t \in CallTurns : WF_vars(TurnAdvance(t))

Spec == Init /\ [][Next]_vars /\ Fairness

-----------------------------------------------------------------------------
(* A loop never has two ticks in flight, nor waits for a permit to send a   *)
(* second one, however long a tick takes: the busy flag outlives the step   *)
(* that sets it and only the watcher of the tick clears it (start_agent).   *)
OneTickPerLoop ==
  \A l \in Loops : /\ \A t, u \in Ticks(l) : t = u
                   /\ LoopAt(l, "permit") => Ticks(l) = {}

(* No permit is lost or made: each one missing is held by a tick in flight, *)
(* also when the loop that took it is aborted (start_agent, stop_agent).    *)
PermitsAccounted == permits + Cardinality(BgTurns) = MaxBg

(* Loops that stop_agent cannot reach come from starts that overlap and     *)
(* from nothing else: as long as no operation on an agent (an update, an    *)
(* activation, a kill) begins while a start of that agent is still to come, *)
(* at boot or in another request, every loop of the agent is the one its    *)
(* handle leads to (start_agent, stop_agent, apply_agent_manifest_update,   *)
(* activate_hand).                                                          *)
OrphansNeedARace ==
  \A l \in Loops : Alive(l) /\ loop[l].agent \notin raced => tasks[loop[l].agent] = l

(* Every turn ends.  Agents that call each other, or themselves, wait for   *)
(* each other's locks in a cycle, and the calls of one tool may wait for    *)
(* each other's lock; only the tool timeout breaks a cycle                  *)
(* (tool_agent_send, tool_agent_map_reduce, tool_execution_timeout).        *)
TurnsEnd == \A t \in Turns : []<>(turn[t] = Idle)

(* A loop that is not stopped sends a tick again and again, in spite of the *)
(* permits and locks that other agents hold (start_agent).                  *)
LoopsTick == \A l \in Loops : []<>(Ticks(l) # {} \/ ~Alive(l))

(* After the shutdown signal every loop ends, also those that nobody can    *)
(* stop any more and those that wait for a permit (start_agent, shutdown).  *)
ShutdownEndsLoops == \A l \in Loops : []<>(down => ~Alive(l))

(* What the documentation says of stop_agent, "Stop the background loop for *)
(* an agent, if one is running": an agent without a handle has no loop.     *)
StopStops == \A a \in Agents : tasks[a] = None => \A l \in Loops : Alive(l) => loop[l].agent # a
=============================================================================

-------------------------- MODULE BackgroundProofs --------------------------
(***************************************************************************)
(* Proofs about the background executor: types, one tick per loop, the     *)
(* account of the permits, and where loops that nobody can stop come from. *)
(*                                                                         *)
(* OneTickPerLoop is not inductive: it needs the busy flag of a loop to be *)
(* set from the moment the loop asks for a permit until the watcher of its *)
(* tick has run (Flagged).  PermitsAccounted needs that only ticks reach   *)
(* the watcher (OnlyTicksReturn) and that a timeout, which drops calls     *)
(* with all they have led to, never drops a tick (TimeoutSparesTicks).     *)
(* OrphansNeedARace needs that an agent nobody has interfered with has no  *)
(* loop while a start of it is to come, and only one such start (Clean).   *)
(***************************************************************************)
EXTENDS Background, FiniteSetTheorems, TLAPS

Flagged ==
  \A l \in Loops : Alive(l) =>
    /\ Ticks(l) # {} => loop[l].busy /\ loop[l].at # "permit"
    /\ loop[l].at = "permit" => loop[l].busy

SingleTick == \A l \in Loops : \A t, u \in Ticks(l) : t = u

OnlyTicksReturn == \A t \in Turns : TurnAt(t, "returned") => turn[t].from \in Loops

Inv == TypeOK /\ Flagged /\ SingleTick /\ OnlyTicksReturn /\ PermitsAccounted

(* The invariant gives the property of start_agent that is checked.         *)
LEMMA InvGivesOneTick == Inv => OneTickPerLoop
  BY DEF Inv, TypeOK, Flagged, SingleTick, OneTickPerLoop, LoopAt

(* Spawning a tick adds one to the ticks in flight, a watcher takes one     *)
(* away.                                                                    *)
LEMMA CountTicks ==
  ASSUME NEW S \in SUBSET Turns, NEW t \in Turns
  PROVE  /\ Cardinality(S) \in Nat
         /\ t \notin S => Cardinality(S \cup {t}) = Cardinality(S) + 1
         /\ t \in S => Cardinality(S \ {t}) = Cardinality(S) - 1 /\ Cardinality(S) # 0
<1>1. IsFiniteSet(S)
  BY ConstantsAssumption, FS_Subset
<1>2. Cardinality(S) \in Nat
  BY <1>1, FS_CardinalityType
<1>3. t \notin S => Cardinality(S \cup {t}) = Cardinality(S) + 1
  BY <1>1, FS_AddElement
<1>4. t \in S => Cardinality(S \ {t}) = Cardinality(S) - 1
  BY <1>1, FS_RemoveElement
<1>5. t \in S => Cardinality(S) # 0
  BY <1>1, FS_EmptySet
<1> QED
  BY <1>2, <1>3, <1>4, <1>5

(* Init: no loop, no turn, every permit free.                               *)
LEMMA InitInv == Init => Inv
<1> SUFFICES ASSUME Init PROVE Inv
  OBVIOUS
<1>1. TypeOK
  <2>1. MaxBg \in 0..MaxBg
    BY ConstantsAssumption
  <2>2. registry \subseteq Agents /\ boot \subseteq Agents /\ down \in BOOLEAN /\ raced \subseteq Agents
    BY DEF Init
  <2>3. /\ loop \in [Loops -> Loop \cup {Idle, Ended}]
        /\ tasks \in [Agents -> Loops \cup {None}]
        /\ turn \in [Turns -> Turn \cup {Idle}]
        /\ request \in [Requests -> Request \cup {Idle}]
    BY DEF Init
  <2> QED
    BY <2>1, <2>2, <2>3 DEF Init, TypeOK
<1>2. Flagged /\ SingleTick /\ OnlyTicksReturn
  BY DEF Init, Flagged, SingleTick, OnlyTicksReturn, Alive, Ticks, TurnAt
<1>3. BgTurns = {}
  BY DEF Init, BgTurns
<1>4. Cardinality(BgTurns) = 0
  BY <1>3, FS_EmptySet
<1>5. PermitsAccounted
  BY <1>4, ConstantsAssumption DEF Init, PermitsAccounted
<1> QED
  BY <1>1, <1>2, <1>5 DEF Inv

(* A step that leaves the turns and the permits alone keeps the parts of    *)
(* the invariant that are about them.                                       *)
LEMMA TurnsAlone ==
  ASSUME Inv, turn' = turn, permits' = permits
  PROVE  /\ SingleTick' /\ OnlyTicksReturn' /\ PermitsAccounted'
         /\ permits' \in 0..MaxBg
         /\ turn' \in [Turns -> Turn \cup {Idle}]
         /\ \A l \in Loops : Ticks(l)' = Ticks(l)
<1>1. \A l \in Loops : Ticks(l)' = Ticks(l)
  BY DEF Ticks
<1>2. SingleTick'
  BY <1>1 DEF Inv, SingleTick
<1>3. OnlyTicksReturn'
  BY DEF Inv, OnlyTicksReturn, TurnAt
<1>4. BgTurns' = BgTurns
  BY DEF BgTurns
<1>5. PermitsAccounted'
  BY <1>4 DEF Inv, PermitsAccounted
<1> QED
  BY <1>1, <1>2, <1>3, <1>5 DEF Inv, TypeOK

(* start_agent gives a new loop its own flag; a slot is free of ticks.      *)
LEMMA StartKeeps ==
  ASSUME Inv, NEW a \in Agents, StartAgent(a), turn' = turn
  PROVE  /\ loop' \in [Loops -> Loop \cup {Idle, Ended}]
         /\ tasks' \in [Agents -> Loops \cup {None}]
         /\ Flagged'
<1>1. PICK l \in Loops, first \in {"try", "sleep"} :
        /\ loop[l] = Idle
        /\ Ticks(l) = {}
        /\ loop' = [loop EXCEPT ![l] = [agent |-> a, busy |-> FALSE, at |-> first]]
        /\ tasks' = [tasks EXCEPT ![a] = l]
  BY DEF StartAgent
<1>2. loop' \in [Loops -> Loop \cup {Idle, Ended}]
  BY <1>1 DEF Inv, TypeOK, Loop
<1>3. tasks' \in [Agents -> Loops \cup {None}]
  BY <1>1 DEF Inv, TypeOK
<1>4. ASSUME NEW k \in Loops, Alive(k)'
      PROVE  /\ Ticks(k)' # {} => loop'[k].busy /\ loop'[k].at # "permit"
             /\ loop'[k].at = "permit" => loop'[k].busy
  <2>1. Ticks(k)' = Ticks(k)
    BY DEF Ticks
  <2>2. CASE k = l
    BY <1>1, <2>1, <2>2 DEF Inv, TypeOK
  <2>3. CASE k # l
    BY <1>1, <1>4, <2>1, <2>3 DEF Inv, TypeOK, Flagged, Alive
  <2> QED
    BY <2>2, <2>3
<1> QED
  BY <1>2, <1>3, <1>4 DEF Flagged

(* stop_agent frees a slot and touches no other loop.                       *)
LEMMA StopKeeps ==
  ASSUME Inv, NEW a \in Agents, StopAgent(a), turn' = turn
  PROVE  /\ loop' \in [Loops -> Loop \cup {Idle, Ended}]
         /\ tasks' \in [Agents -> Loops \cup {None}]
         /\ Flagged'
<1>1. tasks[a] \in Loops \cup {None}
  BY DEF Inv, TypeOK
<1>2. loop' \in [Loops -> Loop \cup {Idle, Ended}]
  BY <1>1 DEF Inv, TypeOK, StopAgent
<1>3. tasks' \in [Agents -> Loops \cup {None}]
  BY DEF Inv, TypeOK, StopAgent
<1>4. ASSUME NEW k \in Loops, Alive(k)'
      PROVE  loop'[k] = loop[k] /\ Alive(k)
  BY <1>1, <1>4 DEF Inv, TypeOK, StopAgent, Alive
<1>5. \A k \in Loops : Ticks(k)' = Ticks(k)
  BY DEF Ticks
<1> QED
  BY <1>2, <1>3, <1>4, <1>5 DEF Inv, Flagged

(* Requests, boot, kill and shutdown.                                       *)
LEMMA ManageKeeps == Inv /\ Manage => Inv'
<1> SUFFICES ASSUME Inv, Manage PROVE Inv'
  OBVIOUS
<1>1. ASSUME NEW a \in Agents, BootStart(a) PROVE Inv'
  <2>1. boot' \subseteq Agents
    BY <1>1 DEF Inv, TypeOK, BootStart
  <2> QED
    BY <1>1, <2>1, StartKeeps, TurnsAlone DEF BootStart, Inv, TypeOK
<1>2. ASSUME NEW a \in Agents, KillAgent(a) PROVE Inv'
  <2>1. registry' \subseteq Agents /\ raced' \subseteq Agents
    BY <1>2 DEF Inv, TypeOK, KillAgent, NoteRace
  <2> QED
    BY <1>2, <2>1, StopKeeps, TurnsAlone DEF KillAgent, Inv, TypeOK
<1>3. ASSUME NEW r \in Requests, NEW a \in Agents, BeginUpdate(r, a) PROVE Inv'
  <2>1. request' \in [Requests -> Request \cup {Idle}] /\ raced' \subseteq Agents
    BY <1>3 DEF Inv, TypeOK, BeginUpdate, Request, NoteRace
  <2> QED
    BY <1>3, <2>1, StopKeeps, TurnsAlone DEF BeginUpdate, Inv, TypeOK
<1>4. ASSUME NEW r \in Requests, NEW a \in Agents, BeginActivate(r, a) PROVE Inv'
  <2>1. request' \in [Requests -> Request \cup {Idle}]
    BY <1>4 DEF Inv, TypeOK, BeginActivate, Request
  <2>2. registry' \subseteq Agents /\ raced' \subseteq Agents
    BY <1>4 DEF Inv, TypeOK, BeginActivate, NoteRace
  <2>3. CASE a \in registry
    BY <1>4, <2>1, <2>2, <2>3, StopKeeps, TurnsAlone DEF BeginActivate, Inv, TypeOK
  <2>4. CASE a \notin registry
    <3>1. Flagged'
      BY <1>4, <2>4 DEF Inv, BeginActivate, Flagged, Alive, Ticks
    <3> QED
      BY <1>4, <2>1, <2>2, <2>4, <3>1, TurnsAlone DEF BeginActivate, Inv, TypeOK
  <2> QED
    BY <2>3, <2>4
<1>5. ASSUME NEW r \in Requests, FinishRequest(r) PROVE Inv'
  <2>1. request' \in [Requests -> Request \cup {Idle}]
    BY <1>5 DEF Inv, TypeOK, FinishRequest
  <2>2. request[r].agent \in Agents
    BY <1>5 DEF Inv, TypeOK, FinishRequest, Request
  <2> QED
    BY <1>5, <2>1, <2>2, StartKeeps, TurnsAlone DEF FinishRequest, Inv, TypeOK
<1>6. ASSUME NEW r \in Requests, FinishWithoutLoop(r) PROVE Inv'
  <2>1. request' \in [Requests -> Request \cup {Idle}]
    BY <1>6 DEF Inv, TypeOK, FinishWithoutLoop
  <2>2. Flagged'
    BY <1>6 DEF Inv, FinishWithoutLoop, Flagged, Alive, Ticks
  <2> QED
    BY <1>6, <2>1, <2>2, TurnsAlone DEF FinishWithoutLoop, Inv, TypeOK
<1>7. CASE Shutdown
  <2>1. Flagged'
    BY <1>7 DEF Inv, Shutdown, Flagged, Alive, Ticks
  <2> QED
    BY <1>7, <2>1, TurnsAlone DEF Shutdown, Inv, TypeOK
<1> QED
  BY <1>1, <1>2, <1>3, <1>4, <1>5, <1>6, <1>7 DEF Manage

(* A step of one loop that changes no turn and no permit.                   *)
LEMMA LoopAlone ==
  ASSUME Inv, NEW l \in Loops, NEW r \in Loop \cup {Idle, Ended},
         loop' = [loop EXCEPT ![l] = r],
         r \in Loop => /\ Ticks(l) # {} => r.busy /\ r.at # "permit"
                       /\ r.at = "permit" => r.busy,
         UNCHANGED <<registry, boot, tasks, permits, turn, request, down, raced>>
  PROVE  Inv'
<1>1. loop' \in [Loops -> Loop \cup {Idle, Ended}]
  BY DEF Inv, TypeOK
<1>2. ASSUME NEW k \in Loops, Alive(k)'
      PROVE  /\ Ticks(k)' # {} => loop'[k].busy /\ loop'[k].at # "permit"
             /\ loop'[k].at = "permit" => loop'[k].busy
  <2>1. Ticks(k)' = Ticks(k)
    BY DEF Ticks
  <2>2. CASE k = l
    BY <1>2, <2>1, <2>2 DEF Inv, TypeOK, Alive
  <2>3. CASE k # l
    BY <1>2, <2>1, <2>3 DEF Inv, TypeOK, Flagged, Alive
  <2> QED
    BY <2>2, <2>3
<1>3. Flagged'
  BY <1>2 DEF Flagged
<1> QED
  BY <1>1, <1>3, TurnsAlone DEF Inv, TypeOK

(* start_agent: compare_exchange on the flag.                               *)
LEMMA TryTickKeeps == ASSUME Inv, NEW l \in Loops, TryTick(l) PROVE Inv'
<1>1. loop[l] \in Loop
  BY DEF Inv, TypeOK, TryTick, LoopAt, Alive
<1> DEFINE r == [loop[l] EXCEPT !.busy = TRUE, !.at = IF loop[l].busy THEN "sleep" ELSE "permit"]
<1>2. r \in Loop
  BY <1>1 DEF Loop
<1>3. loop' = [loop EXCEPT ![l] = r]
  BY <1>1 DEF TryTick, Inv, TypeOK, Loop
<1>4. Ticks(l) # {} => loop[l].busy
  BY DEF Inv, Flagged, TryTick, LoopAt
<1>5. r.busy /\ (loop[l].busy => r.at = "sleep")
  BY <1>1 DEF Loop
<1> HIDE DEF r
<1>6. UNCHANGED <<registry, boot, tasks, permits, turn, request, down, raced>>
  BY DEF TryTick
<1> QED
  BY <1>2, <1>3, <1>4, <1>5, <1>6, LoopAlone

(* start_agent: the interval is over.                                       *)
LEMMA SleepOverKeeps == ASSUME Inv, NEW l \in Loops, SleepOver(l) PROVE Inv'
<1>1. loop[l] \in Loop
  BY DEF Inv, TypeOK, SleepOver, LoopAt, Alive
<1> DEFINE r == [loop[l] EXCEPT !.at = "try"]
<1>2. r \in Loop
  BY <1>1 DEF Loop
<1>3. loop' = [loop EXCEPT ![l] = r]
  BY <1>1 DEF SleepOver, Inv, TypeOK, Loop
<1>4. Ticks(l) # {} => loop[l].busy
  BY DEF Inv, Flagged, SleepOver, LoopAt
<1>5. r.busy = loop[l].busy /\ r.at = "try"
  BY <1>1 DEF Loop
<1> HIDE DEF r
<1>6. UNCHANGED <<registry, boot, tasks, permits, turn, request, down, raced>>
  BY DEF SleepOver
<1> QED
  BY <1>2, <1>3, <1>4, <1>5, <1>6, LoopAlone

(* start_agent: the signal ends the loop.                                   *)
LEMMA NoticeShutdownKeeps == ASSUME Inv, NEW l \in Loops, NoticeShutdown(l) PROVE Inv'
<1>1. loop' \in [Loops -> Loop \cup {Idle, Ended}]
  BY DEF Inv, TypeOK, NoticeShutdown
<1>2. \A k \in Loops : Alive(k)' => loop'[k] = loop[k] /\ Alive(k)
  BY DEF Inv, TypeOK, NoticeShutdown, Alive
<1>3. \A k \in Loops : Ticks(k)' = Ticks(k)
  BY DEF NoticeShutdown, Ticks
<1>4. Flagged'
  BY <1>2, <1>3 DEF Inv, Flagged
<1> QED
  BY <1>1, <1>4, TurnsAlone DEF Inv, TypeOK, NoticeShutdown

(* start_agent: the tick takes the permit with it.                          *)
LEMMA SendTickKeeps == ASSUME Inv, NEW l \in Loops, SendTick(l) PROVE Inv'
<1>1. loop[l] \in Loop /\ loop[l].at = "permit" /\ Alive(l)
  BY DEF Inv, TypeOK, SendTick, LoopAt, Alive
<1>2. loop[l].busy /\ Ticks(l) = {}
  BY <1>1 DEF Inv, Flagged
<1>3. PICK t \in Turns :
        /\ turn[t] = Idle
        /\ turn' = [turn EXCEPT ![t] = [agent |-> loop[l].agent, at |-> "waiting",
                                        from |-> l, depth |-> 0, timed |-> FALSE]]
  BY DEF SendTick, Turns
<1>4. turn'[t] \in Turn /\ turn'[t].from = l /\ turn'[t].at = "waiting"
  BY <1>1, <1>3, ConstantsAssumption DEF Inv, TypeOK, Loop, Turn
<1>5. turn'[t] # Idle
  BY <1>4, IdleAssumption
<1>6. \A u \in Turns : u # t => turn'[u] = turn[u]
  BY <1>3 DEF Inv, TypeOK
<1>7. turn' \in [Turns -> Turn \cup {Idle}]
  BY <1>3, <1>4 DEF Inv, TypeOK
<1>8. Ticks(l)' = {t} /\ \A k \in Loops : k # l => Ticks(k)' = Ticks(k)
  BY <1>2, <1>3, <1>4, <1>5, <1>6 DEF Ticks
<1>9. SingleTick'
  BY <1>8 DEF Inv, SingleTick
<1>10. OnlyTicksReturn'
  BY <1>4, <1>6 DEF Inv, OnlyTicksReturn, TurnAt
<1>11. /\ loop' \in [Loops -> Loop \cup {Idle, Ended}]
       /\ loop'[l].busy = loop[l].busy /\ loop'[l].at = "sleep"
       /\ \A k \in Loops : k # l => loop'[k] = loop[k]
  BY <1>1 DEF Inv, TypeOK, SendTick, Loop
<1>12. Flagged'
  BY <1>2, <1>8, <1>11 DEF Inv, Flagged, Alive
<1>13. BgTurns' = BgTurns \cup {t} /\ t \notin BgTurns
  BY <1>3, <1>4, <1>5, <1>6 DEF BgTurns
<1>14. Cardinality(BgTurns') = Cardinality(BgTurns) + 1 /\ Cardinality(BgTurns) \in Nat
  BY <1>13, CountTicks DEF BgTurns
<1>15. PermitsAccounted' /\ permits' \in 0..MaxBg
  BY <1>14, ConstantsAssumption DEF Inv, TypeOK, PermitsAccounted, SendTick
<1> QED
  BY <1>7, <1>9, <1>10, <1>11, <1>12, <1>15 DEF Inv, TypeOK, SendTick

(* The invariant after a step that changes turns but no loop, in terms of   *)
(* what the step does to the ticks.                                         *)
LEMMA TurnStepKeeps ==
  ASSUME Inv, UNCHANGED <<registry, boot, loop, tasks, permits, request, down, raced>>,
         turn' \in [Turns -> Turn \cup {Idle}],
         \A t \in Turns : (turn'[t] # Idle /\ turn'[t].from \in Loops)
                          <=> (turn[t] # Idle /\ turn[t].from \in Loops),
         \A t \in BgTurns : turn'[t].from = turn[t].from,
         OnlyTicksReturn'
  PROVE  Inv'
<1>1. BgTurns' = BgTurns
  BY DEF BgTurns
<1>2. \A l \in Loops : Ticks(l)' = Ticks(l)
  BY DEF Ticks, BgTurns
<1>3. SingleTick'
  BY <1>2 DEF Inv, SingleTick
<1>4. Flagged'
  BY <1>2 DEF Inv, Flagged, Alive
<1>5. PermitsAccounted'
  BY <1>1 DEF Inv, PermitsAccounted
<1> QED
  BY <1>3, <1>4, <1>5 DEF Inv, TypeOK

(* A message from outside is no tick.                                       *)
LEMMA ClientMessageKeeps ==
  ASSUME Inv, NEW t \in Turns, NEW a \in Agents, ClientMessage(t, a)
  PROVE  Inv'
<1>1. Client \notin Loops
  BY ConstantsAssumption
<1> DEFINE m == NewTurn(a, Client, 0, FALSE)
<1>2. m \in Turn
  BY ConstantsAssumption DEF Turn, NewTurn
<1>3. turn' = [turn EXCEPT ![t] = m] /\ turn[t] = Idle
  BY DEF ClientMessage
<1>4. m.from = Client /\ m.at = "waiting"
  BY DEF NewTurn
<1> HIDE DEF m
<1>5. turn' \in [Turns -> Turn \cup {Idle}]
  BY <1>2, <1>3 DEF Inv, TypeOK
<1>6. OnlyTicksReturn'
  BY <1>3, <1>4 DEF Inv, TypeOK, OnlyTicksReturn, TurnAt
<1>7. \A u \in Turns : (turn'[u] # Idle /\ turn'[u].from \in Loops)
                       <=> (turn[u] # Idle /\ turn[u].from \in Loops)
  BY <1>1, <1>3, <1>4 DEF Inv, TypeOK
<1>8. \A u \in BgTurns : turn'[u].from = turn[u].from
  BY <1>3 DEF Inv, TypeOK, BgTurns
<1> QED
  BY <1>5, <1>6, <1>7, <1>8, TurnStepKeeps DEF ClientMessage

(* Neither is a call of agent_send ...                                      *)
LEMMA AgentSendKeeps ==
  ASSUME Inv, NEW t \in Turns, NEW u \in Turns, NEW b \in Agents, AgentSend(t, u, b)
  PROVE  Inv'
<1>1. t \notin Loops
  BY ConstantsAssumption
<1>2. turn[t] \in Turn /\ turn[t].depth < MaxDepth
  BY DEF Inv, TypeOK, AgentSend, TurnAt
<1> DEFINE m == NewTurn(b, t, turn[t].depth + 1, FALSE)
<1>3. turn[t].depth + 1 \in 0..MaxDepth
  BY <1>2, ConstantsAssumption DEF Turn
<1>4. m \in Turn
  BY <1>3 DEF Turn, NewTurn
<1>5. turn' = [turn EXCEPT ![u] = m] /\ turn[u] = Idle
  BY DEF AgentSend
<1>6. m.from = t /\ m.at = "waiting"
  BY DEF NewTurn
<1> HIDE DEF m
<1>7. turn' \in [Turns -> Turn \cup {Idle}]
  BY <1>4, <1>5 DEF Inv, TypeOK
<1>8. OnlyTicksReturn'
  BY <1>5, <1>6 DEF Inv, TypeOK, OnlyTicksReturn, TurnAt
<1>9. \A v \in Turns : (turn'[v] # Idle /\ turn'[v].from \in Loops)
                       <=> (turn[v] # Idle /\ turn[v].from \in Loops)
  BY <1>1, <1>5, <1>6 DEF Inv, TypeOK
<1>10. \A v \in BgTurns : turn'[v].from = turn[v].from
  BY <1>5 DEF Inv, TypeOK, BgTurns
<1> QED
  BY <1>7, <1>8, <1>9, <1>10, TurnStepKeeps DEF AgentSend

(* ... or one of the calls of another tool.                                 *)
LEMMA AgentFanOutKeeps ==
  ASSUME Inv, NEW t \in Turns, NEW us \in SUBSET Turns, NEW timed \in BOOLEAN,
         NEW who \in [us -> Agents], AgentFanOut(t, us, who, timed)
  PROVE  Inv'
<1>1. t \notin Loops
  BY ConstantsAssumption
<1>2. turn[t] \in Turn
  BY DEF Inv, TypeOK, AgentFanOut, TurnAt
<1>3. ASSUME NEW u \in us
      PROVE  /\ turn[u] = Idle
             /\ turn'[u] \in Turn /\ turn'[u].from = t /\ turn'[u].at = "waiting"
  <2>1. turn[u] = Idle /\ turn'[u] = NewTurn(who[u], t, turn[t].depth, timed)
    BY DEF AgentFanOut
  <2>2. who[u] \in Agents /\ turn[t].depth \in 0..MaxDepth
    BY <1>2 DEF Turn
  <2> QED
    BY <2>1, <2>2 DEF NewTurn, Turn
<1>4. \A u \in Turns \ us : turn'[u] = turn[u]
  BY DEF AgentFanOut
<1>5. turn' \in [Turns -> Turn \cup {Idle}]
  <2>1. turn' = [u \in Turns |-> turn'[u]]
    BY DEF AgentFanOut
  <2>2. \A u \in Turns : turn'[u] \in Turn \cup {Idle}
    BY <1>3, <1>4 DEF Inv, TypeOK
  <2> QED
    BY <2>1, <2>2
<1>6. OnlyTicksReturn'
  BY <1>3, <1>4 DEF Inv, OnlyTicksReturn, TurnAt
<1>7. \A u \in Turns : (turn'[u] # Idle /\ turn'[u].from \in Loops)
                       <=> (turn[u] # Idle /\ turn[u].from \in Loops)
  BY <1>1, <1>3, <1>4
<1>8. \A u \in BgTurns : turn'[u].from = turn[u].from
  BY <1>3, <1>4 DEF BgTurns
<1> QED
  BY <1>5, <1>6, <1>7, <1>8, TurnStepKeeps DEF AgentFanOut

(* A turn gets the lock of its agent.                                       *)
LEMMA TakeLockKeeps == ASSUME Inv, NEW t \in Turns, TakeLock(t) PROVE Inv'
<1>1. turn[t] \in Turn /\ turn[t] # Idle
  BY DEF Inv, TypeOK, TakeLock, TurnAt
<1> DEFINE m == [turn[t] EXCEPT !.at = "running"]
<1>2. m \in Turn /\ m.from = turn[t].from /\ m.at = "running"
  BY <1>1 DEF Turn
<1>3. turn' = [turn EXCEPT ![t] = m]
  BY <1>1 DEF TakeLock, Inv, TypeOK, Turn
<1> HIDE DEF m
<1>4. m # Idle
  BY <1>2, IdleAssumption
<1>5. turn' \in [Turns -> Turn \cup {Idle}]
  BY <1>2, <1>3 DEF Inv, TypeOK
<1>6. OnlyTicksReturn'
  BY <1>2, <1>3 DEF Inv, TypeOK, OnlyTicksReturn, TurnAt
<1>7. \A u \in Turns : (turn'[u] # Idle /\ turn'[u].from \in Loops)
                       <=> (turn[u] # Idle /\ turn[u].from \in Loops)
  BY <1>1, <1>2, <1>3, <1>4 DEF Inv, TypeOK
<1>8. \A u \in BgTurns : turn'[u].from = turn[u].from
  BY <1>2, <1>3 DEF Inv, TypeOK, BgTurns
<1> QED
  BY <1>5, <1>6, <1>7, <1>8, TurnStepKeeps DEF TakeLock

(* A turn returns; a tick stays until its watcher has run.                  *)
LEMMA EndTurnKeeps == ASSUME Inv, NEW t \in Turns, EndTurn(t) PROVE Inv'
<1>1. turn[t] \in Turn /\ turn[t] # Idle
  BY DEF Inv, TypeOK, EndTurn, TurnAt
<1>2. CASE turn[t].from \in Loops
  <2> DEFINE m == [turn[t] EXCEPT !.at = "returned"]
  <2>1. m \in Turn /\ m.from = turn[t].from
    BY <1>1 DEF Turn
  <2>2. turn' = [turn EXCEPT ![t] = m]
    BY <1>1, <1>2 DEF EndTurn, Inv, TypeOK
  <2> HIDE DEF m
  <2>3. m # Idle
    BY <2>1, IdleAssumption
  <2>4. turn' \in [Turns -> Turn \cup {Idle}]
    BY <2>1, <2>2 DEF Inv, TypeOK
  <2>5. OnlyTicksReturn'
    BY <1>2, <2>1, <2>2 DEF Inv, TypeOK, OnlyTicksReturn, TurnAt
  <2>6. \A u \in Turns : (turn'[u] # Idle /\ turn'[u].from \in Loops)
                         <=> (turn[u] # Idle /\ turn[u].from \in Loops)
    BY <1>1, <2>1, <2>2, <2>3 DEF Inv, TypeOK
  <2>7. \A u \in BgTurns : turn'[u].from = turn[u].from
    BY <2>1, <2>2 DEF Inv, TypeOK, BgTurns
  <2> QED
    BY <2>4, <2>5, <2>6, <2>7, TurnStepKeeps DEF EndTurn
<1>3. CASE turn[t].from \notin Loops
  <2>1. turn' = [turn EXCEPT ![t] = Idle]
    BY <1>3 DEF EndTurn, Inv, TypeOK
  <2>2. turn' \in [Turns -> Turn \cup {Idle}]
    BY <2>1 DEF Inv, TypeOK
  <2>3. OnlyTicksReturn'
    BY <2>1 DEF Inv, TypeOK, OnlyTicksReturn, TurnAt
  <2>4. \A u \in Turns : (turn'[u] # Idle /\ turn'[u].from \in Loops)
                         <=> (turn[u] # Idle /\ turn[u].from \in Loops)
    BY <1>3, <2>1 DEF Inv, TypeOK
  <2>5. \A u \in BgTurns : turn'[u].from = turn[u].from
    BY <1>3, <2>1 DEF Inv, TypeOK, BgTurns
  <2> QED
    BY <2>2, <2>3, <2>4, <2>5, TurnStepKeeps DEF EndTurn
<1> QED
  BY <1>2, <1>3

(* Dropping calls drops all they have led to and never a tick: the turns    *)
(* that are no ticks are closed under calls.                                *)
LEMMA TimeoutSparesTicks ==
  ASSUME Inv, NEW us \in SUBSET Turns, us \cap BgTurns = {}
  PROVE  CallTree(us) \cap BgTurns = {}
<1> DEFINE N == Turns \ BgTurns
<1>1. Turns \cap Loops = {}
  BY ConstantsAssumption
<1>2. us \subseteq N
  OBVIOUS
<1>3. \A t \in N : Calls(t) \subseteq N
  BY <1>1 DEF Calls, BgTurns
<1> HIDE DEF N
<1>4. N \in SUBSET Turns
  BY DEF N
<1>5. CallTree(us) \subseteq N
  BY <1>2, <1>3, <1>4 DEF CallTree
<1> QED
  BY <1>5 DEF N

(* So a timeout keeps the invariant.                                        *)
LEMMA DroppedKeeps ==
  ASSUME Inv, NEW us \in SUBSET Turns, us \cap BgTurns = {}, turn' = Dropped(us),
         UNCHANGED <<registry, boot, loop, tasks, permits, request, down, raced>>
  PROVE  Inv'
<1>1. CallTree(us) \cap BgTurns = {}
  BY TimeoutSparesTicks
<1>2. turn' = [v \in Turns |-> IF v \in CallTree(us) THEN Idle ELSE turn[v]]
  BY DEF Dropped
<1>3. turn' \in [Turns -> Turn \cup {Idle}]
  BY <1>2 DEF Inv, TypeOK
<1>4. OnlyTicksReturn'
  BY <1>2 DEF Inv, OnlyTicksReturn, TurnAt
<1>5. \A v \in Turns : (turn'[v] # Idle /\ turn'[v].from \in Loops)
                       <=> (turn[v] # Idle /\ turn[v].from \in Loops)
  BY <1>1, <1>2 DEF BgTurns
<1>6. \A v \in BgTurns : turn'[v].from = turn[v].from
  BY <1>1, <1>2 DEF BgTurns
<1> QED
  BY <1>3, <1>4, <1>5, <1>6, TurnStepKeeps

(* The timeout of a tool, and the own timeout of a call.                    *)
LEMMA TimeoutKeeps ==
  ASSUME Inv, NEW u \in Turns, ToolTimeout(u) \/ CallTimeout(u)
  PROVE  Inv'
<1>1. turn[u].from \in Turns /\ turn[u].from \notin Loops
  BY ConstantsAssumption DEF ToolTimeout, CallTimeout
<1>2. CASE ToolTimeout(u)
  <2>1. PICK us : us = Calls(turn[u].from)
    OBVIOUS
  <2>2. us \in SUBSET Turns /\ us \cap BgTurns = {}
    BY <1>1, <2>1 DEF Calls, BgTurns
  <2> QED
    BY <1>2, <2>1, <2>2, DroppedKeeps DEF ToolTimeout
<1>3. CASE CallTimeout(u)
  <2>1. {u} \in SUBSET Turns /\ {u} \cap BgTurns = {}
    BY <1>1 DEF BgTurns
  <2> QED
    BY <1>3, <2>1, DroppedKeeps DEF CallTimeout
<1> QED
  BY <1>2, <1>3

(* The watcher: the permit comes back and the flag is cleared.              *)
LEMMA WatchKeeps == ASSUME Inv, NEW t \in Turns, Watch(t) PROVE Inv'
<1>1. PICK l \in Loops : turn[t] # Idle /\ turn[t].from = l
  BY DEF Inv, OnlyTicksReturn, Watch, TurnAt
<1>2. turn' = [turn EXCEPT ![t] = Idle] /\ permits' = permits + 1
  BY DEF Watch
<1>3. loop' = IF Alive(l) THEN [loop EXCEPT ![l].busy = FALSE] ELSE loop
  BY <1>1 DEF Watch
<1>4. t \in Ticks(l) /\ t \in BgTurns
  BY <1>1 DEF Ticks, BgTurns
<1>5. Ticks(l) = {t}
  BY <1>1, <1>4 DEF Inv, SingleTick
<1>6. Ticks(l)' = {} /\ \A k \in Loops : k # l => Ticks(k)' = Ticks(k)
  BY <1>1, <1>2, <1>5 DEF Ticks, Inv, TypeOK
<1>7. BgTurns' = BgTurns \ {t}
  BY <1>2 DEF BgTurns, Inv, TypeOK
<1>8. turn' \in [Turns -> Turn \cup {Idle}]
  BY <1>2 DEF Inv, TypeOK
<1>9. SingleTick'
  BY <1>1, <1>6 DEF Inv, SingleTick
<1>10. OnlyTicksReturn'
  BY <1>2 DEF Inv, TypeOK, OnlyTicksReturn, TurnAt
<1>11. /\ loop' \in [Loops -> Loop \cup {Idle, Ended}]
       /\ \A k \in Loops : k # l => loop'[k] = loop[k]
       /\ Alive(l) => loop'[l].at = loop[l].at
       /\ Alive(l)' => Alive(l)
  BY <1>1, <1>3 DEF Inv, TypeOK, Alive, Loop
<1>12. Alive(l) => loop[l].at # "permit"
  BY <1>1, <1>5 DEF Inv, Flagged
<1>13. Flagged'
  BY <1>1, <1>6, <1>11, <1>12 DEF Inv, Flagged, Alive
<1>14. /\ Cardinality(BgTurns') = Cardinality(BgTurns) - 1
       /\ Cardinality(BgTurns) \in Nat
       /\ Cardinality(BgTurns) # 0
  BY <1>4, <1>7, CountTicks DEF BgTurns
<1>15. PermitsAccounted' /\ permits' \in 0..MaxBg
  BY <1>2, <1>14, ConstantsAssumption DEF Inv, TypeOK, PermitsAccounted
<1> QED
  BY <1>8, <1>9, <1>10, <1>11, <1>13, <1>15 DEF Inv, TypeOK, Watch

(* Every step keeps the invariant.                                          *)
LEMMA NextKeeps == Inv /\ [Next]_vars => Inv'
<1> SUFFICES ASSUME Inv, [Next]_vars PROVE Inv'
  OBVIOUS
<1>1. CASE Manage
  BY <1>1, ManageKeeps
<1>2. ASSUME NEW l \in Loops, LoopStep(l) PROVE Inv'
  BY <1>2, TryTickKeeps, SendTickKeeps, SleepOverKeeps, NoticeShutdownKeeps DEF LoopStep, LoopAdvance
<1>3. ASSUME NEW t \in MessageTurns, NEW a \in Agents, ClientMessage(t, a) PROVE Inv'
  BY <1>3, ClientMessageKeeps DEF Turns
<1>4. ASSUME NEW t \in Turns, TurnStep(t) PROVE Inv'
  <2>1. CASE TurnAdvance(t) \/ CallTimeout(t)
    BY <2>1, TakeLockKeeps, EndTurnKeeps, TimeoutKeeps, WatchKeeps DEF TurnAdvance
  <2>2. ASSUME NEW u \in CallTurns, NEW b \in Agents, AgentSend(t, u, b) PROVE Inv'
    BY <2>2, AgentSendKeeps DEF Turns
  <2>3. ASSUME NEW us \in SUBSET CallTurns, NEW timed \in BOOLEAN, NEW who \in [us -> registry],
               AgentFanOut(t, us, who, timed)
        PROVE  Inv'
    <3>1. us \in SUBSET Turns /\ who \in [us -> Agents]
      BY DEF Turns, Inv, TypeOK
    <3> QED
      BY <2>3, <3>1, AgentFanOutKeeps
  <2> QED
    BY <1>4, <2>1, <2>2, <2>3 DEF TurnStep
<1>5. CASE UNCHANGED vars
  BY <1>5 DEF vars, Inv, TypeOK, Flagged, SingleTick, OnlyTicksReturn, PermitsAccounted,
              Alive, Ticks, TurnAt, BgTurns
<1> QED
  BY <1>1, <1>2, <1>3, <1>4, <1>5 DEF Next

(* The inductive invariant of the executor and the turns it starts.         *)
THEOREM Invariant == Spec => []Inv
  BY InitInv, NextKeeps, PTL DEF Spec

(* Loops, handles, turns and permits stay well typed for any number of      *)
(* agents, loops, turns and permits (start_agent).                          *)
THEOREM TypeCorrect == Spec => []TypeOK
<1>1. Inv => TypeOK
  BY DEF Inv
<1> QED
  BY <1>1, Invariant, PTL

(* No loop of start_agent has two ticks in flight or waits for a permit     *)
(* with one, whatever is stopped, restarted, timed out or slow.             *)
THEOREM OneTickPerLoopHolds == Spec => []OneTickPerLoop
  BY InvGivesOneTick, Invariant, PTL

(* The permits of llm_semaphore and the ticks in flight always add up to    *)
(* MAX_CONCURRENT_BG_LLM, also across aborted loops.                        *)
THEOREM PermitsAccountedHolds == Spec => []PermitsAccounted
<1>1. Inv => PermitsAccounted
  BY DEF Inv
<1> QED
  BY <1>1, Invariant, PTL
-----------------------------------------------------------------------------
(* Loops that stop_agent cannot reach.                                      *)

Runs(l, a) == Alive(l) /\ loop[l].agent = a

(* At most one start of the agent is to come.                               *)
OneStart(a) ==
  /\ \A r \in Requests : request[r] # Idle /\ request[r].agent = a => a \notin boot
  /\ \A r, q \in Requests :
       request[r] # Idle /\ request[r].agent = a /\ request[q] # Idle /\ request[q].agent = a => r = q

(* What is true of an agent that no operation has raced with.               *)
Clean(a) ==
  /\ \A l \in Loops : Runs(l, a) => tasks[a] = l
  /\ Starting(a) => a \in registry /\ \A l \in Loops : ~Runs(l, a)
  /\ a \notin registry => \A l \in Loops : ~Runs(l, a)
  /\ OneStart(a)

CleanUnlessRaced == \A a \in Agents : a \notin raced => Clean(a)

(* The invariant gives the property.                                        *)
LEMMA CleanGivesNoOrphans == TypeOK /\ CleanUnlessRaced => OrphansNeedARace
<1> SUFFICES ASSUME TypeOK, CleanUnlessRaced, NEW l \in Loops, Alive(l), loop[l].agent \notin raced
             PROVE  tasks[loop[l].agent] = l
  BY DEF OrphansNeedARace
<1>1. loop[l].agent \in Agents
  BY DEF TypeOK, Alive, Loop
<1> QED
  BY <1>1 DEF CleanUnlessRaced, Clean, Runs

(* A step that leaves the agent's handle, its registration and its starts   *)
(* alone, and makes no loop of it, keeps the agent clean.                   *)
LEMMA CleanKept ==
  ASSUME NEW a \in Agents, Clean(a),
         tasks'[a] = tasks[a],
         a \in registry' <=> a \in registry,
         a \in boot' => a \in boot,
         \A r \in Requests : request'[r] # Idle /\ request'[r].agent = a =>
                             request[r] # Idle /\ request[r].agent = a,
         \A l \in Loops : Runs(l, a)' => Runs(l, a)
  PROVE  Clean(a)'
<1>1. Starting(a)' => Starting(a)
  BY DEF Starting
<1>2. OneStart(a)'
  BY DEF Clean, OneStart
<1> QED
  BY <1>1, <1>2 DEF Clean

(* start_agent makes one loop, of its agent, and keeps the handle to it.    *)
LEMMA StartRuns ==
  ASSUME TypeOK, NEW a \in Agents, StartAgent(a)
  PROVE  /\ \A b \in Agents \ {a} : tasks'[b] = tasks[b] /\ \A k \in Loops : Runs(k, b)' => Runs(k, b)
         /\ \A k \in Loops : Runs(k, a)' => Runs(k, a) \/ tasks'[a] = k
<1>1. PICK l \in Loops, first \in {"try", "sleep"} :
        /\ loop' = [loop EXCEPT ![l] = [agent |-> a, busy |-> FALSE, at |-> first]]
        /\ tasks' = [tasks EXCEPT ![a] = l]
  BY DEF StartAgent
<1>2. loop'[l].agent = a /\ \A k \in Loops \ {l} : loop'[k] = loop[k]
  BY <1>1 DEF TypeOK
<1>3. tasks'[a] = l /\ \A b \in Agents \ {a} : tasks'[b] = tasks[b]
  BY <1>1 DEF TypeOK
<1> QED
  BY <1>2, <1>3 DEF Runs, Alive

(* stop_agent makes no loop, and ends every loop its handle leads to.       *)
LEMMA StopRuns ==
  ASSUME TypeOK, NEW a \in Agents, StopAgent(a)
  PROVE  /\ \A b \in Agents \ {a} : tasks'[b] = tasks[b]
         /\ \A b \in Agents, k \in Loops : Runs(k, b)' => Runs(k, b)
         /\ \A k \in Loops : Runs(k, a)' => tasks[a] # k
<1>1. \A b \in Agents \ {a} : tasks'[b] = tasks[b]
  BY DEF TypeOK, StopAgent
<1>2. \A k \in Loops : Alive(k)' => loop'[k] = loop[k] /\ Alive(k)
  BY DEF TypeOK, StopAgent, Alive
<1>3. ASSUME NEW k \in Loops, tasks[a] = k PROVE ~Alive(k)'
  <2>1. CASE Alive(k) /\ tasks[a] # None
    BY <1>3, <2>1 DEF TypeOK, StopAgent, Alive
  <2>2. CASE ~Alive(k)
    BY <1>2, <2>2
  <2>3. CASE tasks[a] = None
    BY <1>3, <2>3, ConstantsAssumption
  <2> QED
    BY <2>1, <2>2, <2>3
<1> QED
  BY <1>1, <1>2, <1>3 DEF Runs

(* The step that carries out the start of a clean agent leaves one loop,    *)
(* with its handle.                                                         *)
LEMMA StartCleans ==
  ASSUME TypeOK, NEW a \in Agents, Clean(a), Starting(a), StartAgent(a), registry' = registry,
         ~Starting(a)'
  PROVE  Clean(a)'
<1>1. a \in registry' /\ \A k \in Loops : Runs(k, a)' => tasks'[a] = k
  BY StartRuns DEF Clean
<1>2. OneStart(a)'
  BY DEF Starting, OneStart
<1> QED
  BY <1>1, <1>2 DEF Clean

(* An operation on a clean agent leaves it without loops.                   *)
LEMMA StopCleans ==
  ASSUME TypeOK, NEW a \in Agents, Clean(a), StopAgent(a), Starting(a)' => a \in registry', OneStart(a)'
  PROVE  Clean(a)'
<1>1. \A k \in Loops : ~Runs(k, a)'
  BY StopRuns DEF Clean
<1> QED
  BY <1>1 DEF Clean

(* The first request on a clean agent is its only start.                    *)
LEMMA BeginOneStart ==
  ASSUME TypeOK, NEW a \in Agents, NEW r \in Requests, NEW q, ~Starting(a),
         boot' = boot, request' = [request EXCEPT ![r] = q]
  PROVE  OneStart(a)'
<1>1. \A p \in Requests \ {r} : request'[p] = request[p]
  BY DEF TypeOK
<1>2. a \notin boot' /\ \A p \in Requests \ {r} : ~(request'[p] # Idle /\ request'[p].agent = a)
  BY <1>1 DEF Starting
<1> QED
  BY <1>2 DEF OneStart

(* Steps of loops and turns make no loop and change no agent.               *)
LEMMA LoopStepRuns ==
  ASSUME TypeOK, NEW l \in Loops, LoopStep(l)
  PROVE  \A a \in Agents, k \in Loops : Runs(k, a)' => Runs(k, a)
<1>1. loop[l] \in Loop /\ Alive(l)
  BY DEF LoopStep, LoopAdvance, TryTick, SendTick, SleepOver, NoticeShutdown, LoopAt, Alive, TypeOK
<1>2. \A k \in Loops \ {l} : loop'[k] = loop[k]
  BY DEF LoopStep, LoopAdvance, TryTick, SendTick, SleepOver, NoticeShutdown, TypeOK
<1>3. loop'[l] = Ended \/ loop'[l].agent = loop[l].agent
  <2>1. CASE TryTick(l)
    BY <1>1, <2>1 DEF TryTick, TypeOK, Loop
  <2>2. CASE SendTick(l)
    BY <1>1, <2>2 DEF SendTick, TypeOK, Loop
  <2>3. CASE SleepOver(l)
    BY <1>1, <2>3 DEF SleepOver, TypeOK, Loop
  <2>4. CASE NoticeShutdown(l)
    BY <1>1, <2>4 DEF NoticeShutdown, TypeOK
  <2> QED
    BY <2>1, <2>2, <2>3, <2>4 DEF LoopStep, LoopAdvance
<1> QED
  BY <1>1, <1>2, <1>3 DEF Runs, Alive

(* A watcher clears a flag and leaves the loop to its agent.                *)
LEMMA WatchRuns ==
  ASSUME Inv, NEW t \in Turns, Watch(t)
  PROVE  \A a \in Agents, k \in Loops : Runs(k, a)' => Runs(k, a)
<1>1. PICK l \in Loops : l = turn[t].from
  BY DEF Inv, OnlyTicksReturn, Watch
<1>2. CASE ~Alive(l)
  BY <1>1, <1>2 DEF Watch, Runs, Alive
<1>3. CASE Alive(l)
  <2>1. loop[l] \in Loop
    BY <1>3 DEF Inv, TypeOK, Alive
  <2>2. loop' = [loop EXCEPT ![l].busy = FALSE]
    BY <1>1, <1>3 DEF Watch
  <2>3. loop'[l].agent = loop[l].agent /\ \A k \in Loops \ {l} : loop'[k] = loop[k]
    BY <2>1, <2>2 DEF Inv, TypeOK, Loop
  <2> QED
    BY <1>3, <2>3 DEF Runs, Alive
<1> QED
  BY <1>2, <1>3

(* Every step keeps the agents clean that it does not note a race of.       *)
LEMMA NextClean == Inv /\ CleanUnlessRaced /\ [Next]_vars => CleanUnlessRaced'
<1> SUFFICES ASSUME Inv, CleanUnlessRaced, [Next]_vars, NEW a \in Agents, a \notin raced'
             PROVE  Clean(a)'
  BY DEF CleanUnlessRaced
<1>0. TypeOK
  BY DEF Inv
<1>1. raced \subseteq raced'
  BY DEF Next, Manage, BootStart, KillAgent, BeginUpdate, BeginActivate, FinishRequest,
         FinishWithoutLoop, Shutdown, NoteRace, LoopStep, LoopAdvance, TryTick, SendTick,
         SleepOver, NoticeShutdown, ClientMessage, TurnStep, TurnAdvance, CallTimeout, TakeLock,
         EndTurn, ToolTimeout, Watch, AgentSend, AgentFanOut, vars
<1>2. Clean(a)
  BY <1>1 DEF CleanUnlessRaced
<1>3. CASE UNCHANGED <<registry, boot, tasks, request>> /\ \A k \in Loops : Runs(k, a)' => Runs(k, a)
  BY <1>2, <1>3, CleanKept
<1>4. CASE UNCHANGED <<registry, boot, tasks, request, loop>>
  BY <1>3, <1>4 DEF Runs, Alive
<1>5. ASSUME NEW b \in Agents, BootStart(b) PROVE Clean(a)'
  <2>1. CASE b = a
    <3>1. Starting(a) /\ StartAgent(a) /\ registry' = registry
      BY <1>5, <2>1 DEF BootStart, Starting
    <3>2. ~Starting(a)'
      BY <1>2, <1>5, <2>1 DEF BootStart, Starting, Clean, OneStart
    <3> QED
      BY <1>0, <1>2, <3>1, <3>2, StartCleans
  <2>2. CASE b # a
    BY <1>0, <1>2, <1>5, <2>2, StartRuns, CleanKept DEF BootStart
  <2> QED
    BY <2>1, <2>2
<1>6. ASSUME NEW r \in Requests, FinishRequest(r) PROVE Clean(a)'
  <2>1. PICK b \in Agents : request[r] # Idle /\ b = request[r].agent
    BY <1>0, <1>6 DEF FinishRequest, TypeOK, Request
  <2>2. request'[r] = Idle /\ \A p \in Requests \ {r} : request'[p] = request[p]
    BY <1>0, <1>6 DEF FinishRequest, TypeOK
  <2>3. CASE b = a
    <3>1. Starting(a) /\ StartAgent(a) /\ registry' = registry
      BY <1>6, <2>1, <2>3 DEF FinishRequest, Starting
    <3>2. ~Starting(a)'
      BY <1>2, <1>6, <2>1, <2>2, <2>3 DEF FinishRequest, Starting, Clean, OneStart
    <3> QED
      BY <1>0, <1>2, <3>1, <3>2, StartCleans
  <2>4. CASE b # a
    <3>1. \A p \in Requests : request'[p] # Idle /\ request'[p].agent = a =>
                              request[p] # Idle /\ request[p].agent = a
      BY <2>2
    <3>2. StartAgent(b) /\ UNCHANGED <<registry, boot>>
      BY <1>6, <2>1 DEF FinishRequest
    <3> QED
      BY <1>0, <1>2, <2>4, <3>1, <3>2, StartRuns, CleanKept
  <2> QED
    BY <2>3, <2>4
<1>7. ASSUME NEW r \in Requests, FinishWithoutLoop(r) PROVE Clean(a)'
  <2>1. request'[r] = Idle /\ \A p \in Requests \ {r} : request'[p] = request[p]
    BY <1>0, <1>7 DEF FinishWithoutLoop, TypeOK
  <2>2. \A p \in Requests : request'[p] # Idle /\ request'[p].agent = a =>
                            request[p] # Idle /\ request[p].agent = a
    BY <2>1
  <2>3. UNCHANGED <<registry, boot, tasks, loop>>
    BY <1>7 DEF FinishWithoutLoop
  <2>4. \A k \in Loops : Runs(k, a)' => Runs(k, a)
    BY <2>3 DEF Runs, Alive
  <2> QED
    BY <1>2, <2>2, <2>3, <2>4, CleanKept
<1>8. ASSUME NEW b \in Agents, KillAgent(b) PROVE Clean(a)'
  <2>1. StopAgent(b) /\ registry' = registry \ {b} /\ UNCHANGED <<boot, request>>
    BY <1>8 DEF KillAgent
  <2>2. CASE b = a
    <3>1. ~Starting(a)
      BY <1>8, <2>2 DEF KillAgent, NoteRace
    <3>2. ~Starting(a)' /\ OneStart(a)'
      BY <1>2, <2>1, <3>1 DEF Starting, Clean, OneStart
    <3> QED
      BY <1>0, <1>2, <2>1, <2>2, <3>2, StopCleans
  <2>3. CASE b # a
    BY <1>0, <1>2, <2>1, <2>3, StopRuns, CleanKept
  <2> QED
    BY <2>2, <2>3
<1>9. ASSUME NEW r \in Requests, NEW b \in Agents, BeginUpdate(r, b) \/ BeginActivate(r, b)
      PROVE  Clean(a)'
  <2>1. PICK check \in BOOLEAN : request' = [request EXCEPT ![r] = [agent |-> b, check |-> check]]
    BY <1>9 DEF BeginUpdate, BeginActivate
  <2>2. /\ registry' = registry \cup {b} /\ boot' = boot /\ NoteRace(b)
        /\ IF b \in registry THEN StopAgent(b) ELSE UNCHANGED <<loop, tasks>>
    BY <1>9 DEF BeginUpdate, BeginActivate
  <2>3. request'[r].agent = b /\ \A p \in Requests \ {r} : request'[p] = request[p]
    BY <1>0, <2>1 DEF TypeOK
  <2>4. CASE b = a
    <3>1. ~Starting(a)
      BY <2>2, <2>4 DEF NoteRace
    <3>2. OneStart(a)'
      BY <1>0, <2>1, <2>2, <3>1, BeginOneStart
    <3>3. CASE a \in registry
      BY <1>0, <1>2, <2>2, <2>4, <3>2, <3>3, StopCleans
    <3>4. CASE a \notin registry
      <4>1. \A k \in Loops : ~Runs(k, a)'
        BY <1>2, <2>2, <2>4, <3>4 DEF Clean, Runs, Alive
      <4> QED
        BY <2>2, <2>4, <3>2, <4>1 DEF Clean
    <3> QED
      BY <3>3, <3>4
  <2>5. CASE b # a
    <3>1. \A p \in Requests : request'[p] # Idle /\ request'[p].agent = a =>
                              request[p] # Idle /\ request[p].agent = a
      BY <2>3, <2>5
    <3>2. tasks'[a] = tasks[a] /\ \A k \in Loops : Runs(k, a)' => Runs(k, a)
      <4>1. CASE b \in registry
        BY <1>0, <2>2, <2>5, <4>1, StopRuns
      <4>2. CASE b \notin registry
        BY <2>2, <4>2 DEF Runs, Alive
      <4> QED
        BY <4>1, <4>2
    <3> QED
      BY <1>2, <2>2, <2>5, <3>1, <3>2, CleanKept
  <2> QED
    BY <2>4, <2>5
<1>10. CASE Manage
  <2>1. CASE Shutdown
    BY <1>4, <2>1 DEF Shutdown
  <2> QED
    BY <1>5, <1>6, <1>7, <1>8, <1>9, <1>10, <2>1 DEF Manage
<1>11. ASSUME NEW l \in Loops, LoopStep(l) PROVE Clean(a)'
  <2>1. UNCHANGED <<registry, boot, tasks, request>>
    BY <1>11 DEF LoopStep, LoopAdvance, TryTick, SendTick, SleepOver, NoticeShutdown
  <2> QED
    BY <1>0, <1>3, <1>11, <2>1, LoopStepRuns
<1>12. ASSUME NEW t \in Turns, TurnStep(t) PROVE Clean(a)'
  <2>1. CASE Watch(t)
    BY <1>3, <2>1, WatchRuns DEF Watch
  <2> QED
    BY <1>4, <1>12, <2>1 DEF TurnStep, TurnAdvance, TakeLock, EndTurn, ToolTimeout, CallTimeout,
                             AgentSend, AgentFanOut
<1> QED
  BY <1>4, <1>10, <1>11, <1>12 DEF Next, ClientMessage, vars

(* A loop that stop_agent cannot reach is the loop of an agent on which an  *)
(* operation was begun while a start of it was still to come: updates,      *)
(* activations, kills and the boot that do not overlap leave none, for any  *)
(* number of agents, loops and requests (start_agent, stop_agent,           *)
(* activate_hand).                                                          *)
THEOREM OrphansNeedARaceHolds == Spec => []OrphansNeedARace
<1>1. Init => CleanUnlessRaced
  <2> SUFFICES ASSUME Init, NEW a \in Agents PROVE Clean(a)
    BY DEF CleanUnlessRaced
  <2>1. \A l \in Loops : ~Runs(l, a)
    BY DEF Init, Runs, Alive
  <2>2. OneStart(a) /\ a \in registry
    BY DEF Init, OneStart
  <2> QED
    BY <2>1, <2>2 DEF Clean
<1>2. Inv /\ CleanUnlessRaced /\ [Next]_vars => CleanUnlessRaced'
  BY NextClean
<1>3. Inv /\ CleanUnlessRaced => OrphansNeedARace
  BY CleanGivesNoOrphans DEF Inv
<1> QED
  BY <1>1, <1>2, <1>3, Invariant, PTL DEF Spec
=============================================================================

--------------------------- MODULE HeartbeatProofs ---------------------------
(***************************************************************************)
(* Proofs about the heartbeat monitor, for any number of agents and turns  *)
(* and any limits, and of what becomes of its count of recoveries when no  *)
(* limit is shorter than the time between two checks.                      *)
(***************************************************************************)
EXTENDS Heartbeat, TLAPS

(* No limit is shorter than the time between two checks.  The defaults are  *)
(* longer; the configuration may set shorter ones.                          *)
LimitsAtLeastOneCheck == (\A k \in Kinds : PhaseLimit[k] >= 1) /\ IdleLimit >= 1

(* The agents that the count of recoveries does not work for.  An agent of  *)
(* a hand, spawned again with the failures of its earlier life, is not one. *)
Plain(a) ==
  /\ LimitsAtLeastOneCheck
  /\ manifest[a] = [reactive |-> FALSE, quiet |-> FALSE, hand |-> FALSE]

Young(a, n) == phases[a] # NoPhase => phases[a].age <= n

(* Statuses exist only while the monitor handles them.                      *)
StatusWhenHandling == \A a \in Agents : status[a] # "none" => mon = "handle"

(* A status that survives a second look is about an agent out of attempts;  *)
(* an agent that was given up has no status left to handle.                 *)
GivenUp ==
  \A a \in Agents :
    /\ status[a] = "giving_up" => tracker[a].fails >= MaxAttempts
    /\ state[a] = "Terminated" => status[a] = "none"

(* The ages at which the next check will see a recovered agent: the stamp   *)
(* of the recovery is younger than one check.                               *)
SeenAt(a) == IF mon \in {"retain", "list"} \/ status[a] = "ok" THEN 1 ELSE 0

Recovered(a) ==
  /\ life[a] = "used"
  /\ idle[a] <= SeenAt(a)
  /\ Young(a, SeenAt(a))

(* A plain agent that has a failure on record was recovered since the last  *)
(* time the monitor looked, and is therefore found responsive.  The phases  *)
(* of a crashed agent were dropped at the start of the check.               *)
PlainAgent(a) ==
  /\ tracker[a].fails \in {0, 1}
  /\ state[a] # "Terminated"
  /\ status[a] # "giving_up"
  /\ status[a] \in {"unresponsive", "crashed"} \/ state[a] = "Crashed" => tracker[a].fails = 0
  /\ (mon = "list" /\ state[a] = "Crashed") \/ status[a] = "crashed" => Young(a, 0)
  /\ life[a] = "grace" => mon = "sleep"
  /\ tracker[a].fails = 1 /\ state[a] = "Running" => Recovered(a)

PlainAgents == \A a \in Agents : Plain(a) => PlainAgent(a)

IInv == TypeOK /\ StatusWhenHandling /\ GivenUp /\ NotGivenUpEarly /\ PlainAgents
-----------------------------------------------------------------------------
(* The initial states satisfy the inductive invariant.                      *)
LEMMA InitIInv == Init => IInv
  BY ConstantsAssumption
  DEF Init, IInv, TypeOK, StatusWhenHandling, GivenUp, NotGivenUpEarly, PlainAgents, PlainAgent,
      NoFailures, Ages, Lives, States, Verdicts, Young

(* Touch only makes stamps younger, and never takes back a use.             *)
LEMMA TouchEffect ==
  ASSUME TypeOK, NEW a \in Agents, Touch(a)
  PROVE  /\ idle' \in [Agents -> Ages] /\ life' \in [Agents -> Lives]
         /\ \A b \in Agents : idle'[b] <= idle[b]
         /\ \A b \in Agents : life'[b] = life[b] \/ life'[b] = "used"
         /\ \A b \in Agents \ {a} : idle'[b] = idle[b] /\ life'[b] = life[b]
         /\ state[a] # "Absent" => idle'[a] = 0
         /\ state[a] # "Absent" /\ life[a] # "grace" => life'[a] = "used"
  <1>1. CASE state[a] = "Absent"
    BY <1>1 DEF Touch, TypeOK, Ages
  <1>2. CASE state[a] # "Absent"
    <2>1. idle' = [idle EXCEPT ![a] = 0]
      BY <1>2 DEF Touch
    <2>2. PICK l \in (IF life[a] = "grace" THEN {"grace", "used"} ELSE {"used"}) :
            life' = [life EXCEPT ![a] = l]
      BY <1>2 DEF Touch
    <2>3. 0 \in Ages
      BY ConstantsAssumption DEF Ages
    <2>4. /\ idle' \in [Agents -> Ages]
          /\ \A b \in Agents : idle'[b] = IF b = a THEN 0 ELSE idle[b]
      BY <2>1, <2>3 DEF TypeOK
    <2>5. /\ life' \in [Agents -> Lives]
          /\ \A b \in Agents : life'[b] = IF b = a THEN l ELSE life[b]
      BY <2>2 DEF TypeOK, Lives
    <2>6. \A b \in Agents : idle[b] \in Ages /\ 0 <= idle[b]
      BY DEF TypeOK, Ages
    <2>7. \A b \in Agents : idle'[b] <= idle[b]
      BY <2>4, <2>6 DEF Ages
    <2> QED
      BY <1>2, <2>2, <2>4, <2>5, <2>7
  <1> QED
    BY <1>1, <1>2

(* RecordPhase leaves a phase as it was or starts a new one now.            *)
LEMMA RecordPhaseEffect ==
  ASSUME TypeOK, NEW a \in Agents, NEW kind \in Kinds, RecordPhase(a, kind)
  PROVE  /\ phases' \in [Agents -> Phase \cup {NoPhase}]
         /\ \A b \in Agents : phases'[b] = phases[b] \/ phases'[b].age = 0
  BY ConstantsAssumption DEF RecordPhase, TypeOK, Phase, Ages

(* What turns, API calls and delegations do: stamps and phases get younger, *)
(* agents are set Running or removed, the monitor's own state is theirs to  *)
(* leave alone.                                                             *)
Outside ==
  /\ manifest' = manifest
  /\ mon' = mon
  /\ status' = status
  /\ tracker' = tracker
  /\ \A b \in Agents :
       /\ state'[b] \in {state[b], "Running", "Absent"}
       /\ Plain(b) => /\ state[b] = "Absent" => state'[b] = "Absent"
                      /\ idle'[b] <= idle[b]
                      /\ life'[b] = life[b] \/ life'[b] = "used"
       /\ phases'[b] = phases[b] \/ phases'[b] = NoPhase \/ phases'[b].age = 0

(* No such step disturbs the invariant.                                     *)
LEMMA OutsideKeeps ==
  ASSUME IInv, TypeOK', Outside
  PROVE  IInv'
  <1>1. StatusWhenHandling' /\ GivenUp' /\ NotGivenUpEarly'
    BY DEF IInv, Outside, StatusWhenHandling, GivenUp, NotGivenUpEarly
  <1>2. ASSUME NEW b \in Agents, Plain(b)'
        PROVE  PlainAgent(b)'
    <2>1. Plain(b) /\ PlainAgent(b)
      BY <1>2 DEF Plain, Outside, IInv, PlainAgents
    <2>2. \A n \in {0, 1} : Young(b, n) => Young(b, n)'
      BY DEF Young, Outside
    <2>3. SeenAt(b)' = SeenAt(b) /\ SeenAt(b) \in {0, 1}
      BY DEF SeenAt, Outside
    <2>4. idle[b] \in Int /\ idle'[b] \in Int /\ idle'[b] <= idle[b]
      BY <2>1 DEF IInv, TypeOK, Ages, Outside
    <2>5. tracker[b].fails = 1 /\ state'[b] = "Running" => Recovered(b)'
      BY <2>1, <2>2, <2>3, <2>4 DEF PlainAgent, Recovered, Outside, IInv, TypeOK, States
    <2>6. (mon = "list" /\ state'[b] = "Crashed") \/ status[b] = "crashed" => Young(b, 0)'
      BY <2>1, <2>2 DEF PlainAgent, Outside
    <2> QED
      BY <2>1, <2>5, <2>6 DEF PlainAgent, Outside
  <1> QED
    BY <1>1, <1>2 DEF IInv, PlainAgents
-----------------------------------------------------------------------------
(* The commands of clients are such steps.                                  *)
LEMMA CommandKeeps ==
  ASSUME IInv, NEW a \in Agents, Command(a)
  PROVE  IInv'
  <1>1. CASE SpawnAgent(a)
    <2>1. TypeOK'
      BY <1>1, ConstantsAssumption DEF IInv, TypeOK, SpawnAgent, States, Ages, Lives
    <2>2. ~Plain(a)
      BY <1>1 DEF SpawnAgent, Plain
    <2>3. Outside
      BY <1>1, <2>2 DEF Outside, SpawnAgent, IInv, TypeOK, Ages
    <2> QED
      BY <2>1, <2>3, OutsideKeeps
  <1>2. CASE KillAgent(a)
    <2>1. TypeOK'
      BY <1>2 DEF IInv, TypeOK, KillAgent, States
    <2>2. Outside
      BY <1>2 DEF Outside, KillAgent, IInv, TypeOK, Ages
    <2> QED
      BY <2>1, <2>2, OutsideKeeps
  <1>3. CASE Delegate(a) \/ Restart(a)
    <2>1. /\ state[a] # "Absent" /\ SetState(a, "Running")
          /\ UNCHANGED <<manifest, phases, mon, status, tracker>>
          /\ turn' \in [Turns -> Turn \cup {Idle}]
      BY <1>3 DEF Delegate, Restart, IInv, TypeOK
    <2>2. Touch(a) /\ state' = [state EXCEPT ![a] = "Running"]
      BY <2>1 DEF SetState
    <2>3. TypeOK'
      BY <2>1, <2>2, TouchEffect DEF IInv, TypeOK, States
    <2>4. Outside
      BY <2>1, <2>2, TouchEffect DEF Outside, IInv, TypeOK
    <2> QED
      BY <2>3, <2>4, OutsideKeeps
  <1> QED
    BY <1>1, <1>2, <1>3 DEF Command

(* So are the steps of turns.                                               *)
LEMMA TurnKeeps ==
  ASSUME IInv, NEW t \in Turns, TurnStep(t)
  PROVE  IInv'
  <1>0. TypeOK
    BY DEF IInv
  <1>1. CASE \E a \in Agents : StartTurn(t, a)
    <2>1. TypeOK'
      BY <1>0, <1>1 DEF TypeOK, StartTurn, Turn
    <2>2. Outside
      BY <1>0, <1>1 DEF Outside, StartTurn, TypeOK, Ages
    <2> QED
      BY <2>1, <2>2, OutsideKeeps
  <1>2. CASE Iterate(t)
    <2>1. PICK a \in Agents : turn[t].agent = a
      BY <1>0, <1>2 DEF Iterate, TypeOK, Turn
    <2>2. PICK k \in Kinds : RecordPhase(a, k)
      BY <1>2, <2>1 DEF Iterate, Kinds
    <2>3. Touch(a)
      BY <1>2, <2>1 DEF Iterate
    <2>4. turn' \in [Turns -> Turn \cup {Idle}]
      BY <1>0, <1>2 DEF Iterate, TypeOK, Turn
    <2>5. TypeOK'
      BY <1>0, <1>2, <2>2, <2>3, <2>4, TouchEffect, RecordPhaseEffect DEF Iterate, TypeOK
    <2>6. Outside
      BY <1>0, <1>2, <2>2, <2>3, TouchEffect, RecordPhaseEffect DEF Iterate, Outside
    <2> QED
      BY <2>5, <2>6, OutsideKeeps
  <1>3. CASE UseTool(t)
    <2>1. turn[t].agent \in Agents
      BY <1>0, <1>3 DEF UseTool, TypeOK, Turn
    <2>2. "tool_use" \in Kinds /\ RecordPhase(turn[t].agent, "tool_use")
      BY <1>3 DEF UseTool, Kinds
    <2>3. TypeOK'
      BY <1>0, <1>3, <2>1, <2>2, RecordPhaseEffect DEF UseTool, TypeOK, Turn
    <2>4. Outside
      BY <1>0, <1>3, <2>1, <2>2, RecordPhaseEffect DEF UseTool, Outside, TypeOK, Ages
    <2> QED
      BY <2>3, <2>4, OutsideKeeps
  <1>4. CASE \E done \in BOOLEAN : ReturnResult(t, done)
    <2>1. TypeOK'
      BY <1>0, <1>4 DEF ReturnResult, TypeOK, Turn
    <2>2. Outside
      BY <1>0, <1>4 DEF ReturnResult, Outside, TypeOK, Ages
    <2> QED
      BY <2>1, <2>2, OutsideKeeps
  <1>5. CASE FinishTurn(t)
    <2>1. PICK a \in Agents : turn[t].agent = a
      BY <1>0, <1>5 DEF FinishTurn, TypeOK, Turn
    <2>2. /\ Touch(a)
          /\ state' = IF state[a] = "Absent" THEN state ELSE [state EXCEPT ![a] = "Running"]
      BY <1>5, <2>1 DEF FinishTurn, SetState
    <2>3. TypeOK'
      BY <1>0, <1>5, <2>2, TouchEffect DEF FinishTurn, TypeOK, States
    <2>4. Outside
      BY <1>0, <1>5, <2>2, TouchEffect DEF FinishTurn, Outside, TypeOK
    <2> QED
      BY <2>3, <2>4, OutsideKeeps
  <1>6. CASE FailTurn(t)
    <2>1. PICK a \in Agents : turn[t].agent = a
      BY <1>0, <1>6 DEF FailTurn, TypeOK, Turn
    <2>2. Touch(a)
      BY <1>6, <2>1 DEF FailTurn
    <2>3. TypeOK'
      BY <1>0, <1>6, <2>2, TouchEffect DEF FailTurn, TypeOK
    <2>4. Outside
      BY <1>0, <1>6, <2>2, TouchEffect DEF FailTurn, Outside
    <2> QED
      BY <2>3, <2>4, OutsideKeeps
  <1> QED
    BY <1>1, <1>2, <1>3, <1>4, <1>5, <1>6 DEF TurnStep
-----------------------------------------------------------------------------
(* Time passes: what was stamped at the recovery is one check old.          *)
LEMMA ElapseKeeps ==
  ASSUME IInv, Elapse
  PROVE  IInv'
  <1>1. \A n \in Ages : Older(n) \in Ages /\ Older(n) <= n + 1
    BY ConstantsAssumption DEF Ages, Older
  <1>2. TypeOK'
    <2>1. phases' \in [Agents -> Phase \cup {NoPhase}]
      BY <1>1 DEF IInv, TypeOK, Elapse, Phase
    <2>2. tracker' \in [Agents -> [fails : Nat, age : Ages]]
      BY <1>1 DEF IInv, TypeOK, Elapse
    <2> QED
      BY <1>1, <2>1, <2>2 DEF IInv, TypeOK, Elapse, Lives
  <1>3. \A b \in Agents : tracker'[b].fails = tracker[b].fails
    BY DEF IInv, TypeOK, Elapse
  <1>4. \A b \in Agents : status[b] = "none"
    BY DEF IInv, Elapse, StatusWhenHandling
  <1>5. StatusWhenHandling' /\ GivenUp' /\ NotGivenUpEarly'
    BY <1>3, <1>4 DEF IInv, Elapse, StatusWhenHandling, GivenUp, NotGivenUpEarly
  <1>6. ASSUME NEW b \in Agents, Plain(b)'
        PROVE  PlainAgent(b)'
    <2>1. Plain(b) /\ PlainAgent(b)
      BY <1>6 DEF Plain, Elapse, IInv, PlainAgents
    <2>2. Young(b, 0) => Young(b, 1)'
      BY <1>1 DEF Young, Elapse, IInv, TypeOK, Phase, Ages
    <2>3. idle'[b] <= idle[b] + 1 /\ idle[b] \in Int /\ idle'[b] \in Int
      BY <1>1 DEF Elapse, IInv, TypeOK, Ages
    <2>4. SeenAt(b) = 0 /\ SeenAt(b)' = 1
      BY <1>4 DEF SeenAt, Elapse
    <2>5. Recovered(b) => Recovered(b)'
      BY <2>2, <2>3, <2>4 DEF Recovered, Elapse
    <2>6. life'[b] # "grace"
      BY DEF Elapse
    <2> QED
      BY <1>3, <1>4, <2>1, <2>5, <2>6 DEF PlainAgent, Elapse
  <1> QED
    BY <1>2, <1>5, <1>6 DEF IInv, PlainAgents

(* The phases of agents that are not Running are dropped.                   *)
LEMMA RetainKeeps ==
  ASSUME IInv, RetainPhases
  PROVE  IInv'
  <1>1. TypeOK'
    BY DEF IInv, TypeOK, RetainPhases
  <1>2. StatusWhenHandling' /\ GivenUp' /\ NotGivenUpEarly'
    BY DEF IInv, RetainPhases, StatusWhenHandling, GivenUp, NotGivenUpEarly
  <1>3. ASSUME NEW b \in Agents, Plain(b)'
        PROVE  PlainAgent(b)'
    <2>1. Plain(b) /\ PlainAgent(b) /\ status[b] = "none"
      BY <1>3 DEF Plain, RetainPhases, IInv, PlainAgents, StatusWhenHandling
    <2>2. phases'[b] = phases[b] \/ phases'[b] = NoPhase
      BY DEF RetainPhases
    <2>3. state[b] = "Crashed" => Young(b, 0)'
      BY DEF RetainPhases, Young
    <2>4. SeenAt(b)' = SeenAt(b)
      BY DEF SeenAt, RetainPhases
    <2>5. Recovered(b) => Recovered(b)'
      BY <2>2, <2>4 DEF Recovered, Young, RetainPhases
    <2> QED
      BY <2>1, <2>3, <2>5 DEF PlainAgent, RetainPhases
  <1> QED
    BY <1>1, <1>2, <1>3 DEF IInv, PlainAgents

(* A recovered agent is found responsive: neither its phase nor its last    *)
(* stamp is older than one check.                                           *)
LEMMA ListKeeps ==
  ASSUME IInv, ListAgents
  PROVE  IInv'
  <1>1. \A b \in Agents : /\ status'[b] = CheckAgent(b)
                          /\ CheckAgent(b) \in Verdicts \ {"giving_up"}
    BY DEF ListAgents, CheckAgent, Verdicts, IInv, TypeOK, States
  <1>2. TypeOK'
    BY <1>1 DEF IInv, TypeOK, ListAgents
  <1>3. \A b \in Agents : /\ CheckAgent(b) = "crashed" => state[b] = "Crashed"
                          /\ state[b] = "Terminated" => CheckAgent(b) = "none"
    BY DEF CheckAgent
  <1>4. StatusWhenHandling' /\ GivenUp' /\ NotGivenUpEarly'
    BY <1>1, <1>3 DEF IInv, ListAgents, StatusWhenHandling, GivenUp, NotGivenUpEarly, Verdicts
  <1>5. ASSUME NEW b \in Agents, Plain(b)'
        PROVE  PlainAgent(b)'
    <2>1. Plain(b) /\ PlainAgent(b)
      BY <1>5 DEF Plain, ListAgents, IInv, PlainAgents
    <2>2. ASSUME tracker[b].fails = 1, state[b] = "Running"
          PROVE  CheckAgent(b) = "ok" /\ Recovered(b)'
      <3>1. life[b] = "used" /\ idle[b] <= 1 /\ Young(b, 1)
        BY <2>1, <2>2 DEF PlainAgent, Recovered, SeenAt, ListAgents
      <3>2. ~Stalled(b)
        BY <3>1, <2>1, ConstantsAssumption
           DEF Stalled, Young, Plain, LimitsAtLeastOneCheck, IInv, TypeOK, Phase, Ages
      <3>3. ~NotJudged(b) /\ ~IdleTooLong(b)
        BY <3>1, <2>1, ConstantsAssumption
           DEF NotJudged, IdleTooLong, Plain, LimitsAtLeastOneCheck, IInv, TypeOK, Ages
      <3>4. CheckAgent(b) = "ok"
        BY <2>2, <3>2, <3>3 DEF CheckAgent
      <3>5. SeenAt(b)' = 1
        BY <3>4, <1>1 DEF SeenAt
      <3> QED
        BY <3>1, <3>4, <3>5 DEF Recovered, Young, ListAgents
    <2>3. CheckAgent(b) \in {"unresponsive", "crashed"} => tracker[b].fails = 0
      <3>1. CheckAgent(b) \in {"unresponsive", "crashed"} => state[b] \in {"Running", "Crashed"}
        BY DEF CheckAgent
      <3> QED
        BY <3>1, <2>1, <2>2 DEF PlainAgent
    <2>4. CheckAgent(b) = "crashed" => Young(b, 0)'
      BY <1>3, <2>1 DEF PlainAgent, ListAgents, Young
    <2> QED
      BY <1>1, <2>1, <2>2, <2>3, <2>4 DEF PlainAgent, ListAgents, Verdicts
  <1> QED
    BY <1>2, <1>4, <1>5 DEF IInv, PlainAgents

(* At the end of a check nothing is left to handle.                         *)
LEMMA DoneKeeps ==
  ASSUME IInv, CheckDone
  PROVE  IInv'
  <1>1. TypeOK' /\ StatusWhenHandling' /\ GivenUp' /\ NotGivenUpEarly'
    BY DEF IInv, TypeOK, CheckDone, StatusWhenHandling, GivenUp, NotGivenUpEarly
  <1>2. ASSUME NEW b \in Agents, Plain(b)'
        PROVE  PlainAgent(b)'
    <2>1. Plain(b) /\ PlainAgent(b) /\ status[b] = "none"
      BY <1>2 DEF Plain, CheckDone, IInv, PlainAgents
    <2>2. SeenAt(b)' = SeenAt(b)
      BY <2>1 DEF SeenAt, CheckDone
    <2>3. Recovered(b) => Recovered(b)'
      BY <2>2 DEF Recovered, Young, CheckDone
    <2> QED
      BY <2>1, <2>3 DEF PlainAgent, CheckDone
  <1> QED
    BY <1>1, <1>2 DEF IInv, PlainAgents
-----------------------------------------------------------------------------
(* Handling one status concerns one agent only.                             *)
LEMMA OthersKept ==
  ASSUME IInv, NEW a \in Agents, NEW b \in Agents \ {a},
         manifest' = manifest, phases' = phases, mon' = mon,
         state'[b] = state[b], idle'[b] = idle[b], life'[b] = life[b],
         status'[b] = status[b], tracker'[b] = tracker[b],
         Plain(b)'
  PROVE  PlainAgent(b)'
  <1>1. PlainAgent(b)
    BY DEF IInv, PlainAgents, Plain
  <1> QED
    BY <1>1 DEF PlainAgent, Recovered, Young, SeenAt

(* A status is handled without a look at the agent: the reset after a       *)
(* responsive check, quiet hours, the cooldown, and giving up, which looks. *)
LEMMA VerdictKeeps ==
  ASSUME IInv, NEW a \in Agents,
         Responsive(a) \/ SkipQuietHours(a) \/ WaitForCooldown(a) \/ GiveUp(a)
  PROVE  IInv'
  <1>0. /\ UNCHANGED <<manifest, state, idle, life, phases, turn, mon>>
        /\ mon = "handle"
        /\ \E v \in {"none", "giving_up"} : status' = [status EXCEPT ![a] = v]
        /\ tracker' = tracker \/ (status[a] = "ok" /\ tracker' = [tracker EXCEPT ![a] = NoFailures])
    BY DEF Responsive, SkipQuietHours, WaitForCooldown, GiveUp, Handled, IInv, StatusWhenHandling
  <1>1. TypeOK'
    BY <1>0, ConstantsAssumption DEF IInv, TypeOK, Verdicts, NoFailures, Ages
  <1>2. StatusWhenHandling'
    BY <1>0 DEF StatusWhenHandling
  <1>3. \A b \in Agents \ {a} : tracker'[b] = tracker[b] /\ status'[b] = status[b]
    BY <1>0 DEF IInv, TypeOK
  <1>4. GivenUp' /\ NotGivenUpEarly'
    <2>1. status'[a] = "giving_up" => tracker'[a].fails >= MaxAttempts /\ state'[a] # "Terminated"
      BY DEF IInv, TypeOK, Responsive, SkipQuietHours, WaitForCooldown, GiveUp, Handled, Exhausted
    <2>2. status'[a] \in {"none", "giving_up"}
      BY <1>0 DEF IInv, TypeOK
    <2>3. state[a] = "Terminated" => tracker'[a] = tracker[a]
      BY <1>0 DEF IInv, GivenUp
    <2>4. tracker'[a].fails <= MaxAttempts
      BY <1>0, ConstantsAssumption DEF IInv, TypeOK, NotGivenUpEarly, NoFailures
    <2> QED
      BY <1>0, <1>3, <2>1, <2>2, <2>3, <2>4 DEF IInv, GivenUp, NotGivenUpEarly
  <1>5. ASSUME Plain(a)
        PROVE  PlainAgent(a)'
    <2>1. PlainAgent(a)
      BY <1>5 DEF IInv, PlainAgents
    <2>2. ~GiveUp(a) /\ ~SkipQuietHours(a)
      BY <2>1, <1>5, ConstantsAssumption DEF PlainAgent, GiveUp, Exhausted, SkipQuietHours, Plain
    <2>3. status'[a] = "none"
      BY <2>2 DEF Responsive, WaitForCooldown, Handled, IInv, TypeOK
    <2>4. tracker'[a].fails = 0
      BY <2>1, <2>2 DEF PlainAgent, Responsive, WaitForCooldown, NoFailures, IInv, TypeOK
    <2> QED
      BY <1>0, <2>1, <2>3, <2>4 DEF PlainAgent
  <1>6. PlainAgents'
    BY <1>0, <1>3, <1>5, OthersKept DEF PlainAgents, Plain
  <1> QED
    BY <1>1, <1>2, <1>4, <1>6 DEF IInv

(* An unresponsive agent is marked Crashed, one that is out of attempts     *)
(* Terminated, a crashed one is recovered.                                  *)
LEMMA SetStateKeeps ==
  ASSUME IInv, NEW a \in Agents, MarkCrashed(a) \/ MarkTerminated(a) \/ Recover(a)
  PROVE  IInv'
  <1>0. /\ UNCHANGED <<manifest, phases, turn, mon>>
        /\ mon = "handle"
        /\ status' = [status EXCEPT ![a] = "none"]
        /\ Touch(a)
    BY DEF MarkCrashed, MarkTerminated, Recover, SetState, Handled, IInv, StatusWhenHandling
  <1>1. PICK s \in {"Crashed", "Terminated", "Running"} :
          /\ state' = IF state[a] = "Absent" THEN state ELSE [state EXCEPT ![a] = s]
          /\ s = "Crashed" => MarkCrashed(a)
          /\ s = "Terminated" => MarkTerminated(a)
          /\ s = "Running" => Recover(a)
    BY DEF MarkCrashed, MarkTerminated, Recover, SetState
  <1>2. \/ tracker' = tracker /\ ~Recover(a)
        \/ Recover(a) /\ tracker' = [tracker EXCEPT ![a] = [fails |-> @.fails + 1, age |-> 0]]
    BY DEF MarkCrashed, MarkTerminated, Recover
  <1>3. TypeOK'
    <2>1. tracker' \in [Agents -> [fails : Nat, age : Ages]]
      BY <1>2, ConstantsAssumption DEF IInv, TypeOK, Ages
    <2> QED
      BY <1>0, <1>1, <2>1, TouchEffect DEF IInv, TypeOK, States, Verdicts
  <1>4. StatusWhenHandling'
    BY <1>0 DEF StatusWhenHandling
  <1>5. \A b \in Agents \ {a} : /\ tracker'[b] = tracker[b] /\ status'[b] = status[b]
                                /\ state'[b] = state[b]
    BY <1>0, <1>1, <1>2 DEF IInv, TypeOK
  <1>6. status'[a] = "none" /\ tracker[a].fails \in Nat /\ MaxAttempts \in Nat
    BY <1>0, ConstantsAssumption DEF IInv, TypeOK
  <1>7. tracker'[a].fails \in {tracker[a].fails, tracker[a].fails + 1}
    BY <1>2 DEF IInv, TypeOK
  <1>8. GivenUp' /\ NotGivenUpEarly'
    <2>1. state'[a] = "Terminated" => tracker[a].fails >= MaxAttempts
      BY <1>1 DEF MarkTerminated, IInv, GivenUp, NotGivenUpEarly, TypeOK
    <2>2. Recover(a) => tracker[a].fails < MaxAttempts
      BY <1>6 DEF Recover, Exhausted
    <2>3. tracker[a].fails <= MaxAttempts
      BY DEF IInv, NotGivenUpEarly
    <2>4. tracker'[a].fails <= MaxAttempts
      BY <1>2, <1>6, <1>7, <2>2, <2>3
    <2>5. state'[a] = "Terminated" => tracker'[a].fails = MaxAttempts
      BY <1>6, <1>7, <2>1, <2>4
    <2> QED
      BY <1>5, <1>6, <2>4, <2>5 DEF IInv, GivenUp, NotGivenUpEarly
  <1>9. ASSUME Plain(a)
        PROVE  PlainAgent(a)'
    <2>1. PlainAgent(a)
      BY <1>9 DEF IInv, PlainAgents
    <2>2. ~MarkTerminated(a) /\ tracker[a].fails = 0 /\ life[a] # "grace"
      BY <1>0, <2>1 DEF PlainAgent, MarkTerminated, MarkCrashed, Recover
    <2>3. state'[a] # "Terminated" /\ life'[a] # "grace"
      BY <1>0, <1>1, <2>1, <2>2, TouchEffect DEF PlainAgent, IInv, TypeOK
    <2>4. tracker'[a].fails \in {0, 1} /\ (tracker'[a].fails = 1 => Recover(a))
      BY <1>2, <1>7, <2>2
    <2>5. state'[a] = "Crashed" => tracker'[a].fails = 0
      BY <1>1, <1>2, <2>1, <2>2 DEF MarkCrashed, Recover, PlainAgent, IInv, TypeOK, SetState
    <2>6. ASSUME tracker'[a].fails = 1, state'[a] = "Running"
          PROVE  Recovered(a)'
      <3>1. status[a] = "crashed" /\ Young(a, 0)
        BY <2>1, <2>4, <2>6 DEF Recover, PlainAgent
      <3>2. state[a] # "Absent"
        BY <1>1, <2>6 DEF IInv, TypeOK
      <3>3. life'[a] = "used" /\ idle'[a] = 0
        BY <1>0, <2>2, <3>2, TouchEffect DEF IInv
      <3>4. SeenAt(a)' = 0 /\ Young(a, 0)'
        BY <1>0, <1>6, <3>1 DEF SeenAt, Young
      <3> QED
        BY <3>3, <3>4 DEF Recovered
    <2> QED
      BY <1>0, <1>6, <2>3, <2>4, <2>5, <2>6 DEF PlainAgent
  <1>10. \A b \in Agents \ {a} : idle'[b] = idle[b] /\ life'[b] = life[b]
    BY <1>0, TouchEffect DEF IInv
  <1>11. PlainAgents'
    BY <1>0, <1>5, <1>9, <1>10, OthersKept DEF PlainAgents, Plain
  <1> QED
    BY <1>3, <1>4, <1>8, <1>11 DEF IInv

(* Every step keeps the inductive invariant.                                *)
LEMMA NextKeeps == IInv /\ [Next]_vars => IInv'
  <1> SUFFICES ASSUME IInv, [Next]_vars
               PROVE  IInv'
    OBVIOUS
  <1>1. CASE Check
    BY <1>1, ElapseKeeps, RetainKeeps, ListKeeps, DoneKeeps DEF Check
  <1>2. CASE \E a \in Agents : Handle(a) \/ SkipQuietHours(a)
    BY <1>2, VerdictKeeps, SetStateKeeps DEF Handle
  <1>3. CASE \E a \in Agents : Command(a)
    BY <1>3, CommandKeeps
  <1>4. CASE \E t \in Turns : TurnStep(t)
    BY <1>4, TurnKeeps
  <1>5. CASE UNCHANGED vars
    BY <1>5 DEF vars, IInv, TypeOK, StatusWhenHandling, GivenUp, NotGivenUpEarly, PlainAgents,
                Plain, PlainAgent, Recovered, Young, SeenAt
  <1> QED
    BY <1>1, <1>2, <1>3, <1>4, <1>5 DEF Next

(* The inductive invariant holds in every reachable state.                  *)
LEMMA Invariant == Spec => []IInv
  BY InitIInv, NextKeeps, PTL DEF Spec

-----------------------------------------------------------------------------
(* Type correctness of the monitor, the registry and the turns.             *)
THEOREM TypeCorrect == Spec => []TypeOK
  <1>1. IInv => TypeOK
    BY DEF IInv
  <1> QED
    BY <1>1, Invariant, PTL

(* No stale status and no late turn makes the monitor give up an agent that *)
(* still has recovery attempts (start_heartbeat_monitor, exhausted branch). *)
THEOREM NotGivenUpEarlyHolds == Spec => []NotGivenUpEarly
  <1>1. IInv => NotGivenUpEarly
    BY DEF IInv
  <1> QED
    BY <1>1, Invariant, PTL

(* A scheduled agent without quiet hours has at most one failure on record  *)
(* and is not Terminated.                                                   *)
NeverExhausted ==
  \A a \in Agents :
    manifest[a] = [reactive |-> FALSE, quiet |-> FALSE, hand |-> FALSE] =>
      tracker[a].fails <= 1 /\ state[a] # "Terminated"

(* The documentation of heartbeat.rs says of a crashed agent that it is     *)
(* recovered "up to `max_recovery_attempts` times" and then "marked as      *)
(* Terminated".  The code does not do so for a scheduled agent without      *)
(* quiet hours: the recovery stamps last_active, so the next check finds    *)
(* the agent responsive and forgets the attempt, however often it hangs.    *)
(* This holds for any number of attempts, provided no limit is shorter than *)
(* the time between two checks (RecoveryTracker, start_heartbeat_monitor).  *)
THEOREM NeverExhaustedHolds == LimitsAtLeastOneCheck => (Spec => []NeverExhausted)
  <1> SUFFICES ASSUME LimitsAtLeastOneCheck
               PROVE  Spec => []NeverExhausted
    OBVIOUS
  <1>1. IInv => NeverExhausted
    BY DEF IInv, PlainAgents, Plain, PlainAgent, NeverExhausted
  <1> QED
    BY <1>1, Invariant, PTL
=============================================================================
